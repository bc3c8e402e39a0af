------------------------- MODULE ExercisePoolProofs -------------------------
(* Theorems about ExercisePool for every value of its constants. *)
EXTENDS ExercisePool, TLAPS

LEMMA FlushRow ==
  ASSUME NEW now \in Run, NEW seen \in Run, NEW new \in Run
  PROVE  /\ Flush(now, seen, new) \in Run
         /\ \A f \in {"node", "version", "status", "priority", "requested", "attempts",
                      "lease", "accepted"} :
              Flush(now, seen, new)[f] = IF new[f] = seen[f] THEN now[f] ELSE new[f]
BY DEF Run, Flush

LEMMA ConstantTypes ==
  /\ {ReadySize, RefillThreshold, TargetSize, MinGenerated, MinPublishable, MaxItems,
      SmallBatch, BigBatch, MaxAttempts, MaxCrashes} \subseteq Nat
  /\ MinPublishable > 0 /\ SmallBatch > 0 /\ BigBatch > 0 /\ MaxAttempts > 0
BY ConstantsAssumption

LEMMA NullTypes == NoRun \in Run /\ IdleWorker \in Worker /\ IdleRequest \in Request
<1>1. NoRun \in Run
  BY DEF NoRun, Run, RunStatus
<1> QED
  BY <1>1 DEF IdleWorker, Worker, WorkerPc, IdleRequest, Request, RequestPc, Replies

LEMMA PoolTypes ==
  ASSUME NEW p \in Pool, NEW k \in Nat
  PROVE  Eligible(p) \in Nat /\ NeedsRefill(p) \in BOOLEAN /\ WithBatch(p, k) \in Pool
<1>1. Eligible(p) \in Nat
  BY DEF Pool, Eligible
<1>2. NeedsRefill(p) \in BOOLEAN
  BY DEF NeedsRefill
<1>3. WithBatch(p, k) \in Pool
  BY DEF WithBatch, Pool
<1> QED
  BY <1>1, <1>2, <1>3

LEMMA ClaimedRowType ==
  ASSUME NEW run \in Run
  PROVE  /\ ClaimedRow(run) \in Run
         /\ ClaimedRow(run).status = "running" /\ ClaimedRow(run).lease = "live"
         /\ ClaimedRow(run).attempts = run.attempts + 1
         /\ ClaimedRow(run).node = run.node /\ ClaimedRow(run).version = run.version
<1>1. run.attempts + 1 \in Nat
  BY DEF Run
<1>2. PICK a \in Nat : a = run.attempts + 1
  BY <1>1
<1> QED
  BY <1>2 DEF ClaimedRow, Run, RunStatus

LEMMA NewRunType ==
  ASSUME NEW n \in Nodes, NEW v \in Versions, NEW prio \in Nat, NEW req \in Nat
  PROVE  /\ NewRun(n, v, prio, req) \in Run
         /\ NewRun(n, v, prio, req).node = n /\ NewRun(n, v, prio, req).version = v
         /\ NewRun(n, v, prio, req).status = "queued"
         /\ NewRun(n, v, prio, req).attempts = 0
BY DEF NewRun, NoRun, Run, RunStatus

(* What the two writes of a run leave in the table. *)
LEMMA CompletedRowFacts ==
  ASSUME TypeOK, NEW w \in Workers, wk[w].run \in RunIds
  PROVE  LET row == runs[wk[w].run]
             seen == wk[w].seen
         IN  /\ CompletedRow(w) \in Run
             /\ CompletedRow(w).node = row.node /\ CompletedRow(w).version = row.version
             /\ CompletedRow(w).attempts = row.attempts
             /\ CompletedRow(w).status = IF seen.status = "completed" THEN row.status ELSE "completed"
             /\ CompletedRow(w).lease = IF seen.lease = "none" THEN row.lease ELSE "none"
             /\ CompletedRow(w).accepted = IF seen.accepted = wk[w].batch THEN row.accepted
                                           ELSE wk[w].batch
<1> DEFINE s == wk[w].seen
           new == [s EXCEPT !.status = "completed", !.lease = "none", !.accepted = wk[w].batch]
<1>1. s \in Run /\ wk[w].batch \in Nat /\ runs[wk[w].run] \in Run
  BY DEF TypeOK, Worker
<1>2. /\ new \in Run
      /\ new.node = s.node /\ new.version = s.version /\ new.attempts = s.attempts
      /\ new.status = "completed" /\ new.lease = "none" /\ new.accepted = wk[w].batch
  BY <1>1 DEF Run, RunStatus
<1>3. CompletedRow(w) = Flush(runs[wk[w].run], s, new)
  BY DEF CompletedRow
<1> HIDE DEF new
<1> QED
  BY <1>1, <1>2, <1>3, FlushRow

LEMMA FailedRowFacts ==
  ASSUME TypeOK, NEW w \in Workers, wk[w].run \in RunIds
  PROVE  LET row == runs[wk[w].run]
             seen == wk[w].seen
             mark == IF seen.attempts < MaxAttempts THEN "queued" ELSE "failed"
         IN  /\ FailedRow(w) \in Run
             /\ FailedRow(w).node = row.node /\ FailedRow(w).version = row.version
             /\ FailedRow(w).attempts = row.attempts
             /\ FailedRow(w).status = IF seen.status = mark THEN row.status ELSE mark
             /\ FailedRow(w).lease = IF seen.lease = "none" THEN row.lease ELSE "none"
             /\ FailedRow(w).accepted = row.accepted
<1> DEFINE s == wk[w].seen
           mark == IF s.attempts < MaxAttempts THEN "queued" ELSE "failed"
           new == [s EXCEPT !.lease = "none", !.status = mark]
<1>1. s \in Run /\ runs[wk[w].run] \in Run
  BY DEF TypeOK, Worker
<1>2. mark \in {"queued", "failed"} /\ FailedRow(w) = Flush(runs[wk[w].run], s, new)
  BY DEF FailedRow
<1> HIDE DEF mark
<1>3. /\ new \in Run
      /\ new.node = s.node /\ new.version = s.version /\ new.attempts = s.attempts
      /\ new.status = mark /\ new.lease = "none" /\ new.accepted = s.accepted
  BY <1>1, <1>2 DEF Run, RunStatus
<1> HIDE DEF new
<1>4. FailedRow(w).status = IF s.status = mark THEN runs[wk[w].run].status ELSE mark
  BY <1>1, <1>2, <1>3, FlushRow
<1>5. /\ FailedRow(w) \in Run
      /\ FailedRow(w).node = runs[wk[w].run].node
      /\ FailedRow(w).version = runs[wk[w].run].version
      /\ FailedRow(w).attempts = runs[wk[w].run].attempts
      /\ FailedRow(w).lease = IF s.lease = "none" THEN runs[wk[w].run].lease ELSE "none"
      /\ FailedRow(w).accepted = runs[wk[w].run].accepted
  BY <1>1, <1>2, <1>3, FlushRow
<1> QED
  BY <1>4, <1>5 DEF mark

LEMMA TypeInit == Init => TypeOK
<1> SUFFICES ASSUME Init PROVE TypeOK
  OBVIOUS
<1>1. pool \in [Nodes -> Pool]
  <2>1. \A p \in InitialPools : [curated |-> p.curated, legacy |-> p.legacy, current |-> 0] \in Pool
    BY ConstantsAssumption DEF Pool
  <2> QED
    BY <2>1 DEF Init
<1> QED
  BY <1>1, NullTypes DEF Init, TypeOK

(* What TypeOK leaves open: which optional fields are set, and that rows    *)
(* and open transactions refer to units that still exist.                  *)
RowsScoped ==
  \A r \in RunIds : RowExists(r) => runs[r].node \in live /\ runs[r].version \in Versions

RequestsScoped ==
  \A q \in Requests :
    /\ rq[q].pc # "idle" => rq[q].node \in Nodes
    /\ rq[q].pc \in {"deduped", "inserted"} => rq[q].version \in Versions
    /\ rq[q].pc = "inserted" => rq[q].node \in live

WorkersScoped ==
  \A w \in Workers :
    /\ Holding(w) => wk[w].run \in RunIds
    /\ wk[w].pc \in {"working", "closing"} =>
         /\ wk[w].seen.node \in Nodes
         /\ wk[w].seen.node \in live => /\ RowExists(wk[w].run)
                                        /\ runs[wk[w].run].node = wk[w].seen.node
    /\ wk[w].pc = "closing" =>
         wk[w].batch \in MinPublishable .. MaxItems /\ wk[w].seen.node \in live

(* Rows that keep existing under their unit disturb no worker's scope. *)
LEMMA RowsKept ==
  ASSUME WorkersScoped, live' = live, wk' = wk,
         \A r \in RunIds : RowExists(r) => RowExists(r)' /\ runs'[r].node = runs[r].node
  PROVE  WorkersScoped'
BY DEF WorkersScoped, Holding

LEMMA OneWorkerMoves ==
  ASSUME WorkersScoped, live' = live, NEW w \in Workers,
         \A r \in RunIds : RowExists(r) => RowExists(r)' /\ runs'[r].node = runs[r].node,
         \A v \in Workers \ {w} : wk'[v] = wk[v],
         Holding(w)' => wk'[w].run \in RunIds,
         wk'[w].pc \notin {"working", "closing"}
  PROVE  WorkersScoped'
BY DEF WorkersScoped, Holding

WellTyped == TypeOK /\ RowsScoped /\ RequestsScoped /\ WorkersScoped

LEMMA WellTypedInit == Init => WellTyped
BY TypeInit DEF Init, WellTyped, RowsScoped, RequestsScoped, WorkersScoped, RowExists, Holding, NoRun, IdleRequest, IdleWorker

(* A request's steps. *)
LEMMA WellTypedRequest ==
  ASSUME WellTyped, NEW q \in Requests,
         RequestStep(q) \/ \E n \in Nodes : ReqLoad(q, n)
  PROVE  WellTyped'
<1> USE NullTypes
<1>1. ASSUME NEW kind \in Replies, Reply(q, kind), rq[q].node \in Nodes
      PROVE  /\ rq' \in [Requests -> Request]
             /\ rq'[q].pc = "done" /\ rq'[q].node \in Nodes
             /\ \A p \in Requests \ {q} : rq'[p] = rq[p]
  BY <1>1 DEF Reply, WellTyped, TypeOK, Request, RequestPc, IdleRequest, Replies
<1>2. \A c \in Nat, b \in BOOLEAN : PoolStatus(c, b) \in Replies
  BY DEF PoolStatus, Replies
<1>3. rq[q] \in Request /\ \A n : NodeHasActiveRun(n) \in BOOLEAN
  BY DEF WellTyped, TypeOK, NodeHasActiveRun
<1>4. rq[q].have \in Nat
  BY <1>3 DEF Request
<1>5. CASE \E n \in Nodes : ReqLoad(q, n)
  <2>1. PICK n \in Nodes : ReqLoad(q, n)
    BY <1>5
  <2>2. pool[n] \in Pool
    BY DEF WellTyped, TypeOK
  <2>3. Eligible(pool[n]) \in Nat /\ NeedsRefill(pool[n]) \in BOOLEAN
    BY <2>2, PoolTypes
  <2>4. /\ rq' \in [Requests -> Request]
        /\ rq'[q].pc = "loaded" /\ rq'[q].node \in Nodes
        /\ \A p \in Requests \ {q} : rq'[p] = rq[p]
    BY <2>1, <2>3 DEF ReqLoad, WellTyped, TypeOK, Request, RequestPc, IdleRequest, Replies
  <2> QED
    BY <2>1, <2>4 DEF ReqLoad, WellTyped, TypeOK, RowsScoped, RequestsScoped, WorkersScoped, RowExists, Holding
<1>6. CASE ReqNoEnqueue(q)
  <2>1. rq[q].node \in Nodes
    BY <1>6 DEF ReqNoEnqueue, WellTyped, RowsScoped, RequestsScoped, WorkersScoped
  <2>2. PICK kind \in Replies : Reply(q, kind)
    BY <1>2, <1>3, <1>4, <1>6 DEF ReqNoEnqueue
  <2> QED
    BY <1>1, <1>6, <2>1, <2>2 DEF ReqNoEnqueue, WellTyped, TypeOK, RowsScoped, RequestsScoped, WorkersScoped, RowExists, Holding
<1>7. CASE ReqWantsRefill(q)
  BY <1>3, <1>7
     DEF ReqWantsRefill, WellTyped, TypeOK, RowsScoped, RequestsScoped, WorkersScoped, RowExists, Holding, Request, RequestPc
<1>8. CASE ReqNotEnqueued(q)
  <2>1. rq[q].node \in Nodes
    BY <1>8 DEF ReqNotEnqueued, WellTyped, RowsScoped, RequestsScoped, WorkersScoped
  <2>2. PICK kind \in Replies : Reply(q, kind)
    BY <1>2, <1>3, <1>4, <1>8 DEF ReqNotEnqueued
  <2> QED
    BY <1>1, <1>8, <2>1, <2>2 DEF ReqNotEnqueued, WellTyped, TypeOK, RowsScoped, RequestsScoped, WorkersScoped, RowExists, Holding
<1>9. CASE ReqDedupe(q)
  <2>1. rq[q].node \in Nodes
    BY <1>9 DEF ReqDedupe, WellTyped, RowsScoped, RequestsScoped, WorkersScoped
  <2>2. points[rq[q].node] \in Versions
    BY <1>9, <2>1 DEF ReqDedupe, WellTyped, TypeOK
  <2>3. /\ rq' \in [Requests -> Request]
        /\ rq'[q].node \in Nodes /\ rq'[q].version \in Versions
        /\ \A p \in Requests \ {q} : rq'[p] = rq[p]
    BY <1>3, <1>9, <2>1, <2>2 DEF ReqDedupe, WellTyped, TypeOK, Request, RequestPc
  <2> QED
    BY <1>9, <2>3 DEF ReqDedupe, WellTyped, TypeOK, RowsScoped, RequestsScoped, WorkersScoped, RowExists, Holding
<1>10. CASE ReqInsert(q)
  <2>1. rq[q].node \in Nodes /\ rq[q].version \in Versions
    BY <1>10 DEF ReqInsert, WellTyped, RowsScoped, RequestsScoped, WorkersScoped
  <2>2. CASE rq' = [rq EXCEPT ![q].pc = "inserted"]
    <3>1. /\ rq' \in [Requests -> Request]
          /\ rq'[q].node \in live /\ rq'[q].version \in Versions
          /\ rq'[q].pc = "inserted"
          /\ \A p \in Requests \ {q} : rq'[p] = rq[p]
      <4>1. rq[q].node \in live \/ Reply(q, "error") \/ Reply(q, "conflict")
        BY <1>10 DEF ReqInsert
      <4>2. rq'[q].pc = "inserted"
        BY <1>3, <2>2 DEF WellTyped, TypeOK, Request
      <4>3. ~Reply(q, "error") /\ ~Reply(q, "conflict")
        BY <1>1, <2>1, <4>2 DEF Replies
      <4> QED
        BY <1>3, <2>1, <2>2, <4>1, <4>3 DEF WellTyped, TypeOK, Request, RequestPc
    <3> QED
      BY <1>10, <2>1, <3>1 DEF ReqInsert, WellTyped, TypeOK, RowsScoped, RequestsScoped, WorkersScoped, RowExists, Holding
  <2>3. CASE \E kind \in Replies : Reply(q, kind)
    BY <1>1, <1>10, <2>1, <2>3 DEF ReqInsert, WellTyped, TypeOK, RowsScoped, RequestsScoped, WorkersScoped, RowExists, Holding
  <2>4. {"error", "conflict"} \subseteq Replies
    BY DEF Replies
  <2> QED
    BY <1>10, <2>2, <2>3, <2>4 DEF ReqInsert
<1>11. CASE ReqCommit(q)
  <2>1. rq[q].node \in Nodes /\ rq[q].node \in live /\ rq[q].version \in Versions
    BY <1>11 DEF ReqCommit, WellTyped, RequestsScoped
  <2>2. RequestedFor(rq[q].have) \in Nat /\ 100 \in Nat
    BY ConstantTypes DEF RequestedFor
  <2> DEFINE node == rq[q].node
             version == rq[q].version
             size == RequestedFor(rq[q].have)
             new == NewRun(node, version, 100, size)
  <2>a. node \in Nodes /\ version \in Versions /\ size \in Nat
    BY <2>1, <2>2
  <2> HIDE DEF node, version, size
  <2>b. new \in Run /\ new.node = node /\ new.version = version /\ new.status = "queued"
    BY <2>2, <2>a, NewRunType
  <2>3. new \in Run /\ new.node = rq[q].node /\ new.version = rq[q].version
        /\ new.status = "queued"
    BY <2>b DEF node, version
  <2>4. PICK r \in RunIds : runs[r].status = "absent" /\ runs' = [runs EXCEPT ![r] = new]
    BY <1>11 DEF ReqCommit, node, version, size
  <2> HIDE DEF new
  <2>5. runs' \in [RunIds -> Run] /\ runs'[r] = new /\ \A s \in RunIds \ {r} : runs'[s] = runs[s]
    BY <2>3, <2>4 DEF WellTyped, TypeOK
  <2>6. UNCHANGED <<live, points, pool, wk, crashes>>
    BY <1>11 DEF ReqCommit
  <2>7. RowsScoped'
    BY <2>1, <2>3, <2>4, <2>5, <2>6 DEF WellTyped, RowsScoped, RowExists
  <2>8. PICK kind \in Replies : Reply(q, kind)
    BY <1>2, <1>4, <1>11 DEF ReqCommit
  <2>9. RequestsScoped'
    BY <1>1, <2>1, <2>6, <2>8 DEF WellTyped, RequestsScoped
  <2>10. WorkersScoped'
    BY <2>3, <2>4, <2>5, <2>6, RowsKept DEF WellTyped, RowExists
  <2>11. TypeOK'
    BY <1>1, <2>1, <2>5, <2>6, <2>8 DEF WellTyped, TypeOK
  <2> QED
    BY <2>7, <2>9, <2>10, <2>11 DEF WellTyped
<1>12. CASE ReqAbort(q)
  <2>1. rq[q].node \in Nodes
    BY <1>12 DEF ReqAbort, WellTyped, RowsScoped, RequestsScoped, WorkersScoped
  <2>2. "error" \in Replies
    BY DEF Replies
  <2> QED
    BY <1>1, <1>12, <2>1, <2>2 DEF ReqAbort, WellTyped, TypeOK, RowsScoped, RequestsScoped, WorkersScoped, RowExists, Holding
<1> QED
  BY <1>5, <1>6, <1>7, <1>8, <1>9, <1>10, <1>11, <1>12 DEF RequestStep

(* A worker's steps. *)
LEMMA WellTypedWorker ==
  ASSUME WellTyped, NEW w \in Workers, WorkerStep(w) \/ Crash(w)
  PROVE  WellTyped'
<1> USE NullTypes
<1>1. wk[w] \in Worker /\ wk[w].seen \in Run
  BY DEF WellTyped, TypeOK, Worker
<1>2. ASSUME NEW x \in Worker, wk' = [wk EXCEPT ![w] = x]
      PROVE  /\ wk' \in [Workers -> Worker]
             /\ wk'[w] = x
             /\ \A v \in Workers \ {w} : wk'[v] = wk[v]
  BY <1>2 DEF WellTyped, TypeOK
<1>3. CASE \E r \in RunIds : Claim(w, r)
  <2>1. PICK r \in RunIds : Claim(w, r)
    BY <1>3
  <2>2. runs[r] \in Run /\ RowExists(r)
    BY <2>1 DEF WellTyped, TypeOK, Claim, Claimable, RowExists
  <2>3. runs' = [runs EXCEPT ![r] = ClaimedRow(runs[r])]
    BY <2>1 DEF Claim
  <2>4. runs' \in [RunIds -> Run] /\ \A s \in RunIds :
          /\ RowExists(s)' => RowExists(s) /\ runs'[s].version = runs[s].version
          /\ RowExists(s) => RowExists(s)'
          /\ runs'[s].node = runs[s].node
    BY <2>2, <2>3, ClaimedRowType DEF WellTyped, TypeOK, RowExists
  <2> DEFINE x == [IdleWorker EXCEPT !.pc = "claimed", !.run = r]
  <2>5. x \in Worker /\ x.pc = "claimed" /\ x.run = r
    BY DEF IdleWorker, Worker, WorkerPc
  <2>6. wk' \in [Workers -> Worker] /\ wk'[w] = x /\ \A v \in Workers \ {w} : wk'[v] = wk[v]
    BY <1>2, <2>1, <2>5 DEF Claim
  <2> HIDE DEF x
  <2>7. UNCHANGED <<live, points, pool, rq, crashes>>
    BY <2>1 DEF Claim
  <2>8. WorkersScoped'
    BY <2>4, <2>5, <2>6, <2>7, OneWorkerMoves DEF WellTyped
  <2>9. RowsScoped' /\ RequestsScoped'
    BY <2>4, <2>7 DEF WellTyped, RowsScoped, RequestsScoped
  <2> QED
    BY <2>4, <2>6, <2>7, <2>8, <2>9 DEF WellTyped, TypeOK
<1>4. CASE LoadRun(w)
  <2>1. wk[w].run \in RunIds /\ runs[wk[w].run] \in Run
    BY <1>4 DEF LoadRun, WellTyped, TypeOK, RowsScoped, RequestsScoped, WorkersScoped, Holding
  <2>2. [wk[w] EXCEPT !.pc = "working", !.seen = runs[wk[w].run]] \in Worker
    BY <1>1, <2>1 DEF Worker, WorkerPc
  <2>3. [wk[w] EXCEPT !.pc = "failing"] \in Worker
    BY <1>1 DEF Worker, WorkerPc
  <2>4. CASE /\ RowExists(wk[w].run)
             /\ wk' = [wk EXCEPT ![w] = [wk[w] EXCEPT !.pc = "working",
                                                      !.seen = runs[wk[w].run]]]
    <3>1. runs[wk[w].run].node \in Nodes
      BY <2>1, <2>4 DEF WellTyped, TypeOK, RowsScoped
    <3>2. /\ wk'[w].seen = runs[wk[w].run] /\ wk'[w].pc = "working"
          /\ wk'[w].run = wk[w].run
          /\ wk' \in [Workers -> Worker] /\ \A v \in Workers \ {w} : wk'[v] = wk[v]
      BY <1>1, <1>2, <2>1, <2>2, <2>4 DEF Worker
    <3>3. UNCHANGED <<live, points, pool, runs, rq, crashes>>
      BY <1>4 DEF LoadRun
    <3>4. WorkersScoped'
      BY <2>1, <2>4, <3>1, <3>2, <3>3 DEF WellTyped, WorkersScoped, Holding, RowExists
    <3> QED
      BY <3>2, <3>3, <3>4 DEF WellTyped, TypeOK, RowsScoped, RequestsScoped, RowExists
  <2>5. CASE wk' = [wk EXCEPT ![w] = [wk[w] EXCEPT !.pc = "failing"]]
    <3>1. wk'[w].pc = "failing" /\ wk'[w].run \in RunIds
      BY <1>1, <1>2, <2>1, <2>3, <2>5 DEF Worker
    <3> QED
      BY <1>2, <1>4, <2>3, <2>5, <3>1
         DEF LoadRun, WellTyped, TypeOK, RowsScoped, RequestsScoped, WorkersScoped, Holding, RowExists
  <2> QED
    BY <1>4, <2>4, <2>5 DEF LoadRun
<1>5. CASE GenerationFails(w)
  <2>1. [wk[w] EXCEPT !.pc = "failing"] \in Worker
    BY <1>1 DEF Worker, WorkerPc
  <2>2. wk' = [wk EXCEPT ![w] = [wk[w] EXCEPT !.pc = "failing"]]
    BY <1>5 DEF GenerationFails
  <2>3. wk'[w].pc = "failing" /\ wk'[w].run \in RunIds
    BY <1>1, <1>2, <1>5, <2>1, <2>2
       DEF GenerationFails, Worker, WellTyped, RowsScoped, RequestsScoped, WorkersScoped, Holding
  <2> QED
    BY <1>2, <1>5, <2>1, <2>2, <2>3
       DEF GenerationFails, WellTyped, TypeOK, RowsScoped, RequestsScoped, WorkersScoped, Holding, RowExists
<1>6. CASE \E k \in MinPublishable .. MaxItems : WriteResult(w, k)
  <2>1. PICK k \in MinPublishable .. MaxItems : WriteResult(w, k)
    BY <1>6
  <2>2. k \in Nat
    BY ConstantTypes
  <2>3. wk[w].run \in RunIds /\ wk[w].seen.node \in Nodes
    BY <2>1 DEF WriteResult, WellTyped, RowsScoped, RequestsScoped, WorkersScoped, Holding
  <2> DEFINE n == wk[w].seen.node
             v == FollowUpVersion(w, n, k)
             f == RequestedFor(Eligible(pool[n]) + k)
             x == [wk[w] EXCEPT !.pc = "closing", !.batch = k, !.version = v, !.follow = f]
  <2>4. v \in Versions \cup {None} /\ f \in Nat
    BY <2>3, ConstantTypes DEF FollowUpVersion, RequestedFor, WellTyped, TypeOK
  <2>5. wk' = [wk EXCEPT ![w] = x]
    BY <2>1 DEF WriteResult
  <2> HIDE DEF v, f
  <2>6. x \in Worker /\ x.pc = "closing" /\ x.batch = k /\ x.run = wk[w].run /\ x.seen = wk[w].seen
    BY <1>1, <2>2, <2>4 DEF Worker, WorkerPc
  <2> HIDE DEF x
  <2>7. wk' \in [Workers -> Worker] /\ wk'[w] = x /\ \A u \in Workers \ {w} : wk'[u] = wk[u]
    BY <1>2, <2>5, <2>6
  <2>8. UNCHANGED <<live, points, pool, runs, rq, crashes>> /\ n \in live /\ wk[w].pc = "working"
    BY <2>1 DEF WriteResult
  <2>9. WorkersScoped'
    BY <2>1, <2>3, <2>6, <2>7, <2>8 DEF WellTyped, WorkersScoped, Holding, RowExists
  <2> QED
    BY <2>7, <2>8, <2>9 DEF WellTyped, TypeOK, RowsScoped, RequestsScoped, RowExists
<1>7. ASSUME wk[w].pc = "closing"
      PROVE  /\ wk[w].run \in RunIds /\ wk[w].seen.node \in Nodes /\ wk[w].batch \in Nat
             /\ pool[wk[w].seen.node] \in Pool
             /\ WithBatch(pool[wk[w].seen.node], wk[w].batch) \in Pool
             /\ \A r \in RunIds : [runs EXCEPT ![wk[w].run] = CompletedRow(w)][r] \in Run
             /\ CompletedRow(w) \in Run
             /\ CompletedRow(w).node = runs[wk[w].run].node
             /\ CompletedRow(w).version = runs[wk[w].run].version
  <2>1. wk[w].run \in RunIds /\ wk[w].seen.node \in Nodes /\ wk[w].batch \in Nat
    BY <1>1, <1>7 DEF WellTyped, RowsScoped, RequestsScoped, WorkersScoped, Holding, Worker
  <2>2. pool[wk[w].seen.node] \in Pool
    BY <2>1 DEF WellTyped, TypeOK
  <2> QED
    BY <2>1, <2>2, PoolTypes, CompletedRowFacts DEF WellTyped, TypeOK
<1>8. CASE CommitWork(w)
  <2> DEFINE r == wk[w].run
             n == wk[w].seen.node
  <2>1. /\ runs' = [runs EXCEPT ![r] = CompletedRow(w)]
        /\ pool' = [pool EXCEPT ![n] = WithBatch(pool[n], wk[w].batch)]
        /\ wk' = [wk EXCEPT ![w] = IdleWorker]
        /\ UNCHANGED <<live, points, rq, crashes>>
        /\ wk[w].pc = "closing"
    BY <1>8 DEF CommitWork
  <2>2. RowExists(r)
    BY <2>1 DEF WellTyped, WorkersScoped
  <2>3. CompletedRow(w).status \notin {"absent", "deleted"}
    BY <1>7, <2>1, <2>2, CompletedRowFacts DEF WellTyped, RowExists
  <2>4. /\ runs' \in [RunIds -> Run]
        /\ \A s \in RunIds : /\ RowExists(s) => RowExists(s)'
                             /\ RowExists(s)' => RowExists(s)
                              /\ runs'[s].node = runs[s].node
                              /\ runs'[s].version = runs[s].version
    BY <1>7, <2>1, <2>2, <2>3 DEF WellTyped, TypeOK, RowExists
  <2>5. pool' \in [Nodes -> Pool]
    BY <1>7, <2>1 DEF WellTyped, TypeOK
  <2>6. wk' \in [Workers -> Worker] /\ wk'[w] = IdleWorker /\ \A v \in Workers \ {w} : wk'[v] = wk[v]
    BY <1>2, <2>1
  <2>a. ~Holding(w)' /\ wk'[w].pc = "idle"
    BY <2>6 DEF Holding, IdleWorker
  <2>7. WorkersScoped'
    BY <2>1, <2>4, <2>6, <2>a, OneWorkerMoves DEF WellTyped
  <2>8. RowsScoped' /\ RequestsScoped'
    BY <2>1, <2>4 DEF WellTyped, RowsScoped, RequestsScoped
  <2> QED
    BY <2>1, <2>4, <2>5, <2>6, <2>7, <2>8 DEF WellTyped, TypeOK
<1>9. CASE CommitWorkAndFollow(w)
  <2> DEFINE r == wk[w].run
             n == wk[w].seen.node
             v == wk[w].version
             prio == FollowPriority(wk[w].seen.priority)
             size == wk[w].follow
             new == NewRun(n, v, prio, size)
  <2>1. /\ pool' = [pool EXCEPT ![n] = WithBatch(pool[n], wk[w].batch)]
        /\ wk' = [wk EXCEPT ![w] = IdleWorker]
        /\ UNCHANGED <<live, points, rq, crashes>>
        /\ wk[w].pc = "closing" /\ v # None
    BY <1>9 DEF CommitWorkAndFollow
  <2>2. PICK s \in RunIds : /\ runs[s].status = "absent"
                            /\ runs' = [runs EXCEPT ![r] = CompletedRow(w), ![s] = new]
    BY <1>9 DEF CommitWorkAndFollow
  <2>3. RowExists(r) /\ n \in live /\ r # s
    BY <2>1, <2>2 DEF WellTyped, WorkersScoped, RowExists
  <2>4. n \in Nodes /\ v \in Versions /\ size \in Nat /\ wk[w].seen.priority \in Nat
    BY <1>1, <1>7, <2>1 DEF Worker, Run
  <2>5. prio \in Nat
    BY <2>4 DEF FollowPriority
  <2> HIDE DEF v, prio, size
  <2>6. new \in Run /\ new.node = n /\ new.version = v /\ new.status = "queued"
    BY <2>4, <2>5, NewRunType
  <2> HIDE DEF new
  <2>7. CompletedRow(w).status \notin {"absent", "deleted"}
    BY <1>7, <2>1, <2>3, CompletedRowFacts DEF WellTyped, RowExists
  <2>8. /\ runs' \in [RunIds -> Run]
        /\ runs'[s] = new /\ runs'[r] = CompletedRow(w)
        /\ \A t \in RunIds \ {r, s} : runs'[t] = runs[t]
    BY <1>7, <2>1, <2>2, <2>3, <2>6 DEF WellTyped, TypeOK
  <2>9. pool' \in [Nodes -> Pool]
    BY <1>7, <2>1 DEF WellTyped, TypeOK
  <2>10. wk' \in [Workers -> Worker] /\ wk'[w] = IdleWorker /\ \A u \in Workers \ {w} : wk'[u] = wk[u]
    BY <1>2, <2>1
  <2>11. \A t \in RunIds : RowExists(t) => RowExists(t)' /\ runs'[t].node = runs[t].node
    BY <1>7, <2>1, <2>2, <2>3, <2>7, <2>8 DEF RowExists
  <2>12. WorkersScoped'
    BY <2>1, <2>10, <2>11, OneWorkerMoves DEF WellTyped, Holding, IdleWorker
  <2>13. RowsScoped'
    BY <1>7, <2>1, <2>3, <2>4, <2>6, <2>8 DEF WellTyped, RowsScoped, RowExists
  <2>14. RequestsScoped'
    BY <2>1 DEF WellTyped, RequestsScoped
  <2> QED
    BY <2>1, <2>8, <2>9, <2>10, <2>12, <2>13, <2>14 DEF WellTyped, TypeOK
<1>10. CASE FollowUpConflicts(w)
  <2>1. wk[w].run \in RunIds
    BY <1>10 DEF FollowUpConflicts, WellTyped, RowsScoped, RequestsScoped, WorkersScoped, Holding
  <2>2. [IdleWorker EXCEPT !.pc = "failing", !.run = wk[w].run] \in Worker
    BY <2>1 DEF IdleWorker, Worker, WorkerPc
  <2> QED
    BY <1>2, <1>10, <2>1, <2>2
       DEF FollowUpConflicts, WellTyped, TypeOK, RowsScoped, RequestsScoped, WorkersScoped, Holding, RowExists, IdleWorker
<1>11. CASE FailLoad(w)
  <2>1. wk[w].run \in RunIds /\ runs[wk[w].run] \in Run
    BY <1>11 DEF FailLoad, WellTyped, TypeOK, RowsScoped, RequestsScoped, WorkersScoped, Holding
  <2> DEFINE x == [IdleWorker EXCEPT !.pc = "recording", !.run = wk[w].run,
                                     !.seen = runs[wk[w].run]]
  <2>2. x \in Worker /\ x.pc = "recording" /\ x.run = wk[w].run
    BY <2>1 DEF IdleWorker, Worker, WorkerPc
  <2>3. wk' = [wk EXCEPT ![w] = x] \/ wk' = [wk EXCEPT ![w] = IdleWorker]
    BY <1>11 DEF FailLoad
  <2> HIDE DEF x
  <2> QED
    BY <1>2, <1>11, <2>1, <2>2, <2>3
       DEF FailLoad, WellTyped, TypeOK, RowsScoped, RequestsScoped, WorkersScoped, Holding, RowExists, IdleWorker
<1>12. CASE FailWrite(w)
  <2> DEFINE r == wk[w].run
  <2>1. r \in RunIds /\ UNCHANGED <<live, points, pool, rq, crashes>>
    BY <1>12 DEF FailWrite, WellTyped, WorkersScoped, Holding
  <2>2. CASE /\ RowExists(r)
             /\ runs' = [runs EXCEPT ![r] = FailedRow(w)]
             /\ wk' = [wk EXCEPT ![w] = IdleWorker]
    <3>1. /\ FailedRow(w) \in Run
          /\ FailedRow(w).status \notin {"absent", "deleted"}
          /\ FailedRow(w).node = runs[r].node /\ FailedRow(w).version = runs[r].version
      BY <2>1, <2>2, FailedRowFacts DEF WellTyped, RowExists
    <3>2. /\ runs' \in [RunIds -> Run]
          /\ \A s \in RunIds : /\ RowExists(s) => RowExists(s)'
                               /\ RowExists(s)' => RowExists(s)
                                /\ runs'[s].node = runs[s].node
                                /\ runs'[s].version = runs[s].version
      BY <2>1, <2>2, <3>1 DEF WellTyped, TypeOK, RowExists
    <3>3. wk' \in [Workers -> Worker] /\ wk'[w] = IdleWorker /\ \A v \in Workers \ {w} : wk'[v] = wk[v]
      BY <1>2, <2>2
    <3>a. ~Holding(w)' /\ wk'[w].pc = "idle"
      BY <3>3 DEF Holding, IdleWorker
    <3>4. WorkersScoped'
      BY <2>1, <3>2, <3>3, <3>a, OneWorkerMoves DEF WellTyped
    <3>5. RowsScoped' /\ RequestsScoped'
      BY <2>1, <3>2 DEF WellTyped, RowsScoped, RequestsScoped
    <3> QED
      BY <2>1, <3>2, <3>3, <3>4, <3>5 DEF WellTyped, TypeOK
  <2>3. CASE UNCHANGED runs /\ wk' = [wk EXCEPT ![w] = [IdleWorker EXCEPT !.pc = "escaped"]]
    <3>1. [IdleWorker EXCEPT !.pc = "escaped"] \in Worker
      BY DEF IdleWorker, Worker, WorkerPc
    <3> QED
      BY <1>2, <2>1, <2>3, <3>1
         DEF WellTyped, TypeOK, RowsScoped, RequestsScoped, WorkersScoped, Holding, RowExists, IdleWorker
  <2> QED
    BY <1>12, <2>2, <2>3 DEF FailWrite
<1>13. CASE Restart(w)
  BY <1>2, <1>13 DEF Restart, WellTyped, TypeOK, RowsScoped, RequestsScoped, WorkersScoped, Holding, RowExists, IdleWorker
<1>14. CASE Crash(w)
  <2>1. [IdleWorker EXCEPT !.pc = "crashed"] \in Worker
    BY DEF IdleWorker, Worker, WorkerPc
  <2> QED
    BY <1>2, <1>14, <2>1
       DEF Crash, WellTyped, TypeOK, RowsScoped, RequestsScoped, WorkersScoped, Holding, RowExists, IdleWorker
<1> QED
  BY <1>3, <1>4, <1>5, <1>6, <1>8, <1>9, <1>10, <1>11, <1>12, <1>13, <1>14 DEF WorkerStep

(* The environment's steps. *)
LEMMA WellTypedEnvironment ==
  ASSUME WellTyped,
         \/ \E r \in RunIds : LeaseExpires(r)
         \/ \E n \in Nodes, v \in Versions \cup {None} : EditPoints(n, v)
         \/ \E n \in Nodes : DeleteNode(n)
  PROVE  WellTyped'
<1>1. CASE \E r \in RunIds : LeaseExpires(r)
  <2>1. PICK r \in RunIds : LeaseExpires(r)
    BY <1>1
  <2>2. /\ runs' = [runs EXCEPT ![r] = [runs[r] EXCEPT !.lease = "expired"]]
        /\ UNCHANGED <<live, points, pool, wk, rq, crashes>>
    BY <2>1 DEF LeaseExpires
  <2>3. /\ [runs[r] EXCEPT !.lease = "expired"] \in Run
        /\ \A s \in RunIds : /\ runs'[s].status = runs[s].status
                              /\ runs'[s].node = runs[s].node
                              /\ runs'[s].version = runs[s].version
    BY <2>2 DEF WellTyped, TypeOK, Run
  <2>4. RowsScoped' /\ RequestsScoped' /\ WorkersScoped'
    BY <2>2, <2>3, RowsKept DEF WellTyped, RowsScoped, RequestsScoped, RowExists
  <2> QED
    BY <2>2, <2>3, <2>4 DEF WellTyped, TypeOK
<1>2. CASE \E n \in Nodes, v \in Versions \cup {None} : EditPoints(n, v)
  BY <1>2 DEF EditPoints, WellTyped, TypeOK, RowsScoped, RequestsScoped, WorkersScoped, Holding, RowExists
<1>3. CASE \E n \in Nodes : DeleteNode(n)
  <2>1. PICK n \in Nodes : DeleteNode(n)
    BY <1>3
  <2>2. /\ live' = live \ {n}
        /\ points' = [points EXCEPT ![n] = None]
        /\ pool' = [pool EXCEPT ![n] = [curated |-> 0, legacy |-> 0, current |-> 0]]
        /\ runs' = [r \in RunIds |-> IF runs[r].node = n
                                 THEN [NoRun EXCEPT !.status = "deleted"] ELSE runs[r]]
        /\ UNCHANGED <<wk, rq, crashes>>
    BY <2>1 DEF DeleteNode
  <2>3. [NoRun EXCEPT !.status = "deleted"] \in Run /\ [NoRun EXCEPT !.status = "deleted"].status = "deleted"
    BY DEF NoRun, Run, RunStatus
  <2>4. runs' \in [RunIds -> Run]
    BY <2>2, <2>3 DEF WellTyped, TypeOK
  <2>5. \A r \in RunIds : IF runs[r].node = n THEN ~RowExists(r)' ELSE runs'[r] = runs[r]
    BY <2>2, <2>3 DEF RowExists
  <2>6. pool' \in [Nodes -> Pool]
    BY <2>2 DEF WellTyped, TypeOK, Pool
  <2>7. RowsScoped'
    BY <2>2, <2>5 DEF WellTyped, RowsScoped, RowExists
  <2>8. RequestsScoped'
    BY <2>1, <2>2 DEF DeleteNode, WellTyped, RequestsScoped
  <2>9. WorkersScoped'
    BY <2>1, <2>2, <2>5 DEF DeleteNode, WellTyped, WorkersScoped, Holding, RowExists
  <2> QED
    BY <2>2, <2>4, <2>6, <2>7, <2>8, <2>9 DEF WellTyped, TypeOK
<1> QED
  BY <1>1, <1>2, <1>3

LEMMA WellTypedStep == WellTyped /\ [Next]_vars => WellTyped'
<1> SUFFICES ASSUME WellTyped, [Next]_vars PROVE WellTyped'
  OBVIOUS
<1>1. CASE (\E w \in Workers : Poll(w)) \/ UNCHANGED vars
  BY <1>1 DEF Poll, vars, WellTyped, TypeOK, RowsScoped, RequestsScoped, WorkersScoped, Holding, RowExists
<1>2. CASE Next /\ ~\E w \in Workers : Poll(w)
  BY <1>2, WellTypedRequest, WellTypedWorker, WellTypedEnvironment DEF Next
<1> QED
  BY <1>1, <1>2

LEMMA AlwaysWellTyped == Spec => []WellTyped
BY WellTypedInit, WellTypedStep, PTL DEF Spec

(* The type invariant: the tables and every actor's local state stay within  *)
(* their domains, whatever the numbers of units, workers and requests.      *)
THEOREM TypeCorrect == Spec => []TypeOK
<1>1. WellTyped => TypeOK
  BY DEF WellTyped
<1> QED
  BY <1>1, AlwaysWellTyped, PTL

-----------------------------------------------------------------------------
(* One active run per key, whatever the lease.  The index alone is not      *)
(* inductive: a row that is inserted but not committed counts as well.      *)
PendingUnique ==
  \A p, q \in Requests :
    /\ rq[p].pc = "inserted" /\ rq[q].pc = "inserted"
    /\ rq[p].node = rq[q].node /\ rq[p].version = rq[q].version
    => p = q

PendingFree ==
  \A q \in Requests, r \in RunIds :
    rq[q].pc = "inserted" /\ runs[r].status \in Active =>
      ~HasKey(runs[r], rq[q].node, rq[q].version)

KeysUnique == OneActiveRunPerKey /\ PendingUnique /\ PendingFree

(* Neither a new active row nor a new pending insert. *)
LEMMA NoNewActive ==
  ASSUME KeysUnique,
         \A r \in RunIds : runs'[r].status \in Active =>
           /\ runs[r].status \in Active
           /\ runs'[r].node = runs[r].node /\ runs'[r].version = runs[r].version,
         \A q \in Requests : rq'[q].pc = "inserted" => rq'[q] = rq[q]
  PROVE  KeysUnique'
BY DEF KeysUnique, OneActiveRunPerKey, PendingUnique, PendingFree, HasKey

(* One row may become active, if nothing else has its key. *)
LEMMA OneNewActive ==
  ASSUME KeysUnique, NEW s \in RunIds,
         \A r \in RunIds \ {s} : runs'[r].status \in Active =>
           /\ runs[r].status \in Active
           /\ runs'[r].node = runs[r].node /\ runs'[r].version = runs[r].version
           /\ ~HasKey(runs[r], runs'[s].node, runs'[s].version),
         \A q \in Requests : rq'[q].pc = "inserted" =>
           /\ rq'[q] = rq[q]
           /\ ~(rq[q].node = runs'[s].node /\ rq[q].version = runs'[s].version)
  PROVE  KeysUnique'
BY DEF KeysUnique, OneActiveRunPerKey, PendingUnique, PendingFree, HasKey

LEMMA KeysUniqueInit == Init => KeysUnique
BY DEF Init, KeysUnique, OneActiveRunPerKey, PendingUnique, PendingFree, NoRun, IdleRequest, Active

LEMMA KeysUniqueRequest ==
  ASSUME WellTyped, KeysUnique, NEW q \in Requests,
         RequestStep(q) \/ \E n \in Nodes : ReqLoad(q, n)
  PROVE  KeysUnique'
<1>1. /\ \A x : rq' = [rq EXCEPT ![q] = x] => /\ rq'[q] = x
                                            /\ \A p \in Requests \ {q} : rq'[p] = rq[p]
      /\ \A kind : Reply(q, kind) => rq'[q].pc = "done" /\ \A p \in Requests \ {q} : rq'[p] = rq[p]
  BY DEF WellTyped, TypeOK, Reply, IdleRequest
<1>2. rq[q] \in Request
  BY DEF WellTyped, TypeOK
<1>3. CASE /\ UNCHANGED runs
           /\ rq'[q].pc # "inserted"
           /\ \A p \in Requests \ {q} : rq'[p] = rq[p]
  BY <1>3, NoNewActive
<1>4. CASE \E n \in Nodes : ReqLoad(q, n)
  <2>1. PICK n \in Nodes : ReqLoad(q, n)
    BY <1>4
  <2>2. rq'[q].pc = "loaded" /\ UNCHANGED runs /\ \A p \in Requests \ {q} : rq'[p] = rq[p]
    BY <2>1 DEF ReqLoad, IdleRequest, WellTyped, TypeOK
  <2> QED
    BY <1>3, <2>2
<1>5. CASE ReqNoEnqueue(q) \/ ReqNotEnqueued(q) \/ ReqAbort(q)
  BY <1>1, <1>3, <1>5 DEF ReqNoEnqueue, ReqNotEnqueued, ReqAbort
<1>6. CASE ReqWantsRefill(q) \/ ReqDedupe(q)
  <2>1. rq'[q].pc # "inserted" /\ UNCHANGED runs /\ \A p \in Requests \ {q} : rq'[p] = rq[p]
    BY <1>1, <1>2, <1>6 DEF ReqWantsRefill, ReqDedupe, Request
  <2> QED
    BY <1>3, <2>1
<1>7. CASE ReqInsert(q)
  <2>1. CASE rq' = [rq EXCEPT ![q].pc = "inserted"]
    <3>1. /\ rq'[q].pc = "inserted"
          /\ rq'[q].node = rq[q].node /\ rq'[q].version = rq[q].version
          /\ \A p \in Requests \ {q} : rq'[p] = rq[p]
      BY <1>2, <2>1 DEF WellTyped, TypeOK, Request
    <3>2. ActiveWithKey(rq[q].node, rq[q].version) = {} /\ UNCHANGED runs
      BY <1>1, <1>7, <3>1 DEF ReqInsert
    <3>3. \A p \in Requests : ~(/\ rq[p].pc = "inserted" /\ rq[p].node = rq[q].node
                                /\ rq[p].version = rq[q].version)
      BY <1>7 DEF ReqInsert, KeyInDoubt
    <3> QED
      BY <3>1, <3>2, <3>3
         DEF KeysUnique, OneActiveRunPerKey, PendingUnique, PendingFree, ActiveWithKey
  <2>2. CASE \E kind \in Replies : Reply(q, kind)
    BY <1>1, <1>3, <1>7, <2>2 DEF ReqInsert
  <2> QED
    BY <1>7, <2>1, <2>2 DEF ReqInsert, Replies
<1>8. CASE ReqCommit(q)
  <2>1. PICK s \in RunIds :
          runs' = [runs EXCEPT ![s] = NewRun(rq[q].node, rq[q].version, 100,
                                             RequestedFor(rq[q].have))]
    BY <1>8 DEF ReqCommit
  <2>2. /\ runs'[s].node = rq[q].node /\ runs'[s].version = rq[q].version
        /\ \A r \in RunIds \ {s} : runs'[r] = runs[r]
    BY <2>1 DEF WellTyped, TypeOK, NewRun, NoRun
  <2>3. rq'[q].pc = "done" /\ \A p \in Requests \ {q} : rq'[p] = rq[p]
    BY <1>1, <1>8 DEF ReqCommit
  <2>4. rq[q].pc = "inserted"
    BY <1>8 DEF ReqCommit
  <2>5. \A r \in RunIds : runs[r].status \in Active => ~HasKey(runs[r], rq[q].node, rq[q].version)
    BY <2>4 DEF KeysUnique, PendingFree
  <2>6. \A p \in Requests \ {q} : rq[p].pc = "inserted" =>
          ~(rq[p].node = rq[q].node /\ rq[p].version = rq[q].version)
    BY <2>4 DEF KeysUnique, PendingUnique
  <2> QED
    BY <2>2, <2>3, <2>5, <2>6, OneNewActive
<1> QED
  BY <1>4, <1>5, <1>6, <1>7, <1>8 DEF RequestStep

LEMMA KeysUniqueWorker ==
  ASSUME WellTyped, KeysUnique, NEW w \in Workers, WorkerStep(w) \/ Crash(w)
  PROVE  KeysUnique'
<1> DEFINE r == wk[w].run
<1>1. CASE UNCHANGED <<runs, rq>>
  BY <1>1, NoNewActive
<1>2. CASE \E s \in RunIds : Claim(w, s)
  <2>1. PICK s \in RunIds : Claim(w, s)
    BY <1>2
  <2>2. runs[s].status \in Active /\ runs' = [runs EXCEPT ![s] = ClaimedRow(runs[s])] /\ rq' = rq
    BY <2>1 DEF Claim, Claimable, Active
  <2>3. \A t \in RunIds : runs'[t].status \in Active =>
          /\ runs[t].status \in Active
          /\ runs'[t].node = runs[t].node /\ runs'[t].version = runs[t].version
    BY <2>2, ClaimedRowType DEF WellTyped, TypeOK
  <2> QED
    BY <2>2, <2>3, NoNewActive
<1>3. ASSUME wk[w].pc = "closing"
      PROVE  /\ r \in RunIds
             /\ CompletedRow(w).status \in Active => runs[r].status \in Active
             /\ CompletedRow(w).node = runs[r].node /\ CompletedRow(w).version = runs[r].version
  <2>1. r \in RunIds
    BY <1>3 DEF WellTyped, WorkersScoped, Holding
  <2> QED
    BY <2>1, CompletedRowFacts DEF WellTyped, Active
<1>4. CASE CommitWork(w)
  <2>1. wk[w].pc = "closing" /\ runs' = [runs EXCEPT ![r] = CompletedRow(w)] /\ rq' = rq
    BY <1>4 DEF CommitWork
  <2>2. \A t \in RunIds : runs'[t].status \in Active =>
          /\ runs[t].status \in Active
          /\ runs'[t].node = runs[t].node /\ runs'[t].version = runs[t].version
    BY <1>3, <2>1 DEF WellTyped, TypeOK
  <2> QED
    BY <2>1, <2>2, NoNewActive
<1>5. CASE CommitWorkAndFollow(w)
  <2> DEFINE n == wk[w].seen.node
             v == wk[w].version
             new == NewRun(n, v, FollowPriority(wk[w].seen.priority), wk[w].follow)
  <2>1. PICK s \in RunIds : /\ runs[s].status = "absent"
                            /\ runs' = [runs EXCEPT ![r] = CompletedRow(w), ![s] = new]
    BY <1>5 DEF CommitWorkAndFollow
  <2>2. /\ wk[w].pc = "closing" /\ ActiveAfter(w, n, v) = {} /\ rq' = rq
        /\ \A q \in Requests : ~(rq[q].pc = "inserted" /\ rq[q].node = n /\ rq[q].version = v)
    BY <1>5 DEF CommitWorkAndFollow
  <2>3. new.node = n /\ new.version = v
    BY DEF NewRun, NoRun
  <2> HIDE DEF new
  <2>4. /\ runs'[s].node = n /\ runs'[s].version = v
        /\ \A t \in RunIds \ {s} : runs'[t] = IF t = r THEN CompletedRow(w) ELSE runs[t]
    BY <1>3, <2>1, <2>2, <2>3 DEF WellTyped, TypeOK
  <2>5. \A t \in RunIds \ {s} : runs'[t].status \in Active =>
          /\ runs[t].status \in Active
          /\ runs'[t].node = runs[t].node /\ runs'[t].version = runs[t].version
    BY <1>3, <2>2, <2>4
  <2>6. \A t \in RunIds \ {s} : runs'[t].status \in Active => ~HasKey(runs[t], n, v)
    BY <1>3, <2>2, <2>4 DEF ActiveAfter, ActiveWithKey
  <2> HIDE DEF n, v
  <2> QED
    BY <2>2, <2>4, <2>5, <2>6, OneNewActive
<1>6. CASE FailWrite(w)
  <2>1. r \in RunIds /\ rq' = rq
    BY <1>6 DEF FailWrite, WellTyped, WorkersScoped, Holding
  <2>2. CASE UNCHANGED runs
    BY <1>1, <2>1, <2>2
  <2>3. CASE /\ runs' = [runs EXCEPT ![r] = FailedRow(w)]
             /\ FailedRow(w).status \in Active =>
                  /\ ~KeyInDoubt(runs[r].node, runs[r].version)
                  /\ ActiveWithKey(runs[r].node, runs[r].version) \subseteq {r}
    <3>1. FailedRow(w).node = runs[r].node /\ FailedRow(w).version = runs[r].version
      BY <2>1, FailedRowFacts DEF WellTyped
    <3>2. /\ runs'[r] = FailedRow(w)
          /\ \A t \in RunIds \ {r} : runs'[t] = runs[t]
      BY <2>1, <2>3 DEF WellTyped, TypeOK
    <3>3. CASE FailedRow(w).status \notin Active
      BY <2>1, <3>2, <3>3, NoNewActive
    <3>4. CASE FailedRow(w).status \in Active
      <4>1. \A t \in RunIds \ {r} : runs[t].status \in Active =>
              ~HasKey(runs[t], runs[r].node, runs[r].version)
        BY <2>3, <3>4 DEF ActiveWithKey
      <4>2. \A q \in Requests : rq[q].pc = "inserted" =>
              ~(rq[q].node = runs[r].node /\ rq[q].version = runs[r].version)
        BY <2>3, <3>4 DEF KeyInDoubt
      <4> HIDE DEF r
      <4> QED
        BY <2>1, <3>1, <3>2, <4>1, <4>2, OneNewActive
    <3> QED
      BY <3>3, <3>4
  <2> QED
    BY <1>6, <2>2, <2>3 DEF FailWrite
<1> QED
  BY <1>1, <1>2, <1>4, <1>5, <1>6
     DEF WorkerStep, Crash, LoadRun, GenerationFails, WriteResult, FollowUpConflicts, FailLoad, Restart

LEMMA KeysUniqueStep == WellTyped /\ KeysUnique /\ [Next]_vars => KeysUnique'
<1> SUFFICES ASSUME WellTyped, KeysUnique, [Next]_vars PROVE KeysUnique'
  OBVIOUS
<1>1. CASE UNCHANGED <<runs, rq>>
  BY <1>1, NoNewActive
<1>2. CASE \E r \in RunIds : LeaseExpires(r)
  <2>1. PICK r \in RunIds : LeaseExpires(r)
    BY <1>2
  <2>2. rq' = rq /\ \A t \in RunIds : /\ runs'[t].status = runs[t].status
                                      /\ runs'[t].node = runs[t].node
                                      /\ runs'[t].version = runs[t].version
    BY <2>1 DEF LeaseExpires, WellTyped, TypeOK, Run
  <2> QED
    BY <2>2, NoNewActive
<1>3. CASE \E n \in Nodes : DeleteNode(n)
  <2>1. PICK n \in Nodes : DeleteNode(n)
    BY <1>3
  <2>2. rq' = rq /\ \A t \in RunIds : runs'[t] = runs[t] \/ runs'[t].status \notin Active
    BY <2>1 DEF DeleteNode, NoRun, Active
  <2> QED
    BY <2>2, NoNewActive
<1> QED
  BY <1>1, <1>2, <1>3, KeysUniqueRequest, KeysUniqueWorker DEF Next, Poll, EditPoints, vars

(* The dedupe key admits one active run, for any lease, any number of         *)
(* workers and requests: inserts, follow-ups and requeued runs included.    *)
THEOREM OneRunPerKey == Spec => []OneActiveRunPerKey
<1>1. WellTyped /\ KeysUnique /\ [Next]_vars => (WellTyped /\ KeysUnique)'
  BY WellTypedStep, KeysUniqueStep
<1>2. Init => WellTyped /\ KeysUnique
  BY WellTypedInit, KeysUniqueInit
<1>3. KeysUnique => OneActiveRunPerKey
  BY DEF KeysUnique
<1> QED
  BY <1>1, <1>2, <1>3, PTL DEF Spec

-----------------------------------------------------------------------------
(* The lease.  Everything that rests on LeaseCoversWork follows from one    *)
(* invariant, stated row by row: who holds the row, what its holder has     *)
(* seen of it, and what its attempts have cost.                             *)
Holds(w, r) == Holding(w) /\ wk[w].run = r

HeldOnce(r) == \A v, w \in Workers : Holds(v, r) /\ Holds(w, r) => v = w

HeldUnderLease(r) ==
  \A w \in Workers : Holds(w, r) =>
    /\ runs[r].status # "absent"
    /\ RowExists(r) =>
         /\ runs[r].status = "running" /\ runs[r].lease = "live"
         /\ wk[w].pc \in {"working", "closing", "recording"} => wk[w].seen = runs[r]

Budgeted(r) ==
  /\ runs[r].attempts <= MaxAttempts + crashes
  /\ runs[r].status = "queued" \/ (runs[r].status = "running" /\ \A w \in Workers : ~Holds(w, r))
       => runs[r].attempts < MaxAttempts + crashes

RowSafe(r) ==
  /\ HeldOnce(r) /\ HeldUnderLease(r) /\ Budgeted(r)
  /\ runs[r].status = "running" => runs[r].lease # "none"
  /\ runs[r].status = "deleted" => live # Nodes

LeaseSafe == LoopSurvives /\ \A r \in RunIds : RowSafe(r)

LEMMA LeaseSafeInit == Init => LeaseSafe
<1>1. MaxAttempts > 0 /\ MaxAttempts \in Nat
  BY ConstantTypes
<1> QED
  BY <1>1 DEF Init, LeaseSafe, LoopSurvives, RowSafe, HeldOnce, HeldUnderLease, Budgeted,
              Holds, Holding, RowExists, NoRun, IdleWorker

(* A step that leaves a row and its holders alone keeps it safe. *)
LEMMA RowUntouched ==
  ASSUME WellTyped, NEW r \in RunIds, RowSafe(r), runs'[r] = runs[r],
         live # Nodes => live' # Nodes,
         crashes' \in Nat, crashes' >= crashes,
         \A w \in Workers : Holds(w, r)' => Holds(w, r) /\ wk'[w] = wk[w],
         crashes' > crashes \/ \A w \in Workers : Holds(w, r) => Holds(w, r)'
  PROVE  RowSafe(r)'
<1>1. /\ runs[r].attempts \in Nat /\ crashes \in Nat /\ MaxAttempts \in Nat
  BY ConstantTypes DEF WellTyped, TypeOK, Run
<1>2. HeldOnce(r)' /\ HeldUnderLease(r)'
  BY DEF RowSafe, HeldOnce, HeldUnderLease, RowExists
<1>3. Budgeted(r)'
  BY <1>1 DEF RowSafe, Budgeted
<1> QED
  BY <1>2, <1>3 DEF RowSafe

LEMMA LeaseSafeRequest ==
  ASSUME WellTyped, LeaseSafe, NEW q \in Requests,
         RequestStep(q) \/ \E n \in Nodes : ReqLoad(q, n)
  PROVE  LeaseSafe'
<1>1. UNCHANGED <<live, wk, crashes>>
  BY DEF RequestStep, ReqLoad, ReqNoEnqueue, ReqWantsRefill, ReqNotEnqueued, ReqDedupe,
         ReqInsert, ReqCommit, ReqAbort
<1>2. crashes \in Nat /\ crashes >= crashes
  BY DEF WellTyped, TypeOK
<1>3. ASSUME NEW r \in RunIds, runs'[r] = runs[r]
      PROVE  RowSafe(r)'
  BY <1>1, <1>2, <1>3, RowUntouched DEF LeaseSafe, Holds, Holding
<1>4. LoopSurvives'
  BY <1>1 DEF LeaseSafe, LoopSurvives
<1>5. CASE UNCHANGED runs
  BY <1>3, <1>4, <1>5 DEF LeaseSafe
<1>6. CASE ReqCommit(q)
  <2>1. PICK s \in RunIds :
          /\ runs[s].status = "absent"
          /\ runs' = [runs EXCEPT ![s] = NewRun(rq[q].node, rq[q].version, 100,
                                                RequestedFor(rq[q].have))]
    BY <1>6 DEF ReqCommit
  <2>2. /\ runs'[s].status = "queued" /\ runs'[s].attempts = 0
        /\ \A r \in RunIds \ {s} : runs'[r] = runs[r]
    BY <2>1 DEF WellTyped, TypeOK, NewRun, NoRun
  <2>3. \A w \in Workers : ~Holds(w, s) /\ ~Holds(w, s)'
    BY <1>1, <2>1 DEF LeaseSafe, RowSafe, HeldUnderLease, Holds, Holding
  <2>4. 0 < MaxAttempts + crashes /\ 0 <= MaxAttempts + crashes
    BY <1>2, ConstantTypes
  <2>5. RowSafe(s)'
    BY <1>1, <2>2, <2>3, <2>4 DEF RowSafe, HeldOnce, HeldUnderLease, Budgeted
  <2> QED
    BY <1>3, <1>4, <2>2, <2>5 DEF LeaseSafe
<1> QED
  BY <1>5, <1>6 DEF RequestStep, ReqLoad, ReqNoEnqueue, ReqWantsRefill, ReqNotEnqueued, ReqDedupe, ReqInsert, ReqAbort

(* What a worker that holds a row knows. *)
LEMMA HolderKnows ==
  ASSUME WellTyped, LeaseSafe, NEW w \in Workers, Holding(w)
  PROVE  /\ wk[w].run \in RunIds
         /\ RowExists(wk[w].run) =>
              /\ runs[wk[w].run].status = "running" /\ runs[wk[w].run].lease = "live"
              /\ wk[w].pc \in {"working", "closing", "recording"} => wk[w].seen = runs[wk[w].run]
         /\ ~RowExists(wk[w].run) => runs[wk[w].run].status = "deleted"
         /\ \A v \in Workers \ {w} : ~Holds(v, wk[w].run)
         /\ runs[wk[w].run].attempts \in Nat
         /\ runs[wk[w].run].attempts <= MaxAttempts + crashes
<1>1. wk[w].run \in RunIds
  BY DEF WellTyped, WorkersScoped
<1>2. RowSafe(wk[w].run) /\ Holds(w, wk[w].run)
  BY <1>1 DEF LeaseSafe, Holds
<1> QED
  BY <1>1, <1>2 DEF RowSafe, HeldOnce, HeldUnderLease, Budgeted, RowExists, WellTyped, TypeOK, Run

(* Only the worker w and the row r it works on change. *)
LEMMA OneRowMoves ==
  ASSUME WellTyped, LeaseSafe, NEW w \in Workers, NEW r \in RunIds,
         UNCHANGED <<live, crashes>>,
         \A v \in Workers \ {w} : wk'[v] = wk[v],
         wk'[w].pc = "escaped" => live # Nodes,
         Holding(w) => wk[w].run = r, Holding(w)' => wk'[w].run = r,
         \A t \in RunIds \ {r} : runs'[t] = runs[t] \/ RowSafe(t)',
         RowSafe(r)'
  PROVE  LeaseSafe'
<1>1. LoopSurvives'
  BY DEF LeaseSafe, LoopSurvives
<1>2. crashes \in Nat /\ crashes >= crashes
  BY DEF WellTyped, TypeOK
<1>3. ASSUME NEW t \in RunIds \ {r}, runs'[t] = runs[t]
      PROVE  RowSafe(t)'
  <2>1. \A v \in Workers : Holds(v, t)' => Holds(v, t) /\ wk'[v] = wk[v]
    BY <1>3 DEF Holds, Holding
  <2>2. \A v \in Workers : Holds(v, t) => Holds(v, t)'
    BY <1>3 DEF Holds, Holding
  <2> QED
    BY <1>2, <1>3, <2>1, <2>2, RowUntouched DEF LeaseSafe
<1> QED
  BY <1>1, <1>3 DEF LeaseSafe

LEMMA LeaseSafeWorker ==
  ASSUME WellTyped, KeysUnique, LeaseSafe, NEW w \in Workers, WorkerStep(w)
  PROVE  LeaseSafe'
<1>1. \A x : wk' = [wk EXCEPT ![w] = x] => wk'[w] = x /\ \A v \in Workers \ {w} : wk'[v] = wk[v]
  BY DEF WellTyped, TypeOK
<1>2. wk[w] \in Worker /\ crashes \in Nat /\ MaxAttempts \in Nat
  BY ConstantTypes DEF WellTyped, TypeOK
<1> DEFINE r == wk[w].run
<1>3. CASE \E s \in RunIds : Claim(w, s)
  <2>1. PICK s \in RunIds : Claim(w, s)
    BY <1>3
  <2>2. runs[s] \in Run /\ RowExists(s) /\ RowSafe(s)
    BY <2>1 DEF WellTyped, TypeOK, Claim, Claimable, RowExists, LeaseSafe
  <2>3. \A v \in Workers : ~Holds(v, s)
    BY <2>1, <2>2 DEF Claim, Claimable, RowSafe, HeldUnderLease
  <2>4. runs[s].attempts < MaxAttempts + crashes
    BY <2>1, <2>2, <2>3 DEF Claim, Claimable, RowSafe, Budgeted
  <2>5. /\ runs'[s] = ClaimedRow(runs[s]) /\ \A t \in RunIds \ {s} : runs'[t] = runs[t]
        /\ wk'[w] = [IdleWorker EXCEPT !.pc = "claimed", !.run = s]
        /\ \A v \in Workers \ {w} : wk'[v] = wk[v]
        /\ wk[w].pc = "idle" /\ UNCHANGED <<live, crashes>>
    BY <1>1, <2>1 DEF Claim, WellTyped, TypeOK
  <2>6. wk'[w].pc = "claimed" /\ wk'[w].run = s
    BY <2>5 DEF IdleWorker
  <2>7. /\ runs'[s].status = "running" /\ runs'[s].lease = "live"
        /\ runs'[s].attempts = runs[s].attempts + 1 /\ runs[s].attempts \in Nat
    BY <2>2, <2>5, ClaimedRowType DEF Run
  <2>8. \A v \in Workers : Holds(v, s)' <=> v = w
    BY <2>3, <2>5, <2>6 DEF Holds, Holding
  <2>9. HeldOnce(s)'
    BY <2>8 DEF HeldOnce
  <2>10. HeldUnderLease(s)'
    BY <2>6, <2>7, <2>8 DEF HeldUnderLease
  <2>11. Budgeted(s)'
    BY <1>2, <2>4, <2>5, <2>7, <2>8 DEF Budgeted
  <2>12. RowSafe(s)'
    BY <2>7, <2>9, <2>10, <2>11 DEF RowSafe
  <2>13. ~Holding(w) /\ wk'[w].pc # "escaped"
    BY <2>5, <2>6 DEF Holding
  <2> QED
    BY <2>5, <2>6, <2>12, <2>13, OneRowMoves
<1>4. ASSUME Holding(w), Holding(w)', wk'[w].run = r, UNCHANGED <<live, runs, crashes>>,
             \A v \in Workers \ {w} : wk'[v] = wk[v],
             RowExists(r) /\ wk'[w].pc \in {"working", "closing", "recording"} => wk'[w].seen = runs[r]
      PROVE  LeaseSafe'
  <2>1. PICK s \in RunIds : s = wk[w].run
    BY <1>4, HolderKnows
  <2>2. \A v \in Workers : Holds(v, s)' <=> Holds(v, s)
    BY <1>4, <2>1 DEF Holds, Holding
  <2>3. RowSafe(s) /\ Holds(w, s)
    BY <1>4, <2>1 DEF LeaseSafe, Holds
  <2>4. HeldOnce(s)' /\ Budgeted(s)'
    BY <1>4, <2>2, <2>3 DEF RowSafe, HeldOnce, Budgeted
  <2>5. HeldUnderLease(s)'
    BY <1>4, <2>1, <2>2, <2>3 DEF RowSafe, HeldOnce, HeldUnderLease, RowExists
  <2>6. RowSafe(s)'
    BY <1>4, <2>3, <2>4, <2>5 DEF RowSafe
  <2>7. wk'[w].pc # "escaped" /\ wk[w].run = s /\ wk'[w].run = s
    BY <1>4, <2>1 DEF Holding
  <2> HIDE DEF r
  <2> QED
    BY <1>4, <2>6, <2>7, OneRowMoves
<1>5. CASE LoadRun(w)
  <2>1. CASE wk' = [wk EXCEPT ![w] = [wk[w] EXCEPT !.pc = "working", !.seen = runs[r]]]
    BY <1>1, <1>2, <1>4, <1>5, <2>1 DEF LoadRun, Holding, Worker
  <2>2. CASE wk' = [wk EXCEPT ![w] = [wk[w] EXCEPT !.pc = "failing"]]
    BY <1>1, <1>2, <1>4, <1>5, <2>2 DEF LoadRun, Holding, Worker
  <2> QED
    BY <1>5, <2>1, <2>2 DEF LoadRun
<1>6. CASE GenerationFails(w)
  <2>1. wk'[w] = [wk[w] EXCEPT !.pc = "failing"] /\ \A v \in Workers \ {w} : wk'[v] = wk[v]
    BY <1>1, <1>6 DEF GenerationFails
  <2>2. wk'[w].pc = "failing" /\ wk'[w].run = r
    BY <1>2, <2>1 DEF Worker
  <2> QED
    BY <1>4, <1>6, <2>1, <2>2 DEF GenerationFails, Holding
<1>7. CASE \E k \in MinPublishable .. MaxItems : WriteResult(w, k)
  <2>1. PICK k \in MinPublishable .. MaxItems : WriteResult(w, k)
    BY <1>7
  <2> DEFINE n == wk[w].seen.node
             v == FollowUpVersion(w, n, k)
             f == RequestedFor(Eligible(pool[n]) + k)
             x == [wk[w] EXCEPT !.pc = "closing", !.batch = k, !.version = v, !.follow = f]
  <2>a. wk' = [wk EXCEPT ![w] = x]
    BY <2>1 DEF WriteResult
  <2> HIDE DEF v, f
  <2>b. x.pc = "closing" /\ x.run = r /\ x.seen = wk[w].seen
    BY <1>2 DEF Worker
  <2> HIDE DEF x
  <2>2. wk'[w].pc = "closing" /\ wk'[w].run = r /\ wk'[w].seen = wk[w].seen
    BY <1>1, <2>a, <2>b
  <2>3. \A u \in Workers \ {w} : wk'[u] = wk[u]
    BY <1>1, <2>1 DEF WriteResult
  <2> QED
    BY <1>4, <2>1, <2>2, <2>3, HolderKnows DEF WriteResult, Holding
<1>8. CASE FollowUpConflicts(w)
  <2>1. wk'[w].pc = "failing" /\ wk'[w].run = r /\ \A v \in Workers \ {w} : wk'[v] = wk[v]
    BY <1>1, <1>8 DEF FollowUpConflicts, IdleWorker
  <2> QED
    BY <1>4, <1>8, <2>1 DEF FollowUpConflicts, Holding
<1>9. ASSUME Holding(w), ~Holding(w)', UNCHANGED <<live, crashes>>,
             wk'[w].pc = "escaped" => live # Nodes,
             \A v \in Workers \ {w} : wk'[v] = wk[v],
             runs'[r].status \in {"completed", "failed", "deleted", "queued"},
             runs'[r].status = "queued" => runs[r].attempts < MaxAttempts,
             runs'[r].status = "deleted" => runs[r].status = "deleted",
             runs'[r].attempts = runs[r].attempts,
             \A t \in RunIds \ {r} : runs'[t] = runs[t] \/ RowSafe(t)'
      PROVE  LeaseSafe'
  <2>1. PICK s \in RunIds : s = wk[w].run
    BY <1>9, HolderKnows
  <2>2. /\ RowSafe(s) /\ runs[s].attempts \in Nat
        /\ runs[s].attempts <= MaxAttempts + crashes
        /\ \A v \in Workers \ {w} : ~Holds(v, s)
    BY <1>9, <2>1, HolderKnows DEF LeaseSafe
  <2>3. \A v \in Workers : ~Holds(v, s)'
    BY <1>9, <2>2 DEF Holds, Holding
  <2>4. HeldOnce(s)' /\ HeldUnderLease(s)'
    BY <2>3 DEF HeldOnce, HeldUnderLease
  <2>5. /\ runs'[s].status \in {"completed", "failed", "deleted", "queued"}
        /\ runs'[s].status = "queued" => runs[s].attempts < MaxAttempts
        /\ runs'[s].status = "deleted" => runs[s].status = "deleted"
        /\ runs'[s].attempts = runs[s].attempts
        /\ \A t \in RunIds \ {s} : runs'[t] = runs[t] \/ RowSafe(t)'
    BY <1>9, <2>1
  <2>6. Budgeted(s)'
    <3>1. runs'[s].attempts <= MaxAttempts + crashes'
      BY <1>9, <2>2, <2>5
    <3>2. runs'[s].status = "queued" => runs'[s].attempts < MaxAttempts + crashes'
      BY <1>2, <1>9, <2>2, <2>5
    <3>3. runs'[s].status # "running"
      BY <2>5
    <3> QED
      BY <3>1, <3>2, <3>3 DEF Budgeted
  <2>7. RowSafe(s)'
    BY <1>9, <2>2, <2>4, <2>5, <2>6 DEF RowSafe
  <2> HIDE DEF r
  <2> QED
    BY <1>9, <2>1, <2>5, <2>7, OneRowMoves
<1>10. ASSUME wk[w].pc = "closing"
       PROVE  /\ r \in RunIds /\ RowExists(r)
              /\ CompletedRow(w).status = "completed" /\ CompletedRow(w).attempts = runs[r].attempts
  <2>1. r \in RunIds /\ RowExists(r)
    BY <1>10 DEF WellTyped, WorkersScoped, Holding
  <2>2. wk[w].seen = runs[r] /\ runs[r].status = "running"
    BY <1>10, <2>1, HolderKnows DEF Holding
  <2> QED
    BY <2>1, <2>2, CompletedRowFacts DEF WellTyped
<1>11. CASE CommitWork(w)
  <2>1. /\ wk[w].pc = "closing" /\ UNCHANGED <<live, crashes>>
        /\ runs' = [runs EXCEPT ![r] = CompletedRow(w)]
        /\ wk'[w] = IdleWorker /\ \A v \in Workers \ {w} : wk'[v] = wk[v]
    BY <1>1, <1>11 DEF CommitWork
  <2>2. runs'[r] = CompletedRow(w) /\ \A t \in RunIds \ {r} : runs'[t] = runs[t]
    BY <1>10, <2>1 DEF WellTyped, TypeOK
  <2> QED
    BY <1>9, <1>10, <2>1, <2>2 DEF Holding, IdleWorker
<1>12. CASE CommitWorkAndFollow(w)
  <2> DEFINE new == NewRun(wk[w].seen.node, wk[w].version,
                           FollowPriority(wk[w].seen.priority), wk[w].follow)
  <2>1. PICK s \in RunIds : /\ runs[s].status = "absent"
                            /\ runs' = [runs EXCEPT ![r] = CompletedRow(w), ![s] = new]
    BY <1>12 DEF CommitWorkAndFollow
  <2>2. /\ wk[w].pc = "closing" /\ UNCHANGED <<live, crashes>>
        /\ wk'[w] = IdleWorker /\ \A v \in Workers \ {w} : wk'[v] = wk[v]
    BY <1>1, <1>12 DEF CommitWorkAndFollow
  <2>3. new.status = "queued" /\ new.attempts = 0
    BY DEF NewRun, NoRun
  <2> HIDE DEF new
  <2>4. r # s
    BY <1>10, <2>1, <2>2 DEF RowExists
  <2>5. /\ runs'[r] = CompletedRow(w) /\ runs'[s] = new
        /\ \A t \in RunIds \ {r, s} : runs'[t] = runs[t]
    BY <1>10, <2>1, <2>2, <2>4 DEF WellTyped, TypeOK
  <2>6. \A v \in Workers : ~Holds(v, s)
    BY <2>1 DEF LeaseSafe, RowSafe, HeldUnderLease
  <2>7. \A v \in Workers : ~Holds(v, s)'
    BY <2>2, <2>6 DEF Holds, Holding, IdleWorker
  <2>8. 0 < MaxAttempts + crashes /\ 0 <= MaxAttempts + crashes
    BY <1>2, ConstantTypes
  <2>9. RowSafe(s)'
    BY <2>2, <2>3, <2>5, <2>7, <2>8 DEF RowSafe, HeldOnce, HeldUnderLease, Budgeted
  <2> QED
    BY <1>9, <1>10, <2>2, <2>5, <2>9 DEF Holding, IdleWorker
<1>13. CASE FailLoad(w)
  <2>1. CASE RowExists(r)
    <3>1. /\ wk'[w] = [IdleWorker EXCEPT !.pc = "recording", !.run = r, !.seen = runs[r]]
          /\ \A v \in Workers \ {w} : wk'[v] = wk[v]
      BY <1>1, <1>13, <2>1 DEF FailLoad
    <3>2. wk'[w].pc = "recording" /\ wk'[w].run = r /\ wk'[w].seen = runs[r]
      BY <3>1 DEF IdleWorker
    <3> QED
      BY <1>4, <1>13, <3>1, <3>2 DEF FailLoad, Holding
  <2>2. CASE ~RowExists(r)
    <3>1. wk'[w] = IdleWorker /\ \A v \in Workers \ {w} : wk'[v] = wk[v]
      BY <1>1, <1>13, <2>2 DEF FailLoad
    <3>2. Holding(w) /\ wk'[w].pc = "idle" /\ UNCHANGED <<live, runs, crashes>>
      BY <1>13, <3>1 DEF FailLoad, Holding, IdleWorker
    <3>3. runs[r].status = "deleted"
      BY <2>2, <3>2, HolderKnows
    <3> QED
      BY <1>9, <3>1, <3>2, <3>3 DEF Holding
  <2> QED
    BY <2>1, <2>2
<1>14. CASE FailWrite(w)
  <2>1. Holding(w) /\ r \in RunIds /\ UNCHANGED <<live, crashes>> /\ wk[w].pc = "recording"
    BY <1>14, HolderKnows DEF FailWrite, Holding
  <2>2. CASE RowExists(r)
    <3>1. wk[w].seen = runs[r] /\ runs[r].status = "running"
      BY <2>1, <2>2, HolderKnows
    <3>2. ActiveWithKey(runs[r].node, runs[r].version) \subseteq {r}
      BY <2>1, <3>1 DEF KeysUnique, OneActiveRunPerKey, ActiveWithKey, HasKey, Active
    <3>3. /\ runs' = [runs EXCEPT ![r] = FailedRow(w)]
          /\ wk'[w] = IdleWorker /\ \A v \in Workers \ {w} : wk'[v] = wk[v]
      BY <1>1, <1>14, <2>2, <3>2 DEF FailWrite
    <3>4. runs'[r] = FailedRow(w) /\ \A t \in RunIds \ {r} : runs'[t] = runs[t]
      BY <2>1, <3>3 DEF WellTyped, TypeOK
    <3>5. /\ FailedRow(w).status \in {"queued", "failed"}
          /\ FailedRow(w).status = "queued" => runs[r].attempts < MaxAttempts
          /\ FailedRow(w).attempts = runs[r].attempts
      BY <2>1, <3>1, FailedRowFacts DEF WellTyped
    <3> QED
      BY <1>9, <2>1, <3>3, <3>4, <3>5 DEF Holding, IdleWorker
  <2>3. CASE ~RowExists(r)
    <3>1. /\ wk'[w] = [IdleWorker EXCEPT !.pc = "escaped"] /\ UNCHANGED runs
          /\ \A v \in Workers \ {w} : wk'[v] = wk[v]
      BY <1>1, <1>14, <2>3 DEF FailWrite
    <3>2. runs[r].status = "deleted" /\ live # Nodes
      BY <2>1, <2>3, HolderKnows DEF LeaseSafe, RowSafe
    <3>3. ~Holding(w)'
      BY <3>1 DEF Holding, IdleWorker
    <3> QED
      BY <1>9, <2>1, <3>1, <3>2, <3>3
  <2> QED
    BY <2>2, <2>3
<1>15. CASE Restart(w)
  <2>1. /\ wk'[w] = IdleWorker /\ \A v \in Workers \ {w} : wk'[v] = wk[v]
        /\ UNCHANGED <<live, runs, crashes>> /\ ~Holding(w)
    BY <1>1, <1>15 DEF Restart, Holding
  <2>2. ~Holding(w)' /\ wk'[w].pc = "idle"
    BY <2>1 DEF Holding, IdleWorker
  <2>3. LoopSurvives'
    BY <2>1, <2>2 DEF LeaseSafe, LoopSurvives
  <2>4. \A t \in RunIds : RowSafe(t)'
    BY <1>2, <2>1, <2>2, RowUntouched DEF LeaseSafe, Holds, Holding
  <2> QED
    BY <2>3, <2>4 DEF LeaseSafe
<1> QED
  BY <1>3, <1>5, <1>6, <1>7, <1>8, <1>11, <1>12, <1>13, <1>14, <1>15 DEF WorkerStep

LEMMA LeaseSafeCrash ==
  ASSUME WellTyped, LeaseSafe, NEW w \in Workers, Crash(w)
  PROVE  LeaseSafe'
<1>1. /\ wk'[w] = [IdleWorker EXCEPT !.pc = "crashed"]
      /\ \A v \in Workers \ {w} : wk'[v] = wk[v]
      /\ UNCHANGED <<live, runs>> /\ crashes' = crashes + 1 /\ crashes \in Nat
  BY DEF Crash, WellTyped, TypeOK
<1>2. wk'[w].pc = "crashed" /\ ~Holding(w)'
  BY <1>1 DEF IdleWorker, Holding
<1>3. LoopSurvives'
  BY <1>1, <1>2 DEF LeaseSafe, LoopSurvives
<1>4. ASSUME NEW r \in RunIds
      PROVE  RowSafe(r)'
  <2>1. \A v \in Workers : Holds(v, r)' => Holds(v, r) /\ wk'[v] = wk[v]
    BY <1>1, <1>2 DEF Holds, Holding
  <2>2. crashes' \in Nat /\ crashes' >= crashes /\ crashes' > crashes
    BY <1>1
  <2> QED
    BY <1>1, <2>1, <2>2, RowUntouched DEF LeaseSafe
<1> QED
  BY <1>3, <1>4 DEF LeaseSafe

LEMMA LeaseSafeEnvironment ==
  ASSUME LeaseCoversWork, WellTyped, LeaseSafe,
         \/ \E r \in RunIds : LeaseExpires(r)
         \/ \E n \in Nodes : DeleteNode(n)
  PROVE  LeaseSafe'
<1>1. CASE \E r \in RunIds : LeaseExpires(r)
  <2>1. PICK r \in RunIds : LeaseExpires(r)
    BY <1>1
  <2>2. /\ runs'[r].status = runs[r].status /\ runs'[r].attempts = runs[r].attempts
        /\ runs'[r].lease = "expired" /\ runs[r].status = "running"
        /\ \A t \in RunIds \ {r} : runs'[t] = runs[t]
        /\ UNCHANGED <<live, wk, crashes>>
    BY <2>1 DEF LeaseExpires, WellTyped, TypeOK, Run
  <2>3. \A w \in Workers : ~Holds(w, r) /\ ~Holds(w, r)'
    BY <2>1, <2>2 DEF LeaseExpires, Holds, Holding
  <2>4. RowSafe(r)'
    BY <2>2, <2>3 DEF LeaseSafe, RowSafe, HeldOnce, HeldUnderLease, Budgeted
  <2>5. \A t \in RunIds \ {r} : RowSafe(t)'
    BY <2>2, RowUntouched DEF LeaseSafe, Holds, Holding, WellTyped, TypeOK
  <2>6. LoopSurvives'
    BY <2>2 DEF LeaseSafe, LoopSurvives
  <2> QED
    BY <2>4, <2>5, <2>6 DEF LeaseSafe
<1>2. CASE \E n \in Nodes : DeleteNode(n)
  <2>1. PICK n \in Nodes : DeleteNode(n)
    BY <1>2
  <2>2. /\ live' # Nodes /\ UNCHANGED <<wk, crashes>> /\ crashes \in Nat /\ MaxAttempts \in Nat
        /\ \A r \in RunIds : IF runs[r].node = n
                              THEN runs'[r].status = "deleted" /\ runs'[r].attempts = 0
                              ELSE runs'[r] = runs[r]
    BY <2>1, ConstantTypes DEF DeleteNode, NoRun, WellTyped, TypeOK
  <2>3. \A w \in Workers, r \in RunIds : Holds(w, r)' <=> Holds(w, r)
    BY <2>2 DEF Holds, Holding
  <2>4. ASSUME NEW r \in RunIds, runs[r].node = n
        PROVE  RowSafe(r)'
    BY <2>2, <2>3, <2>4
       DEF LeaseSafe, RowSafe, HeldOnce, HeldUnderLease, Budgeted, RowExists
  <2>5. ASSUME NEW r \in RunIds, runs[r].node # n
        PROVE  RowSafe(r)'
    <3>1. runs'[r] = runs[r]
      BY <2>2, <2>5
    <3>2. \A w \in Workers : /\ Holds(w, r)' => Holds(w, r) /\ wk'[w] = wk[w]
                             /\ Holds(w, r) => Holds(w, r)'
      BY <2>2 DEF Holds, Holding
    <3> QED
      BY <2>2, <3>1, <3>2, RowUntouched DEF LeaseSafe
  <2>6. LoopSurvives'
    BY <2>2 DEF LoopSurvives
  <2> QED
    BY <2>4, <2>5, <2>6 DEF LeaseSafe
<1> QED
  BY <1>1, <1>2

Safe == WellTyped /\ KeysUnique /\ LeaseSafe

LEMMA SafeStep == ASSUME LeaseCoversWork PROVE Safe /\ [Next]_vars => Safe'
<1> SUFFICES ASSUME Safe, [Next]_vars PROVE Safe'
  OBVIOUS
<1>1. WellTyped' /\ KeysUnique'
  BY WellTypedStep, KeysUniqueStep DEF Safe
<1>2. CASE UNCHANGED <<live, runs, wk, crashes>>
  <2>1. crashes' \in Nat /\ crashes' >= crashes
    BY <1>2 DEF Safe, WellTyped, TypeOK
  <2>2. ASSUME NEW r \in RunIds
        PROVE  RowSafe(r)'
    <3>1. \A w \in Workers : /\ Holds(w, r)' => Holds(w, r) /\ wk'[w] = wk[w]
                             /\ Holds(w, r) => Holds(w, r)'
      BY <1>2 DEF Holds, Holding
    <3> QED
      BY <1>2, <2>1, <3>1, RowUntouched DEF Safe, LeaseSafe
  <2> QED
    BY <1>1, <1>2, <2>2 DEF Safe, LeaseSafe, LoopSurvives
<1>3. CASE (\E r \in RunIds : LeaseExpires(r)) \/ (\E n \in Nodes : DeleteNode(n))
  BY <1>1, <1>3, LeaseSafeEnvironment DEF Safe
<1>4. CASE \E w \in Workers : WorkerStep(w) \/ Crash(w)
  BY <1>1, <1>4, LeaseSafeWorker, LeaseSafeCrash DEF Safe
<1>5. CASE \E q \in Requests : RequestStep(q) \/ \E n \in Nodes : ReqLoad(q, n)
  BY <1>1, <1>5, LeaseSafeRequest DEF Safe
<1> QED
  BY <1>2, <1>3, <1>4, <1>5 DEF Next, Poll, EditPoints, vars

LEMMA AlwaysSafe == ASSUME LeaseCoversWork PROVE Spec => []Safe
<1>1. Init => Safe
  BY WellTypedInit, KeysUniqueInit, LeaseSafeInit DEF Safe
<1> QED
  BY <1>1, SafeStep, PTL DEF Spec

(* Mutual exclusion of the lease: claim_next_exercise_run hands a run to one  *)
(* worker at a time, and its row stays running under a live lease until the *)
(* worker has written its outcome, died, or lost the unit.                  *)
THEOREM MutualExclusion == ASSUME LeaseCoversWork PROVE Spec => []ExclusiveClaim
<1>1. Safe => ExclusiveClaim
  <2> SUFFICES ASSUME Safe PROVE ExclusiveClaim
    OBVIOUS
  <2>1. ASSUME NEW v \in Workers, NEW w \in Workers, Holding(v), Holding(w), wk[v].run = wk[w].run
        PROVE  v = w
    BY <2>1, HolderKnows DEF Safe, Holds
  <2>2. ASSUME NEW w \in Workers, Holding(w), RowExists(wk[w].run)
        PROVE  runs[wk[w].run].status = "running" /\ runs[wk[w].run].lease = "live"
    BY <2>2, HolderKnows DEF Safe
  <2> QED
    BY <2>1, <2>2 DEF ExclusiveClaim
<1> QED
  BY <1>1, AlwaysSafe, PTL

(* A running run carries a lease, so the loss of its worker never strands it. *)
THEOREM NoStrandedRun == ASSUME LeaseCoversWork PROVE Spec => []RunningHasLease
<1>1. Safe => RunningHasLease
  BY DEF Safe, LeaseSafe, RowSafe, RunningHasLease
<1> QED
  BY <1>1, AlwaysSafe, PTL

(* Retries are finite: beyond max_attempts, every further attempt of any run  *)
(* is accounted for by the death of a worker process.                       *)
THEOREM RetriesBounded == ASSUME LeaseCoversWork PROVE Spec => []AttemptsPaidFor
<1>1. Safe => AttemptsPaidFor
  BY DEF Safe, LeaseSafe, RowSafe, Budgeted, AttemptsPaidFor
<1> QED
  BY <1>1, AlwaysSafe, PTL

(* Only the death of a worker takes a run past max_attempts: where no worker  *)
(* dies the finite retries that the design document promises are finite, so   *)
(* a run that kills its worker is the one cause of the violated               *)
(* AttemptsBounded.                                                           *)
THEOREM BoundedUnlessKilled ==
  ASSUME LeaseCoversWork PROVE Spec /\ [](crashes = 0) => []AttemptsBounded
<1>1. Safe /\ crashes = 0 => AttemptsBounded
  <2> SUFFICES ASSUME Safe, crashes = 0, NEW r \in RunIds PROVE runs[r].attempts <= MaxAttempts
    BY DEF AttemptsBounded
  <2>1. runs[r].attempts <= MaxAttempts + 0
    BY DEF Safe, LeaseSafe, RowSafe, Budgeted
  <2> QED BY <2>1, ConstantsAssumption
<1> QED
  BY <1>1, AlwaysSafe, PTL

(* The worker's loop survives every failure but the deletion of a unit:       *)
(* requeueing a run cannot meet the unique index.                           *)
THEOREM WorkerLoopSurvives == ASSUME LeaseCoversWork PROVE Spec => []LoopSurvives
<1>1. Safe => LoopSurvives
  BY DEF Safe, LeaseSafe
<1> QED
  BY <1>1, AlwaysSafe, PTL

-----------------------------------------------------------------------------
(* What a step may do to the table of runs and to the pool.  Every case is  *)
(* a step, or a stutter, of the abstract queue.                             *)
RunsInserted ==
  \E s \in RunIds :
    /\ runs[s].status = "absent"
    /\ runs'[s].status = "queued" /\ runs'[s].node \in Nodes
    /\ \A r \in RunIds \ {s} : runs'[r] = runs[r]
    /\ UNCHANGED pool

SameJobs ==
  /\ UNCHANGED pool
  /\ \A r \in RunIds :
       \/ runs'[r] = runs[r]
       \/ runs[r].status \in Active /\ runs'[r].status \in Active /\ runs'[r].node = runs[r].node

RunAbandoned ==
  \E r \in RunIds :
    /\ runs[r].status \in Active /\ runs'[r].status = "failed" /\ runs'[r].node = runs[r].node
    /\ \A t \in RunIds \ {r} : runs'[t] = runs[t]
    /\ UNCHANGED pool

RunDelivered(r, k) ==
  LET n == runs[r].node
  IN  /\ n \in Nodes
      /\ runs[r].status \in Active /\ runs'[r].status = "completed" /\ runs'[r].node = n
      /\ runs'[r].accepted = k
      /\ pool' = [pool EXCEPT ![n] = WithBatch(pool[n], k)]
      /\ \/ \A t \in RunIds \ {r} : runs'[t] = runs[t]
         \/ \E s \in RunIds \ {r} :
              /\ runs[s].status = "absent"
              /\ runs'[s].status = "queued" /\ runs'[s].node = n
              /\ \A t \in RunIds \ {r, s} : runs'[t] = runs[t]

RunsRemoved ==
  \E n \in Nodes :
    /\ n \notin live'
    /\ \A r \in RunIds : runs'[r] = IF runs[r].node = n THEN [NoRun EXCEPT !.status = "deleted"]
                                   ELSE runs[r]
    /\ pool' = [pool EXCEPT ![n] = [curated |-> 0, legacy |-> 0, current |-> 0]]

(* Which steps write the table of runs or the pool. *)
LEMMA RequestWrites ==
  ASSUME NEW q \in Requests, RequestStep(q) \/ \E n \in Nodes : ReqLoad(q, n)
  PROVE  UNCHANGED <<runs, pool>> \/ ReqCommit(q)
<1>1. CASE \E n \in Nodes : ReqLoad(q, n)
  BY <1>1 DEF ReqLoad
<1>2. CASE ReqNoEnqueue(q) \/ ReqWantsRefill(q)
  BY <1>2 DEF ReqNoEnqueue, ReqWantsRefill
<1>3. CASE ReqNotEnqueued(q) \/ ReqAbort(q)
  BY <1>3 DEF ReqNotEnqueued, ReqAbort
<1>4. CASE ReqDedupe(q)
  BY <1>4 DEF ReqDedupe
<1>5. CASE ReqInsert(q)
  BY <1>5 DEF ReqInsert
<1> QED
  BY <1>1, <1>2, <1>3, <1>4, <1>5 DEF RequestStep

LEMMA WorkerWrites ==
  ASSUME NEW w \in Workers, WorkerStep(w) \/ Poll(w) \/ Crash(w)
  PROVE  \/ UNCHANGED <<runs, pool>>
         \/ \E r \in RunIds : Claim(w, r)
         \/ CommitWork(w) \/ CommitWorkAndFollow(w) \/ FailWrite(w)
<1>1. CASE LoadRun(w) \/ GenerationFails(w)
  BY <1>1 DEF LoadRun, GenerationFails
<1>2. CASE \E k \in MinPublishable .. MaxItems : WriteResult(w, k)
  BY <1>2 DEF WriteResult
<1>3. CASE FollowUpConflicts(w)
  BY <1>3 DEF FollowUpConflicts
<1>4. CASE FailLoad(w)
  BY <1>4 DEF FailLoad
<1>5. CASE Restart(w) \/ Crash(w) \/ Poll(w)
  BY <1>5 DEF Restart, Crash, Poll, vars
<1> QED
  BY <1>1, <1>2, <1>3, <1>4, <1>5 DEF WorkerStep

LEMMA CommittingWorker ==
  ASSUME Safe, NEW w \in Workers, wk[w].pc = "closing"
  PROVE  LET r == wk[w].run
         IN  /\ r \in RunIds /\ wk[w].seen.node = runs[r].node /\ runs[r].node \in Nodes
             /\ wk[w].batch \in MinPublishable .. MaxItems
             /\ runs[r].status = "running"
             /\ CompletedRow(w).status = "completed" /\ CompletedRow(w).node = runs[r].node
             /\ CompletedRow(w).accepted = wk[w].batch
<1> DEFINE r == wk[w].run
<1>1. /\ r \in RunIds /\ RowExists(r) /\ wk[w].seen.node \in Nodes
      /\ wk[w].seen.node = runs[r].node /\ wk[w].batch \in MinPublishable .. MaxItems
  BY DEF Safe, WellTyped, WorkersScoped, Holding
<1>2. wk[w].seen = runs[r] /\ runs[r].status = "running"
  BY <1>1, HolderKnows DEF Safe, Holding
<1> QED
  BY <1>1, <1>2, CompletedRowFacts DEF Safe, WellTyped

LEMMA StepOnRuns ==
  ASSUME Safe, [Next]_vars
  PROVE  \/ SameJobs \/ RunsInserted \/ RunAbandoned \/ RunsRemoved
         \/ \E r \in RunIds, k \in MinPublishable .. MaxItems : RunDelivered(r, k)
<1>1. CASE UNCHANGED <<runs, pool>>
  BY <1>1 DEF SameJobs
<1>2. ASSUME NEW q \in Requests, ReqCommit(q)
      PROVE  RunsInserted
  <2>1. PICK s \in RunIds :
          /\ runs[s].status = "absent"
          /\ runs' = [runs EXCEPT ![s] = NewRun(rq[q].node, rq[q].version, 100,
                                                RequestedFor(rq[q].have))]
    BY <1>2 DEF ReqCommit
  <2>2. rq[q].node \in Nodes
    BY <1>2 DEF ReqCommit, Safe, WellTyped, RequestsScoped
  <2>3. /\ runs'[s].status = "queued" /\ runs'[s].node = rq[q].node
        /\ \A r \in RunIds \ {s} : runs'[r] = runs[r]
    BY <2>1 DEF NewRun, NoRun, Safe, WellTyped, TypeOK
  <2> QED
    BY <1>2, <2>1, <2>2, <2>3 DEF RunsInserted, ReqCommit
<1>3. ASSUME NEW w \in Workers, NEW r \in RunIds, Claim(w, r)
      PROVE  SameJobs
  <2>1. /\ runs[r].status \in Active /\ runs'[r].status \in Active
        /\ runs'[r].node = runs[r].node /\ \A t \in RunIds \ {r} : runs'[t] = runs[t]
    BY <1>3, ClaimedRowType DEF Claim, Claimable, Active, Safe, WellTyped, TypeOK
  <2> QED
    BY <1>3, <2>1 DEF Claim, SameJobs
<1>4. ASSUME NEW w \in Workers, CommitWork(w)
      PROVE  \E r \in RunIds, k \in MinPublishable .. MaxItems : RunDelivered(r, k)
  <2>1. wk[w].pc = "closing"
    BY <1>4 DEF CommitWork
  <2>2. PICK r \in RunIds : r = wk[w].run
    BY <2>1, CommittingWorker
  <2>3. runs'[r] = CompletedRow(w) /\ \A t \in RunIds \ {r} : runs'[t] = runs[t]
    BY <1>4, <2>2 DEF CommitWork, Safe, WellTyped, TypeOK
  <2>4. pool' = [pool EXCEPT ![runs[r].node] = WithBatch(pool[runs[r].node], wk[w].batch)]
    BY <1>4, <2>1, <2>2, CommittingWorker DEF CommitWork
  <2>5. RunDelivered(r, wk[w].batch)
    BY <2>1, <2>2, <2>3, <2>4, CommittingWorker DEF RunDelivered, Active
  <2> QED
    BY <2>1, <2>5, CommittingWorker
<1>5. ASSUME NEW w \in Workers, CommitWorkAndFollow(w)
      PROVE  \E r \in RunIds, k \in MinPublishable .. MaxItems : RunDelivered(r, k)
  <2>1. wk[w].pc = "closing"
    BY <1>5 DEF CommitWorkAndFollow
  <2>2. PICK r \in RunIds : r = wk[w].run
    BY <2>1, CommittingWorker
  <2> DEFINE new == NewRun(wk[w].seen.node, wk[w].version,
                           FollowPriority(wk[w].seen.priority), wk[w].follow)
  <2>3. PICK s \in RunIds : /\ runs[s].status = "absent"
                            /\ runs' = [runs EXCEPT ![r] = CompletedRow(w), ![s] = new]
    BY <1>5, <2>2 DEF CommitWorkAndFollow
  <2>4. new.status = "queued" /\ new.node = runs[r].node
    BY <2>1, <2>2, CommittingWorker DEF NewRun, NoRun
  <2> HIDE DEF new
  <2>5. s # r
    BY <2>1, <2>2, <2>3, CommittingWorker
  <2>6. /\ runs'[r] = CompletedRow(w) /\ runs'[s] = new
        /\ \A t \in RunIds \ {r, s} : runs'[t] = runs[t]
    BY <2>3, <2>5 DEF Safe, WellTyped, TypeOK
  <2>7. pool' = [pool EXCEPT ![runs[r].node] = WithBatch(pool[runs[r].node], wk[w].batch)]
    BY <1>5, <2>1, <2>2, CommittingWorker DEF CommitWorkAndFollow
  <2>8. /\ runs[r].node \in Nodes /\ runs[r].status \in Active
        /\ runs'[r].status = "completed" /\ runs'[r].node = runs[r].node
        /\ runs'[r].accepted = wk[w].batch
    BY <2>1, <2>2, <2>6, CommittingWorker DEF Active
  <2>9. RunDelivered(r, wk[w].batch)
    BY <2>3, <2>4, <2>5, <2>6, <2>7, <2>8 DEF RunDelivered
  <2> QED
    BY <2>1, <2>9, CommittingWorker
<1>6. ASSUME NEW w \in Workers, FailWrite(w)
      PROVE  SameJobs \/ RunAbandoned
  <2>1. Holding(w) /\ wk[w].pc = "recording" /\ UNCHANGED pool
    BY <1>6 DEF FailWrite, Holding
  <2>2. PICK r \in RunIds : r = wk[w].run
    BY <2>1, HolderKnows DEF Safe
  <2>3. CASE UNCHANGED runs
    BY <2>1, <2>3 DEF SameJobs
  <2>4. CASE RowExists(r) /\ runs' = [runs EXCEPT ![r] = FailedRow(w)]
    <3>1. wk[w].seen = runs[r] /\ runs[r].status = "running"
      BY <2>1, <2>2, <2>4, HolderKnows DEF Safe
    <3>2. runs'[r] = FailedRow(w) /\ \A t \in RunIds \ {r} : runs'[t] = runs[t]
      BY <2>4 DEF Safe, WellTyped, TypeOK
    <3>3. FailedRow(w).status \in {"queued", "failed"} /\ FailedRow(w).node = runs[r].node
      BY <2>2, <3>1, FailedRowFacts DEF Safe, WellTyped
    <3> QED
      BY <2>1, <3>1, <3>2, <3>3 DEF SameJobs, RunAbandoned, Active
  <2> QED
    BY <1>6, <2>2, <2>3, <2>4 DEF FailWrite
<1>7. ASSUME NEW r \in RunIds, LeaseExpires(r)
      PROVE  SameJobs
  BY <1>7 DEF LeaseExpires, SameJobs, Active, Safe, WellTyped, TypeOK, Run
<1>8. ASSUME NEW n \in Nodes, DeleteNode(n)
      PROVE  RunsRemoved
  BY <1>8 DEF DeleteNode, RunsRemoved
<1>9. CASE \E q \in Requests : RequestStep(q) \/ \E n \in Nodes : ReqLoad(q, n)
  BY <1>1, <1>2, <1>9, RequestWrites
<1>10. CASE \E w \in Workers : WorkerStep(w) \/ Poll(w) \/ Crash(w)
  BY <1>1, <1>3, <1>4, <1>5, <1>6, <1>10, WorkerWrites
<1> QED
  BY <1>1, <1>7, <1>8, <1>9, <1>10 DEF Next, EditPoints, vars

(* A completed or failed run never changes again, however late another        *)
(* worker's outcome arrives, unless its unit is deleted.                    *)
THEOREM OutcomesAreFinal == ASSUME LeaseCoversWork PROVE Spec => TerminalRunIsFinal
<1> DEFINE Final == \A r \in RunIds : runs[r].status \in Terminal
                                       => runs'[r] = runs[r] \/ runs'[r].status = "deleted"
<1>1. Safe /\ [Next]_vars => [Final]_vars
  <2> SUFFICES ASSUME Safe, [Next]_vars, NEW r \in RunIds, runs[r].status \in Terminal
               PROVE  runs'[r] = runs[r] \/ runs'[r].status = "deleted"
    OBVIOUS
  <2>1. [NoRun EXCEPT !.status = "deleted"].status = "deleted"
    BY DEF NoRun
  <2> QED
    BY <2>1, StepOnRuns
       DEF SameJobs, RunsInserted, RunAbandoned, RunsRemoved, RunDelivered, Active, Terminal
<1> QED
  BY <1>1, AlwaysSafe, PTL DEF Spec, TerminalRunIsFinal

-----------------------------------------------------------------------------
(* Refinement: the table of runs, workers, leases and retries included,     *)
(* implements the abstract queue.                                           *)
LEMMA JobFacts ==
  ASSUME NEW run
  PROVE  /\ Job(run).unit = run.node
         /\ run.status = "absent" => Job(run) = [state |-> "absent", unit |-> run.node]
         /\ run.status \in Active => Job(run) = [state |-> "open", unit |-> run.node]
         /\ run.status = "completed" => Job(run) = [state |-> "done", unit |-> run.node]
         /\ run.status = "failed" => Job(run) = [state |-> "gaveup", unit |-> run.node]
         /\ run.status = "deleted" => Job(run) = [state |-> "void", unit |-> run.node]
BY DEF Job, JobState, Active

LEMMA AbstractInit == Init => RefillQueue!Init
<1> SUFFICES ASSUME Init PROVE RefillQueue!Init
  OBVIOUS
<1>1. \A r \in RunIds : Job(runs[r]) = [state |-> "absent", unit |-> None]
  <2>1. NoRun.status = "absent" /\ NoRun.node = None
    BY DEF NoRun
  <2>2. Job(NoRun) = [state |-> "absent", unit |-> None]
    BY <2>1, JobFacts
  <2> QED
    BY <2>2 DEF Init
<1>2. \A n \in Nodes : pool[n].current = 0
  BY DEF Init
<1> QED
  BY <1>1, <1>2 DEF RefillQueue!Init, RefillQueue!Absent

LEMMA AbstractStep ==
  ASSUME Safe, [Next]_vars
  PROVE  [RefillQueue!Next]_(RefillQueue!vars)
<1> DEFINE job == [r \in RunIds |-> Job(runs[r])]
           stock == [n \in Nodes |-> pool[n].current]
<1>1. pool \in [Nodes -> Pool] /\ Safe /\ WellTyped
  BY DEF Safe, WellTyped, TypeOK
<1>2. CASE SameJobs
  <2>1. \A r \in RunIds : Job(runs'[r]) = Job(runs[r])
    BY <1>2, JobFacts DEF SameJobs
  <2>2. job' = job /\ stock' = stock
    BY <1>2, <2>1 DEF SameJobs
  <2> QED
    BY <2>2 DEF RefillQueue!vars
<1>3. CASE RunsInserted
  <2>1. PICK s \in RunIds : /\ runs[s].status = "absent"
                            /\ runs'[s].status = "queued" /\ runs'[s].node \in Nodes
                            /\ \A r \in RunIds \ {s} : runs'[r] = runs[r]
                            /\ UNCHANGED pool
    BY <1>3 DEF RunsInserted
  <2>2. /\ Job(runs[s]).state = "absent"
        /\ Job(runs'[s]) = RefillQueue!OpenFor(runs'[s].node)
    BY <2>1, JobFacts DEF RefillQueue!OpenFor, Active
  <2>3. job' = [job EXCEPT ![s] = RefillQueue!OpenFor(runs'[s].node)] /\ stock' = stock
    BY <2>1, <2>2
  <2>4. RefillQueue!Submit(s, runs'[s].node)
    BY <2>1, <2>2, <2>3 DEF RefillQueue!Submit
  <2> QED
    BY <2>1, <2>4 DEF RefillQueue!Next
<1>4. CASE RunAbandoned
  <2>1. PICK r \in RunIds :
          /\ runs[r].status \in Active /\ runs'[r].status = "failed" /\ runs'[r].node = runs[r].node
          /\ \A t \in RunIds \ {r} : runs'[t] = runs[t]
          /\ UNCHANGED pool
    BY <1>4 DEF RunAbandoned
  <2>2. Job(runs[r]).state = "open" /\ Job(runs'[r]) = [Job(runs[r]) EXCEPT !.state = "gaveup"]
    BY <2>1, JobFacts
  <2>3. job' = [job EXCEPT ![r].state = "gaveup"] /\ stock' = stock
    BY <2>1, <2>2
  <2>4. RefillQueue!GiveUp(r)
    BY <2>1, <2>2, <2>3 DEF RefillQueue!GiveUp
  <2> QED
    BY <2>1, <2>4 DEF RefillQueue!Next, RefillQueue!Close
<1>5. CASE RunsRemoved
  <2>1. PICK n \in Nodes :
          /\ \A r \in RunIds : runs'[r] = IF runs[r].node = n THEN [NoRun EXCEPT !.status = "deleted"]
                                         ELSE runs[r]
          /\ pool' = [pool EXCEPT ![n] = [curated |-> 0, legacy |-> 0, current |-> 0]]
    BY <1>5 DEF RunsRemoved
  <2>2. Job([NoRun EXCEPT !.status = "deleted"]) = [RefillQueue!Absent EXCEPT !.state = "void"]
    BY DEF RefillQueue!Absent, NoRun, Job, JobState
  <2>3. \A r \in RunIds : Job(runs[r]).unit = runs[r].node
    BY JobFacts
  <2>4. job' = [r \in RunIds |-> IF job[r].unit = n THEN [RefillQueue!Absent EXCEPT !.state = "void"]
                                 ELSE job[r]]
    BY <2>1, <2>2, <2>3
  <2>5. stock' = [stock EXCEPT ![n] = 0]
    BY <1>1, <2>1
  <2>6. RefillQueue!Remove(n)
    BY <2>4, <2>5 DEF RefillQueue!Remove
  <2> QED
    BY <2>6 DEF RefillQueue!Next
<1>6. CASE \E r \in RunIds, k \in MinPublishable .. MaxItems : RunDelivered(r, k)
  <2>1. PICK r \in RunIds, k \in MinPublishable .. MaxItems : RunDelivered(r, k)
    BY <1>6
  <2> DEFINE n == runs[r].node
  <2>2. /\ Job(runs[r]) = [state |-> "open", unit |-> n]
        /\ Job(runs'[r]) = [Job(runs[r]) EXCEPT !.state = "done"]
    BY <2>1, JobFacts DEF RunDelivered
  <2>a. job[r].state = "open" /\ job[r].unit = n
    BY <2>2
  <2>3. stock' = [stock EXCEPT ![n] = @ + k]
    BY <1>1, <2>1 DEF RunDelivered, WithBatch
  <2>4. CASE \A t \in RunIds \ {r} : runs'[t] = runs[t]
    <3>1. job' = [job EXCEPT ![r].state = "done"]
      BY <2>2, <2>4
    <3>2. RefillQueue!Deliver(r, k)
      BY <2>a, <2>3, <3>1 DEF RefillQueue!Deliver
    <3> QED
      BY <2>1, <3>2 DEF RefillQueue!Next, RefillQueue!Close
  <2>5. CASE \E s \in RunIds \ {r} :
              /\ runs[s].status = "absent"
              /\ runs'[s].status = "queued" /\ runs'[s].node = n
              /\ \A t \in RunIds \ {r, s} : runs'[t] = runs[t]
    <3>1. PICK s \in RunIds \ {r} :
              /\ runs[s].status = "absent"
              /\ runs'[s].status = "queued" /\ runs'[s].node = n
              /\ \A t \in RunIds \ {r, s} : runs'[t] = runs[t]
      BY <2>5
    <3>2. Job(runs[s]).state = "absent" /\ Job(runs'[s]) = RefillQueue!OpenFor(n)
      BY <3>1, JobFacts DEF RefillQueue!OpenFor, Active
    <3>3. job[s].state = "absent"
      BY <3>1, <3>2
    <3>4. \A t \in RunIds :
            job'[t] = IF t = s THEN RefillQueue!OpenFor(n)
                      ELSE IF t = r THEN [job[r] EXCEPT !.state = "done"] ELSE job[t]
      BY <2>2, <3>1, <3>2
    <3>5. job' = [job EXCEPT ![r].state = "done", ![s] = RefillQueue!OpenFor(n)]
      BY <3>1, <3>4
    <3>6. RefillQueue!Deliver(r, k)
      BY <2>a, <2>3, <3>1, <3>3, <3>5 DEF RefillQueue!Deliver
    <3> QED
      BY <2>1, <3>6 DEF RefillQueue!Next, RefillQueue!Close
  <2> QED
    BY <2>1, <2>4, <2>5 DEF RunDelivered
<1> QED
  BY <1>2, <1>3, <1>4, <1>5, <1>6, StepOnRuns

(* With leases that cover the work, claims, retries, crashes and follow-ups   *)
(* are invisible: a submitted run delivers one batch, once, or gives up.    *)
THEOREM QueueImplemented == ASSUME LeaseCoversWork PROVE Spec => ImplementsRefillQueue
<1>1. Safe /\ [Next]_vars => [RefillQueue!Next]_(RefillQueue!vars)
  BY AbstractStep
<1> QED
  BY <1>1, AbstractInit, AlwaysSafe, PTL DEF Spec, ImplementsRefillQueue, RefillQueue!Spec

=============================================================================
