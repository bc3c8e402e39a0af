---------------------------- MODULE ExercisePool ----------------------------
(***************************************************************************)
(* The asynchronous exercise pool: learner requests that read a unit's     *)
(* pool and enqueue a refill, the PostgreSQL queue of generation runs, and *)
(* the workers that claim a run under a lease, generate, publish, retry    *)
(* and enqueue follow-ups.                                                 *)
(*                                                                         *)
(*   src/src/knowledge/exercise_pool.py, exercise_worker.py,               *)
(*   unit_exercise_generation.py, models/knowledge.py (the run table),     *)
(*   src/src/api/knowledge.py (the polling endpoint).                      *)
(*                                                                         *)
(* One step is what one SQL statement, or one commit, makes atomic.  A     *)
(* transaction's writes live in the actor's record until it commits; the   *)
(* database runs READ COMMITTED, so every read sees the last commit.       *)
(***************************************************************************)
EXTENDS Integers, FiniteSets

CONSTANTS
  Nodes,            \* curriculum units
  RunIds,           \* rows exercise_generation_runs may ever hold (a bound)
  Workers,          \* exercise-worker processes
  Requests,         \* the API requests that may be made (a bound)
  Versions,         \* input hashes a unit's knowledge points may have
  None,             \* SQL NULL, an empty list of points, no run
  ReadySize, RefillThreshold, TargetSize, MinGenerated,  \* config.py
  MinPublishable,   \* MIN_PUBLISHABLE_QUESTIONS
  MaxItems,         \* maxItems of the candidates' output schema
  SmallBatch, BigBatch,  \* the literals 8 and 16 of enqueue_exercise_refill
  MaxAttempts,      \* exercise_worker_max_attempts
  InitialPools,     \* [curated, legacy] counts a unit may start with
  LeaseCoversWork,  \* TRUE: the lease outlives every generation that is alive
  MaxCrashes        \* bound on worker crashes

ASSUME ConstantsAssumption ==
  /\ None \notin Nodes \cup RunIds \cup Versions
  /\ {ReadySize, RefillThreshold, TargetSize, MinGenerated, MinPublishable,
      MaxItems, SmallBatch, BigBatch, MaxAttempts} \subseteq Nat \ {0}
  /\ MaxCrashes \in Nat
  /\ InitialPools \subseteq [curated : Nat, legacy : Nat]
  /\ LeaseCoversWork \in BOOLEAN
  /\ IsFiniteSet(RunIds)

VARIABLES
  live,     \* the curriculum nodes that exist
  points,   \* node -> hash of its generation points, None when there are none
  pool,     \* node -> counts of its published, accepted questions
  runs,     \* the table exercise_generation_runs
  wk,       \* worker -> its local state and open transaction
  rq,       \* request -> its local state and open transaction
  crashes   \* how many times a worker process has been killed

vars == <<live, points, pool, runs, wk, rq, crashes>>

-----------------------------------------------------------------------------
(* The tables.                                                             *)

RunStatus == {"absent", "queued", "running", "completed", "failed", "deleted"}
Active == {"queued", "running"}
Terminal == {"completed", "failed"}

(* curated: eligible whatever their origin; legacy: generated by an older  *)
(* generator and never reviewed, hence neither served nor counted; current:*)
(* written by this generator, whose metadata carries an accepted gate.     *)
Pool == [curated : Nat, legacy : Nat, current : Nat]

Run == [node : Nodes \cup {None}, version : Versions \cup {None},
        status : RunStatus, priority : Nat, requested : Nat, attempts : Nat,
        lease : {"none", "live", "expired"}, accepted : Nat]

NoRun == [node |-> None, version |-> None, status |-> "absent", priority |-> 0,
          requested |-> 0, attempts |-> 0, lease |-> "none", accepted |-> 0]

NewRun(n, v, prio, req) ==
  [NoRun EXCEPT !.node = n, !.version = v, !.status = "queued",
                !.priority = prio, !.requested = req]

RowExists(r) == runs[r].status \notin {"absent", "deleted"}

(* load_pool_questions: what _is_pool_eligible leaves of the published set *)
Eligible(p) == p.curated + p.current

(* _needs_refill *)
NeedsRefill(p) == Eligible(p) < RefillThreshold \/ p.current < MinGenerated

RequestedFor(available) == IF available < RefillThreshold THEN BigBatch ELSE SmallBatch

(* _pool_status *)
PoolStatus(count, hasRun) ==
  IF count = 0 THEN IF hasRun THEN "generating" ELSE "degraded"
  ELSE IF hasRun THEN "refreshing"
  ELSE IF count < ReadySize THEN "degraded" ELSE "ready"

NodeHasActiveRun(n) == \E r \in RunIds : runs[r].node = n /\ runs[r].status \in Active

(* The dedupe key hashes the node, its points' hash and the generator      *)
(* version, which is a constant of the build.                              *)
HasKey(run, n, v) == run.node = n /\ run.version = v

(* Faulty variants, each a plausible slip in the definition that follows   *)
(* it, carry the slip in their name; no action uses them.                  *)
ActiveWithKey_QueuedOnly(n, v) ==
  {r \in RunIds : HasKey(runs[r], n, v) /\ runs[r].status = "queued"}

ActiveWithKey(n, v) ==
  {r \in RunIds : HasKey(runs[r], n, v) /\ runs[r].status \in Active}

-----------------------------------------------------------------------------
(* Local states.                                                           *)

WorkerPc == {"idle", "claimed", "working", "closing", "failing", "recording",
             "crashed", "escaped"}

(* seen: the run row the session loaded; batch: the questions it has       *)
(* written; version and follow: the follow-up run it is about to insert.   *)
Worker == [pc : WorkerPc, run : RunIds \cup {None}, seen : Run, batch : Nat,
           version : Versions \cup {None}, follow : Nat]

IdleWorker == [pc |-> "idle", run |-> None, seen |-> NoRun, batch |-> 0,
               follow |-> 0, version |-> None]

RequestPc == {"idle", "loaded", "checked", "deduped", "inserted", "done"}

Replies == {"none", "ready", "refreshing", "degraded", "generating",
            "conflict", "error"}

Request == [pc : RequestPc, node : Nodes \cup {None}, have : Nat, need : BOOLEAN,
            version : Versions \cup {None}, reply : Replies]

IdleRequest == [pc |-> "idle", node |-> None, have |-> 0, need |-> FALSE,
                version |-> None, reply |-> "none"]

TypeOK ==
  /\ live \subseteq Nodes
  /\ points \in [Nodes -> Versions \cup {None}]
  /\ pool \in [Nodes -> Pool]
  /\ runs \in [RunIds -> Run]
  /\ wk \in [Workers -> Worker]
  /\ rq \in [Requests -> Request]
  /\ crashes \in Nat

Init ==
  /\ live = Nodes
  /\ points \in [Nodes -> Versions \cup {None}]
  /\ pool \in [Nodes -> {[curated |-> p.curated, legacy |-> p.legacy, current |-> 0] :
                           p \in InitialPools}]
  /\ runs = [r \in RunIds |-> NoRun]
  /\ wk = [w \in Workers |-> IdleWorker]
  /\ rq = [q \in Requests |-> IdleRequest]
  /\ crashes = 0

-----------------------------------------------------------------------------
(* Row locks and the partial unique index.                                 *)

Holding(w) == wk[w].pc \in {"claimed", "working", "closing", "failing", "recording"}

(* A worker that has flushed its UPDATE holds the row until it commits.    *)
RowLocked(r) == \E w \in Workers : wk[w].pc = "closing" /\ wk[w].run = r

(* An insert waits while another open transaction may still change the     *)
(* verdict of the unique index on this key.                                *)
KeyInDoubt(n, v) ==
  \/ \E q \in Requests : rq[q].pc = "inserted" /\ rq[q].node = n /\ rq[q].version = v
  \/ \E w \in Workers : wk[w].pc = "closing" /\ wk[w].run \in ActiveWithKey(n, v)

(* What the ORM writes: the columns whose new value differs from the value *)
(* the session loaded; the others keep what the table holds by now.        *)
Flush(now, seen, new) ==
  [f \in DOMAIN now |-> IF new[f] = seen[f] THEN now[f] ELSE new[f]]

-----------------------------------------------------------------------------
(* Learner requests: GET .../exercise-pool.                                *)

Reply(q, kind) ==
  rq' = [rq EXCEPT ![q] = [IdleRequest EXCEPT !.pc = "done", !.node = rq[q].node,
                                              !.reply = kind]]

(* The handler finds the node and load_pool_questions reads the pool.      *)
ReqLoad(q, n) ==
  /\ rq[q].pc = "idle"
  /\ n \in live
  /\ rq' = [rq EXCEPT ![q] = [IdleRequest EXCEPT !.pc = "loaded", !.node = n,
                                !.have = Eligible(pool[n]), !.need = NeedsRefill(pool[n])]]
  /\ UNCHANGED <<live, points, pool, runs, wk, crashes>>

(* _active_run, a later statement: a run exists, or none is needed.        *)
ReqNoEnqueue(q) ==
  /\ rq[q].pc = "loaded"
  /\ NodeHasActiveRun(rq[q].node) \/ ~rq[q].need
  /\ Reply(q, PoolStatus(rq[q].have, NodeHasActiveRun(rq[q].node)))
  /\ UNCHANGED <<live, points, pool, runs, wk, crashes>>

ReqWantsRefill(q) ==
  /\ rq[q].pc = "loaded"
  /\ ~NodeHasActiveRun(rq[q].node) /\ rq[q].need
  /\ rq' = [rq EXCEPT ![q].pc = "checked"]
  /\ UNCHANGED <<live, points, pool, runs, wk, crashes>>

(* enqueue_exercise_refill: no points, or the key has an active run.       *)
ReqNotEnqueued(q) ==
  LET n == rq[q].node
  IN  /\ rq[q].pc = "checked"
      /\ \/ points[n] = None /\ Reply(q, PoolStatus(rq[q].have, FALSE))
         \/ /\ points[n] # None
            /\ ActiveWithKey(n, points[n]) # {}
            /\ Reply(q, PoolStatus(rq[q].have, TRUE))
      /\ UNCHANGED <<live, points, pool, runs, wk, crashes>>

ReqDedupe(q) ==
  LET n == rq[q].node
  IN  /\ rq[q].pc = "checked"
      /\ points[n] # None
      /\ ActiveWithKey(n, points[n]) = {}
      /\ rq' = [rq EXCEPT ![q].pc = "deduped", ![q].version = points[n]]
      /\ UNCHANGED <<live, points, pool, runs, wk, crashes>>

(* db.flush() of the INSERT.  The unique index or the foreign key to the   *)
(* node may refuse it; nothing catches the error, the request fails.       *)
ReqInsert(q) ==
  LET n == rq[q].node
      v == rq[q].version
  IN  /\ rq[q].pc = "deduped"
      /\ ~KeyInDoubt(n, v)
      /\ \/ n \notin live /\ Reply(q, "error")
         \/ ActiveWithKey(n, v) # {} /\ Reply(q, "conflict")
         \/ /\ n \in live /\ ActiveWithKey(n, v) = {}
            /\ rq' = [rq EXCEPT ![q].pc = "inserted"]
      /\ UNCHANGED <<live, points, pool, runs, wk, crashes>>

(* get_db commits after the handler returned its payload ...               *)
ReqCommit(q) ==
  /\ rq[q].pc = "inserted"
  /\ \E r \in RunIds :
       /\ runs[r].status = "absent"
       /\ runs' = [runs EXCEPT ![r] = NewRun(rq[q].node, rq[q].version, 100,
                                             RequestedFor(rq[q].have))]
  /\ Reply(q, PoolStatus(rq[q].have, TRUE))
  /\ UNCHANGED <<live, points, pool, wk, crashes>>

(* ... or rolls back when anything after the flush raises.                 *)
ReqAbort(q) ==
  /\ rq[q].pc = "inserted"
  /\ Reply(q, "error")
  /\ UNCHANGED <<live, points, pool, runs, wk, crashes>>

-----------------------------------------------------------------------------
(* The worker: run_exercise_worker_once.                                   *)

Claimable_LeaseIgnored(r) == runs[r].status \in Active /\ ~RowLocked(r)

Claimable_FailedToo(r) ==
  (runs[r].status \in {"queued", "failed"} \/ runs[r].lease = "expired") /\ ~RowLocked(r)

Claimable_QueuedOnly(r) == runs[r].status = "queued" /\ ~RowLocked(r)

Claimable(r) ==
  /\ \/ runs[r].status = "queued"
     \/ runs[r].status = "running" /\ runs[r].lease = "expired"
  /\ ~RowLocked(r)   \* SKIP LOCKED

ClaimedRow(run) ==
  [run EXCEPT !.status = "running", !.attempts = @ + 1, !.lease = "live"]

(* claim_next_exercise_run and its commit.  Among equal priorities the     *)
(* order is created_at, the start of the inserting transaction; a          *)
(* follow-up's transaction starts before its generation, so the ids carry  *)
(* no order and ties are left open.                                        *)
Claim(w, r) ==
  /\ wk[w].pc = "idle"
  /\ Claimable(r)
  /\ \A s \in RunIds : Claimable(s) => runs[s].priority <= runs[r].priority
  /\ runs' = [runs EXCEPT ![r] = ClaimedRow(@)]
  /\ wk' = [wk EXCEPT ![w] = [IdleWorker EXCEPT !.pc = "claimed", !.run = r]]
  /\ UNCHANGED <<live, points, pool, rq, crashes>>

(* Nothing to claim: the loop sleeps and polls again.                      *)
Poll(w) ==
  /\ wk[w].pc = "idle"
  /\ \A r \in RunIds : ~Claimable(r)
  /\ UNCHANGED vars

(* The work session loads the row, the node and the points.  A deleted row *)
(* raises NoResultFound, a unit without points cannot be generated for.    *)
LoadRun(w) ==
  LET r == wk[w].run
  IN  /\ wk[w].pc = "claimed"
      /\ IF RowExists(r) /\ points[runs[r].node] # None
         THEN wk' = [wk EXCEPT ![w].pc = "working", ![w].seen = runs[r]]
         ELSE wk' = [wk EXCEPT ![w].pc = "failing"]
      /\ UNCHANGED <<live, points, pool, runs, rq, crashes>>

(* generate_reviewed_unit_pool raises: the model call, schema validation,  *)
(* too few candidates, a missing point, a set that fails the lint; or the  *)
(* node was deleted meanwhile and the insert breaks its foreign key.       *)
GenerationFails(w) ==
  /\ wk[w].pc = "working"
  /\ wk' = [wk EXCEPT ![w].pc = "failing"]
  /\ UNCHANGED <<live, points, pool, runs, rq, crashes>>

(* process_exercise_generation_run's writes, once committed.               *)
CompletedRow_StillRunning(w) ==
  Flush(runs[wk[w].run], wk[w].seen, [wk[w].seen EXCEPT !.accepted = wk[w].batch])

CompletedRow_RequestedCount(w) ==
  Flush(runs[wk[w].run], wk[w].seen,
        [wk[w].seen EXCEPT !.status = "completed", !.lease = "none",
                           !.accepted = wk[w].seen.requested])

CompletedRow(w) ==
  Flush(runs[wk[w].run], wk[w].seen,
        [wk[w].seen EXCEPT !.status = "completed", !.lease = "none",
                           !.accepted = wk[w].batch])

(* The runs of a key that are active once the worker's own UPDATE counts:  *)
(* a row it had loaded as completed keeps the status the table holds.      *)
ActiveAfter(w, n, v) ==
  {s \in ActiveWithKey(n, v) : s = wk[w].run => CompletedRow(w).status \in Active}

FollowUpVersion_Never(w, n, k) == None

(* maybe_enqueue_followup_refill: the version to enqueue for, None when    *)
(* the pool is at its target, the unit has no points or the key is active. *)
FollowUpVersion(w, n, k) ==
  IF Eligible(pool[n]) + k < TargetSize /\ ActiveAfter(w, n, points[n]) = {}
  THEN points[n] ELSE None

(* The questions and the completed run are flushed, which locks the row,   *)
(* and the follow-up's reads see them.  The batch is bounded by the output *)
(* schema, not by the count that was asked for.                            *)
WriteResult(w, k) ==
  LET n == wk[w].seen.node
  IN  /\ wk[w].pc = "working"
      /\ n \in live
      /\ ~RowLocked(wk[w].run)
      /\ wk' = [wk EXCEPT ![w].pc = "closing", ![w].batch = k,
                          ![w].version = FollowUpVersion(w, n, k),
                          ![w].follow = RequestedFor(Eligible(pool[n]) + k)]
      /\ UNCHANGED <<live, points, pool, runs, rq, crashes>>

(* _archive_unreviewed_legacy_questions retires the old generated rows     *)
(* only against a batch of the ready size.                                 *)
WithBatch_NotEligible(p, k) ==
  [curated |-> p.curated, current |-> p.current, legacy |-> p.legacy + k]

WithBatch(p, k) ==
  [curated |-> p.curated, current |-> p.current + k,
   legacy  |-> IF k < ReadySize THEN p.legacy ELSE 0]

FollowPriority(p) == IF p > 10 THEN p - 10 ELSE 1

CommitWork(w) ==
  LET r == wk[w].run
      n == wk[w].seen.node
  IN  /\ wk[w].pc = "closing"
      /\ wk[w].version = None
      /\ runs' = [runs EXCEPT ![r] = CompletedRow(w)]
      /\ pool' = [pool EXCEPT ![n] = WithBatch(@, wk[w].batch)]
      /\ wk' = [wk EXCEPT ![w] = IdleWorker]
      /\ UNCHANGED <<live, points, rq, crashes>>

CommitWorkAndFollow(w) ==
  LET r == wk[w].run
      n == wk[w].seen.node
      v == wk[w].version
  IN  /\ wk[w].pc = "closing"
      /\ wk[w].version # None
      /\ ActiveAfter(w, n, v) = {}
      /\ \A q \in Requests : ~(rq[q].pc = "inserted" /\ rq[q].node = n /\ rq[q].version = v)
      /\ \E s \in RunIds :
           /\ runs[s].status = "absent"
           /\ runs' = [runs EXCEPT ![r] = CompletedRow(w),
                         ![s] = NewRun(n, v, FollowPriority(wk[w].seen.priority),
                                       wk[w].follow)]
      /\ pool' = [pool EXCEPT ![n] = WithBatch(@, wk[w].batch)]
      /\ wk' = [wk EXCEPT ![w] = IdleWorker]
      /\ UNCHANGED <<live, points, rq, crashes>>

(* The follow-up meets the unique index: the whole transaction rolls back, *)
(* the generated batch with it, and the run takes the failure path.        *)
FollowUpConflicts(w) ==
  LET r == wk[w].run
      n == wk[w].seen.node
      v == wk[w].version
  IN  /\ wk[w].pc = "closing"
      /\ wk[w].version # None
      /\ \E s \in ActiveAfter(w, n, v) : s = r \/ ~RowLocked(s)
      /\ wk' = [wk EXCEPT ![w] = [IdleWorker EXCEPT !.pc = "failing", !.run = r]]
      /\ UNCHANGED <<live, points, pool, runs, rq, crashes>>

(* The failure session reads the row, a statement before it writes it.     *)
FailLoad(w) ==
  LET r == wk[w].run
  IN  /\ wk[w].pc = "failing"
      /\ IF RowExists(r)
         THEN wk' = [wk EXCEPT ![w] = [IdleWorker EXCEPT !.pc = "recording", !.run = r,
                                                         !.seen = runs[r]]]
         ELSE wk' = [wk EXCEPT ![w] = IdleWorker]
      /\ UNCHANGED <<live, points, pool, runs, rq, crashes>>

(* mark_exercise_run_failed *)
FailedRow_UnknownStatus(w) ==
  Flush(runs[wk[w].run], wk[w].seen,
        [wk[w].seen EXCEPT !.lease = "none",
           !.status = IF wk[w].seen.attempts < MaxAttempts THEN "queued" ELSE "error"])

FailedRow_OneAttemptMore(w) ==
  Flush(runs[wk[w].run], wk[w].seen,
        [wk[w].seen EXCEPT !.lease = "none",
           !.status = IF wk[w].seen.attempts <= MaxAttempts THEN "queued" ELSE "failed"])

FailedRow_AlwaysRequeued(w) ==
  Flush(runs[wk[w].run], wk[w].seen,
        [wk[w].seen EXCEPT !.lease = "none", !.status = "queued"])

FailedRow(w) ==
  Flush(runs[wk[w].run], wk[w].seen,
        [wk[w].seen EXCEPT !.lease = "none",
           !.status = IF wk[w].seen.attempts < MaxAttempts THEN "queued" ELSE "failed"])

(* Requeueing a run whose key has found another active run, or updating a  *)
(* row that is gone, raises outside the try block: the loop itself ends.   *)
FailWrite(w) ==
  LET r == wk[w].run
      back == FailedRow(w).status \in Active
      n == runs[r].node
      v == runs[r].version
  IN  /\ wk[w].pc = "recording"
      /\ ~RowLocked(r)
      /\ \/ /\ RowExists(r)
            /\ back => ~KeyInDoubt(n, v) /\ ActiveWithKey(n, v) \subseteq {r}
            /\ runs' = [runs EXCEPT ![r] = FailedRow(w)]
            /\ wk' = [wk EXCEPT ![w] = IdleWorker]
         \/ /\ \/ ~RowExists(r)
               \/ back /\ ~KeyInDoubt(n, v) /\ ~(ActiveWithKey(n, v) \subseteq {r})
            /\ wk' = [wk EXCEPT ![w] = [IdleWorker EXCEPT !.pc = "escaped"]]
            /\ UNCHANGED runs
      /\ UNCHANGED <<live, points, pool, rq, crashes>>

(* The process is killed; its open transaction rolls back.                 *)
Crash(w) ==
  /\ Holding(w)
  /\ crashes < MaxCrashes
  /\ crashes' = crashes + 1
  /\ wk' = [wk EXCEPT ![w] = [IdleWorker EXCEPT !.pc = "crashed"]]
  /\ UNCHANGED <<live, points, pool, runs, rq>>

(* docker-compose: restart: unless-stopped.                                *)
Restart(w) ==
  /\ wk[w].pc \in {"crashed", "escaped"}
  /\ wk' = [wk EXCEPT ![w] = IdleWorker]
  /\ UNCHANGED <<live, points, pool, runs, rq, crashes>>

-----------------------------------------------------------------------------
(* The environment.                                                        *)

(* lease_expires_at < now.  LeaseCoversWork is the operating assumption of *)
(* section 7 of the design document: no claimant outlives its lease.       *)
LeaseExpires(r) ==
  /\ runs[r].status = "running" /\ runs[r].lease = "live"
  /\ LeaseCoversWork => \A w \in Workers : ~(Holding(w) /\ wk[w].run = r)
  /\ runs' = [runs EXCEPT ![r].lease = "expired"]
  /\ UNCHANGED <<live, points, pool, wk, rq, crashes>>

(* Editors and the parser rewrite a unit's knowledge points.               *)
EditPoints(n, v) ==
  /\ n \in live
  /\ points[n] # v
  /\ points' = [points EXCEPT ![n] = v]
  /\ UNCHANGED <<live, pool, runs, wk, rq, crashes>>

(* Deleting or re-parsing the source deletes the node; runs and questions  *)
(* cascade.  A transaction with an uncommitted child row blocks it.        *)
DeleteNode(n) ==
  /\ n \in live
  /\ \A q \in Requests : ~(rq[q].pc = "inserted" /\ rq[q].node = n)
  /\ \A w \in Workers : ~(wk[w].pc = "closing" /\ wk[w].seen.node = n)
  /\ live' = live \ {n}
  /\ points' = [points EXCEPT ![n] = None]
  /\ pool' = [pool EXCEPT ![n] = [curated |-> 0, legacy |-> 0, current |-> 0]]
  /\ runs' = [r \in RunIds |-> IF runs[r].node = n
                                 THEN [NoRun EXCEPT !.status = "deleted"] ELSE runs[r]]
  /\ UNCHANGED <<wk, rq, crashes>>

-----------------------------------------------------------------------------

WorkerStep(w) ==
  \/ \E r \in RunIds : Claim(w, r)
  \/ LoadRun(w) \/ GenerationFails(w)
  \/ \E k \in MinPublishable .. MaxItems : WriteResult(w, k)
  \/ CommitWork(w) \/ CommitWorkAndFollow(w) \/ FollowUpConflicts(w)
  \/ FailLoad(w) \/ FailWrite(w) \/ Restart(w)

RequestStep(q) ==
  \/ ReqNoEnqueue(q) \/ ReqWantsRefill(q) \/ ReqNotEnqueued(q) \/ ReqDedupe(q)
  \/ ReqInsert(q) \/ ReqCommit(q) \/ ReqAbort(q)

Next ==
  \/ \E q \in Requests, n \in Nodes : ReqLoad(q, n)
  \/ \E q \in Requests : RequestStep(q)
  \/ \E w \in Workers : WorkerStep(w) \/ Poll(w) \/ Crash(w)
  \/ \E r \in RunIds : LeaseExpires(r)
  \/ \E n \in Nodes, v \in Versions \cup {None} : EditPoints(n, v)
  \/ \E n \in Nodes : DeleteNode(n)

Spec == Init /\ [][Next]_vars

(* Handlers and workers run to completion (every await has a timeout), the *)
(* supervisor restarts a dead worker, and time passes.  Nothing forces a   *)
(* learner to ask, an editor to edit or a worker to crash.                 *)
Fairness ==
  /\ \A w \in Workers : WF_vars(WorkerStep(w))
  /\ \A q \in Requests : WF_vars(RequestStep(q))
  /\ \A r \in RunIds : WF_vars(LeaseExpires(r))

FairSpec == Spec /\ Fairness

-----------------------------------------------------------------------------
(* Safety, whatever the lease.                                             *)

(* At most one run of a dedupe key is queued or running: the partial       *)
(* unique index holds through concurrent requests, follow-ups and the      *)
(* requeueing of a run another worker has already finished.                *)
OneActiveRunPerKey ==
  \A r, s \in RunIds :
    /\ runs[r].status \in Active /\ runs[s].status \in Active
    /\ HasKey(runs[r], runs[s].node, runs[s].version)
    => r = s

RunsOf(n) == {r \in RunIds : runs[r].node = n}
CompletedRuns(n) == {r \in RunsOf(n) : runs[r].status = "completed"}

(* The questions the audit columns of some runs speak of, numbered within  *)
(* their run: there are as many as the runs' accepted_count in all.        *)
Audited(rs) == UNION {{r} \X (1 .. runs[r].accepted) : r \in rs}

(* No completed run claims questions the unit does not have, even when two *)
(* workers publish for the same run or one finishes what another failed.   *)
AuditNeverOverstates ==
  \A n \in live : Cardinality(Audited(CompletedRuns(n))) <= pool[n].current

-----------------------------------------------------------------------------
(* Safety that rests on LeaseCoversWork.                                   *)

(* Mutual exclusion: a run is in the hands of at most one worker, and as   *)
(* long as it exists it is running under a live lease.                     *)
ExclusiveClaim ==
  /\ \A v, w \in Workers : Holding(v) /\ Holding(w) /\ wk[v].run = wk[w].run => v = w
  /\ \A w \in Workers : Holding(w) /\ RowExists(wk[w].run) =>
       runs[wk[w].run].status = "running" /\ runs[wk[w].run].lease = "live"

(* A running run nobody works on can be claimed again: it has a lease that *)
(* is, or will be, expired.  Without one it would stay running for ever.   *)
RunningHasLease ==
  \A r \in RunIds : runs[r].status = "running" => runs[r].lease # "none"

(* Every attempt beyond max_attempts is paid for by a crash: a poisoned    *)
(* run that merely fails is retried at most max_attempts times in all.     *)
AttemptsPaidFor == \A r \in RunIds : runs[r].attempts <= MaxAttempts + crashes

(* The audit columns account for the pool: a unit's generated questions    *)
(* are the sum of accepted_count over its runs, so no batch is published   *)
(* twice and none is published by a run that is not recorded as completed. *)
AuditMatchesPool ==
  \A n \in live : pool[n].current = Cardinality(Audited(CompletedRuns(n)))

(* A completed or failed run is an audit record: only deleting its unit    *)
(* changes it again.                                                       *)
TerminalRunIsFinal ==
  [][\A r \in RunIds : runs[r].status \in Terminal
                          => runs'[r] = runs[r] \/ runs'[r].status = "deleted"]_vars

(* The worker's loop ends only when a unit is deleted under its feet.      *)
LoopSurvives ==
  (\E w \in Workers : wk[w].pc = "escaped") => live # Nodes

(* The queue implements its abstract promise.                              *)
JobState(run) ==
  CASE run.status = "absent" -> "absent"
    [] run.status \in Active -> "open"
    [] run.status = "completed" -> "done"
    [] run.status = "failed" -> "gaveup"
    [] run.status = "deleted" -> "void"

Job(run) == [state |-> JobState(run), unit |-> run.node]

RefillQueue ==
  INSTANCE RefillQueue WITH
    Units <- Nodes, Jobs <- RunIds, NoUnit <- None,
    MinBatch <- MinPublishable, MaxBatch <- MaxItems,
    job <- [r \in RunIds |-> Job(runs[r])],
    stock <- [n \in Nodes |-> pool[n].current]

ImplementsRefillQueue == RefillQueue!Spec

-----------------------------------------------------------------------------
(* Liveness, under FairSpec.                                               *)

(* An enqueued run is completed, failed or deleted with its unit.          *)
RunSettles ==
  \A r \in RunIds : runs[r].status \in Active ~> runs[r].status \notin Active

(* The 202 answer: a learner told that questions are being generated will  *)
(* find some, unless a run failed or the unit is gone.                     *)
PromiseKept ==
  \A q \in Requests, n \in Nodes :
    (rq[q].node = n /\ rq[q].reply = "generating") ~>
      \/ Eligible(pool[n]) > 0
      \/ \E r \in RunIds : runs[r].status = "failed"
      \/ n \notin live

(* Refilling goes on until the target is met: as long as a unit keeps its  *)
(* knowledge points, an active run leads to a full pool or to a run that   *)
(* failed.                                                                 *)
PoolRefills ==
  \A n \in Nodes :
    [](points[n] # None) =>
      (NodeHasActiveRun(n) ~>
         \/ Eligible(pool[n]) >= TargetSize
         \/ \E r \in RunIds : runs[r].status = "failed")

-----------------------------------------------------------------------------
(* What the documents say and the code does not do.                        *)

(* doc section 5: "max attempts 2, finite retries, a poisoned task does    *)
(* not loop for ever".                                                     *)
AttemptsBounded == \A r \in RunIds : runs[r].attempts <= MaxAttempts

(* doc section 2: "a pool that is short: idempotent enqueue".              *)
EnqueueIdempotent == \A q \in Requests : rq[q].reply # "conflict"

=============================================================================
