-------------------------- MODULE PoolAuditProofs --------------------------
(***************************************************************************)
(* What the audit columns of ExercisePool say of the pool, for every value *)
(* of its constants.  The cardinalities live in a module of their own: the *)
(* other theorems of ExercisePoolProofs need no FiniteSetTheorems.         *)
(***************************************************************************)
EXTENDS ExercisePoolProofs, FiniteSetTheorems

(* A batch of k questions is the set {r} \X (1 .. k), so the sums over runs *)
(* are cardinalities of unions.                                            *)
LEMMA BatchSize ==
  ASSUME NEW r, NEW k \in Nat
  PROVE  IsFiniteSet({r} \X (1 .. k)) /\ Cardinality({r} \X (1 .. k)) = k
<1> DEFINE Batch == {r} \X (1 .. k)
<1>1. IsFiniteSet({r}) /\ Cardinality({r}) = 1
  BY FS_Singleton
<1>2. IsFiniteSet(1 .. k) /\ Cardinality(1 .. k) = k
  BY FS_Interval
<1>3. \A S, U : IsFiniteSet(S) /\ IsFiniteSet(U) =>
        /\ IsFiniteSet(S \X U)
        /\ Cardinality(S \X U) = Cardinality(S) * Cardinality(U)
  BY FS_Product
<1>4. IsFiniteSet(Batch) /\ Cardinality(Batch) = Cardinality({r}) * Cardinality(1 .. k)
  BY <1>1, <1>2, <1>3, Zenon
<1>5. Cardinality(Batch) = 1 * k
  BY <1>1, <1>2, <1>4, Zenon
<1> HIDE DEF Batch
<1>6. IsFiniteSet(Batch) /\ Cardinality(Batch) = k
  BY <1>4, <1>5
<1> QED
  BY <1>6 DEF Batch

LEMMA BatchCounted ==
  ASSUME NEW T, IsFiniteSet(T), NEW r, NEW k \in Nat
  PROVE  LET Batch == {r} \X (1 .. k)
         IN  /\ IsFiniteSet(T \cup Batch)
             /\ Cardinality(T) \in Nat /\ Cardinality(T \cup Batch) \in Nat
             /\ Cardinality(T \cup Batch) <= Cardinality(T) + k
             /\ T \cap Batch = {} => Cardinality(T \cup Batch) = Cardinality(T) + k
<1> DEFINE Batch == {r} \X (1 .. k)
<1>1. IsFiniteSet(Batch) /\ Cardinality(Batch) = k
  BY BatchSize
<1>2. Cardinality(T) \in Nat
  BY FS_CardinalityType
<1> HIDE DEF Batch
<1>3. /\ IsFiniteSet(T \cup Batch)
      /\ Cardinality(T \cup Batch) = Cardinality(T) + k - Cardinality(T \cap Batch)
  BY <1>1, <1>2, FS_Union
<1>4. Cardinality(T \cup Batch) \in Nat
  BY <1>3, FS_CardinalityType
<1>5. Cardinality(T \cap Batch) \in Nat
  <2>1. IsFiniteSet(T \cap Batch)
    BY FS_Subset
  <2> QED
    BY <2>1, FS_CardinalityType
<1>6. T \cap Batch = {} => Cardinality(T \cap Batch) = 0
  BY FS_EmptySet
<1> QED
  BY <1>2, <1>3, <1>4, <1>5, <1>6 DEF Batch

LEMMA AuditedFinite ==
  ASSUME TypeOK, NEW rs \in SUBSET RunIds
  PROVE  IsFiniteSet(Audited(rs)) /\ Cardinality(Audited(rs)) \in Nat
<1> DEFINE part == [r \in rs |-> {r} \X (1 .. runs[r].accepted)]
           parts == {{r} \X (1 .. runs[r].accepted) : r \in rs}
<1>1. IsFiniteSet(rs)
  BY ConstantsAssumption, FS_Subset
<1>2. part \in Surjection(rs, parts)
  BY DEF Surjection
<1>3. IsFiniteSet(parts)
  BY <1>1, <1>2, FS_Surjection
<1>4. ASSUME NEW r \in rs
      PROVE  IsFiniteSet({r} \X (1 .. runs[r].accepted))
  <2>1. runs[r].accepted \in Nat
    BY DEF TypeOK, Run
  <2> QED
    BY <2>1, BatchSize
<1>5. IsFiniteSet(Audited(rs))
  BY <1>3, <1>4, FS_UNION DEF Audited
<1> QED
  BY <1>5, FS_CardinalityType

(* What every step does to the pool and to the audited questions, whatever  *)
(* the lease: nothing is added except by a commit, which adds as many       *)
(* questions to the pool as its run may claim from then on.                 *)
NothingAudited ==
  /\ UNCHANGED pool
  /\ \A r \in RunIds :
       \/ runs'[r].accepted = 0
       \/ runs'[r].accepted = runs[r].accepted /\ runs'[r].node = runs[r].node

BatchAudited(r, k) ==
  LET n == runs[r].node
  IN  /\ n \in Nodes /\ runs'[r].node = n
      /\ runs'[r].accepted \in {runs[r].accepted, k}
      /\ \A t \in RunIds \ {r} : runs'[t] = runs[t] \/ runs'[t].accepted = 0
      /\ pool' = [pool EXCEPT ![n] = WithBatch(pool[n], k)]

LEMMA CommitAudited ==
  ASSUME WellTyped, NEW w \in Workers, CommitWork(w) \/ CommitWorkAndFollow(w)
  PROVE  wk[w].run \in RunIds /\ wk[w].batch \in Nat /\ BatchAudited(wk[w].run, wk[w].batch)
<1> DEFINE r == wk[w].run
           k == wk[w].batch
           new == NewRun(wk[w].seen.node, wk[w].version,
                         FollowPriority(wk[w].seen.priority), wk[w].follow)
<1>1. /\ wk[w].pc = "closing"
      /\ pool' = [pool EXCEPT ![wk[w].seen.node] = WithBatch(pool[wk[w].seen.node], k)]
  BY DEF CommitWork, CommitWorkAndFollow
<1>2. r \in RunIds /\ k \in Nat /\ wk[w].seen.node = runs[r].node /\ runs[r].node \in Nodes
  BY <1>1 DEF WellTyped, TypeOK, Worker, WorkersScoped, Holding
<1>3. /\ CompletedRow(w).node = runs[r].node
      /\ CompletedRow(w).accepted \in {runs[r].accepted, k}
  BY <1>2, CompletedRowFacts DEF WellTyped
<1>4. new.accepted = 0
  BY DEF NewRun, NoRun
<1> HIDE DEF new
<1>5. CASE CommitWork(w)
  <2>1. runs'[r] = CompletedRow(w) /\ \A t \in RunIds \ {r} : runs'[t] = runs[t]
    BY <1>2, <1>5 DEF CommitWork, WellTyped, TypeOK
  <2> QED
    BY <1>1, <1>2, <1>3, <2>1 DEF BatchAudited
<1>6. CASE CommitWorkAndFollow(w)
  <2>1. PICK s \in RunIds : /\ runs[s].status = "absent"
                            /\ runs' = [runs EXCEPT ![r] = CompletedRow(w), ![s] = new]
    BY <1>6 DEF CommitWorkAndFollow, new
  <2>2. s # r
    BY <1>1, <2>1 DEF WellTyped, WorkersScoped, Holding, RowExists
  <2>3. /\ runs'[r] = CompletedRow(w) /\ runs'[s] = new
        /\ \A t \in RunIds \ {r, s} : runs'[t] = runs[t]
    BY <1>2, <2>1, <2>2 DEF WellTyped, TypeOK
  <2> QED
    BY <1>1, <1>2, <1>3, <1>4, <2>3 DEF BatchAudited
<1> QED
  BY <1>2, <1>5, <1>6

SomeBatchAudited == \E r \in RunIds, k \in Nat : BatchAudited(r, k)

LEMMA StepAudited ==
  ASSUME WellTyped, [Next]_vars
  PROVE  NothingAudited \/ RunsRemoved \/ SomeBatchAudited
<1>1. CASE UNCHANGED <<runs, pool>>
  BY <1>1 DEF NothingAudited
<1>2. ASSUME NEW q \in Requests, ReqCommit(q)
      PROVE  NothingAudited
  <2>1. \A n, v, p, k : NewRun(n, v, p, k).accepted = 0
    BY DEF NewRun, NoRun
  <2> QED
    BY <1>2, <2>1 DEF ReqCommit, NothingAudited, WellTyped, TypeOK
<1>3. ASSUME NEW w \in Workers, NEW r \in RunIds, Claim(w, r)
      PROVE  NothingAudited
  <2>1. ClaimedRow(runs[r]).accepted = runs[r].accepted /\ ClaimedRow(runs[r]).node = runs[r].node
    BY DEF ClaimedRow, WellTyped, TypeOK, Run
  <2> QED
    BY <1>3, <2>1 DEF Claim, NothingAudited, WellTyped, TypeOK
<1>4. ASSUME NEW w \in Workers, CommitWork(w) \/ CommitWorkAndFollow(w)
      PROVE  SomeBatchAudited
  BY <1>4, CommitAudited DEF SomeBatchAudited
<1>5. ASSUME NEW w \in Workers, FailWrite(w)
      PROVE  NothingAudited
  <2>1. wk[w].run \in RunIds /\ UNCHANGED pool
    BY <1>5 DEF FailWrite, WellTyped, WorkersScoped, Holding
  <2>2. /\ FailedRow(w).accepted = runs[wk[w].run].accepted
        /\ FailedRow(w).node = runs[wk[w].run].node
    BY <2>1, FailedRowFacts DEF WellTyped
  <2> QED
    BY <1>5, <2>1, <2>2 DEF FailWrite, NothingAudited, WellTyped, TypeOK
<1>6. ASSUME NEW r \in RunIds, LeaseExpires(r)
      PROVE  NothingAudited
  BY <1>6 DEF LeaseExpires, NothingAudited, WellTyped, TypeOK, Run
<1>7. ASSUME NEW n \in Nodes, DeleteNode(n)
      PROVE  RunsRemoved
  BY <1>7 DEF DeleteNode, RunsRemoved
<1>8. ASSUME NEW q \in Requests, RequestStep(q) \/ \E n \in Nodes : ReqLoad(q, n)
      PROVE  UNCHANGED <<runs, pool>> \/ NothingAudited
  BY <1>2, <1>8, RequestWrites
<1>9. ASSUME NEW w \in Workers, WorkerStep(w) \/ Poll(w) \/ Crash(w)
      PROVE  UNCHANGED <<runs, pool>> \/ NothingAudited \/ SomeBatchAudited
  BY <1>3, <1>4, <1>5, <1>9, WorkerWrites
<1>10. \/ UNCHANGED <<runs, pool>>
       \/ \E q \in Requests : RequestStep(q) \/ \E n \in Nodes : ReqLoad(q, n)
       \/ \E w \in Workers : WorkerStep(w) \/ Poll(w) \/ Crash(w)
       \/ \E r \in RunIds : LeaseExpires(r)
       \/ \E n \in Nodes : DeleteNode(n)
  BY DEF Next, EditPoints, vars
<1> QED
  BY <1>1, <1>6, <1>7, <1>8, <1>9, <1>10

(* AuditNeverOverstates counts completed runs only.  That is not inductive: *)
(* without the lease a late failure may requeue a completed run and a late  *)
(* success complete it again.  What is, counts every run of the unit.       *)
Covered == \A n \in Nodes : Cardinality(Audited(RunsOf(n))) <= pool[n].current

LEMMA CoveredInit == Init => Covered
<1> SUFFICES ASSUME Init, NEW n \in Nodes
             PROVE  Cardinality(Audited(RunsOf(n))) <= pool[n].current
  BY DEF Covered
<1>1. Audited(RunsOf(n)) = {}
  BY DEF Init, NoRun, Audited, RunsOf
<1>2. pool[n].current = 0
  BY DEF Init
<1> QED
  BY <1>1, <1>2, FS_EmptySet

(* Runs that leave the unit, or lose their questions, only lessen the sum. *)
LEMMA AuditedShrinks ==
  ASSUME NEW n \in Nodes,
         \A r \in RunIds : runs'[r].node = n =>
           \/ runs'[r].accepted = 0
           \/ runs'[r].accepted = runs[r].accepted /\ runs[r].node = n
  PROVE  Audited(RunsOf(n))' \subseteq Audited(RunsOf(n))
<1> SUFFICES ASSUME NEW r \in RunIds, runs'[r].node = n, NEW i \in 1 .. runs'[r].accepted
             PROVE  runs[r].node = n /\ i \in 1 .. runs[r].accepted
  BY DEF Audited, RunsOf
<1>1. i \notin 1 .. 0
  OBVIOUS
<1> QED
  BY <1>1

LEMMA CoveredStep == WellTyped /\ Covered /\ [Next]_vars => Covered'
<1> SUFFICES ASSUME WellTyped, Covered, [Next]_vars, NEW n \in Nodes
             PROVE  Cardinality(Audited(RunsOf(n))') <= pool'[n].current
  BY DEF Covered
<1> DEFINE before == Audited(RunsOf(n))
           after == Audited(RunsOf(n))'
<1>1. TypeOK /\ TypeOK'
  BY WellTypedStep DEF WellTyped
<1>2. IsFiniteSet(before) /\ Cardinality(before) \in Nat
  BY <1>1, AuditedFinite DEF RunsOf
<1>3. pool[n].current \in Nat /\ pool'[n].current \in Nat
  BY <1>1 DEF TypeOK, Pool
<1>4. Cardinality(before) <= pool[n].current
  BY DEF Covered
<1>5. ASSUME after \subseteq before, pool'[n].current = pool[n].current
      PROVE  Cardinality(after) <= pool'[n].current
  <2> HIDE DEF before, after
  <2>1. Cardinality(after) \in Nat /\ Cardinality(after) <= Cardinality(before)
    BY <1>2, <1>5, FS_Subset, FS_CardinalityType
  <2> QED
    BY <1>2, <1>3, <1>4, <1>5, <2>1
<1>6. CASE NothingAudited
  <2>1. after \subseteq before
    BY <1>6, AuditedShrinks DEF NothingAudited
  <2> QED
    BY <1>5, <1>6, <2>1 DEF NothingAudited
<1>7. CASE RunsRemoved
  <2>1. PICK m \in Nodes :
          /\ \A r \in RunIds : runs'[r] = IF runs[r].node = m THEN [NoRun EXCEPT !.status = "deleted"]
                                         ELSE runs[r]
          /\ pool' = [pool EXCEPT ![m] = [curated |-> 0, legacy |-> 0, current |-> 0]]
    BY <1>7 DEF RunsRemoved
  <2>2. [NoRun EXCEPT !.status = "deleted"].accepted = 0
    BY DEF NoRun
  <2>3. after \subseteq before
    BY <2>1, <2>2, AuditedShrinks
  <2>4. CASE m = n
    <3>1. \A r \in RunIds : runs'[r].node = n => runs'[r].accepted = 0
      BY <2>1, <2>2, <2>4
    <3>2. after = {}
      BY <3>1 DEF Audited, RunsOf
    <3> QED
      BY <1>3, <3>2, FS_EmptySet
  <2>5. CASE m # n
    BY <1>1, <1>5, <2>1, <2>3, <2>5 DEF TypeOK
  <2> QED
    BY <2>4, <2>5
<1>8. CASE SomeBatchAudited
  <2>1. PICK r \in RunIds, k \in Nat : BatchAudited(r, k)
    BY <1>8 DEF SomeBatchAudited
  <2>2. CASE runs[r].node = n
    <3>1. pool'[n].current = pool[n].current + k
      BY <1>1, <2>1, <2>2 DEF BatchAudited, WithBatch, TypeOK
    <3>2. after \subseteq before \cup {r} \X (1 .. k)
      BY <2>1, <2>2 DEF BatchAudited, Audited, RunsOf
    <3> DEFINE more == before \cup {r} \X (1 .. k)
    <3>3. /\ IsFiniteSet(more) /\ Cardinality(more) \in Nat
          /\ Cardinality(more) <= Cardinality(before) + k
      BY <1>2, BatchCounted
    <3> HIDE DEF before, after, more
    <3>4. Cardinality(after) \in Nat /\ Cardinality(after) <= Cardinality(more)
      BY <3>2, <3>3, FS_Subset, FS_CardinalityType DEF more
    <3>5. Cardinality(after) <= pool'[n].current
      BY <1>2, <1>3, <1>4, <3>1, <3>3, <3>4
    <3> QED
      BY <3>5 DEF after
  <2>3. CASE runs[r].node # n
    <3>1. pool'[n].current = pool[n].current
      BY <1>1, <2>1, <2>3 DEF BatchAudited, TypeOK
    <3>2. after \subseteq before
      BY <2>1, <2>3, AuditedShrinks DEF BatchAudited
    <3> QED
      BY <1>5, <3>1, <3>2
  <2> QED
    BY <2>2, <2>3
<1> QED
  BY <1>6, <1>7, <1>8, StepAudited

(* Whatever the lease and however often a run is completed, failed, requeued  *)
(* and completed again, a unit has the questions its completed runs claim.  *)
THEOREM AuditIsCovered == Spec => []AuditNeverOverstates
<1>1. Init => WellTyped /\ Covered
  BY WellTypedInit, CoveredInit
<1>2. WellTyped /\ Covered /\ [Next]_vars => (WellTyped /\ Covered)'
  BY WellTypedStep, CoveredStep
<1>3. WellTyped /\ Covered => AuditNeverOverstates
  <2> SUFFICES ASSUME WellTyped, Covered, NEW n \in live
               PROVE  Cardinality(Audited(CompletedRuns(n))) <= pool[n].current
    BY DEF AuditNeverOverstates
  <2>1. TypeOK /\ n \in Nodes
    BY DEF WellTyped, TypeOK
  <2>2. IsFiniteSet(Audited(RunsOf(n))) /\ Cardinality(Audited(RunsOf(n))) \in Nat
    BY <2>1, AuditedFinite DEF RunsOf
  <2>3. Audited(CompletedRuns(n)) \subseteq Audited(RunsOf(n))
    BY DEF Audited, CompletedRuns
  <2>4. /\ Cardinality(Audited(CompletedRuns(n))) \in Nat
        /\ Cardinality(Audited(CompletedRuns(n))) <= Cardinality(Audited(RunsOf(n)))
    BY <2>2, <2>3, FS_Subset, FS_CardinalityType
  <2>5. pool[n].current \in Nat
    BY <2>1 DEF TypeOK, Pool
  <2> QED
    BY <2>1, <2>2, <2>4, <2>5 DEF Covered
<1> QED
  BY <1>1, <1>2, <1>3, PTL DEF Spec

-----------------------------------------------------------------------------
(* With leases that cover the work a run is completed once, by a worker     *)
(* that has seen its row, and the account is exact.                         *)
Exact == \A n \in Nodes : pool[n].current = Cardinality(Audited(CompletedRuns(n)))

LEMMA ExactInit == Init => Exact
<1> SUFFICES ASSUME Init, NEW n \in Nodes
             PROVE  pool[n].current = Cardinality(Audited(CompletedRuns(n)))
  BY DEF Exact
<1>1. Audited(CompletedRuns(n)) = {}
  BY DEF Init, NoRun, Audited, CompletedRuns, RunsOf
<1>2. pool[n].current = 0
  BY DEF Init
<1> QED
  BY <1>1, <1>2, FS_EmptySet

(* The same runs, or none of them, are completed with the same questions.   *)
LEMMA SameAudit ==
  ASSUME NEW n \in Nodes,
         \A r \in RunIds :
           /\ r \in CompletedRuns(n)' <=> r \in CompletedRuns(n)
           /\ r \in CompletedRuns(n) => runs'[r].accepted = runs[r].accepted
  PROVE  Audited(CompletedRuns(n))' = Audited(CompletedRuns(n))
<1>1. CompletedRuns(n)' = CompletedRuns(n)
  BY DEF CompletedRuns, RunsOf
<1> QED
  BY <1>1 DEF Audited, CompletedRuns, RunsOf

LEMMA ExactStep == Safe /\ Exact /\ [Next]_vars => Exact'
<1> SUFFICES ASSUME Safe, Exact, [Next]_vars, NEW n \in Nodes
             PROVE  pool'[n].current = Cardinality(Audited(CompletedRuns(n))')
  BY DEF Exact
<1> DEFINE before == Audited(CompletedRuns(n))
           after == Audited(CompletedRuns(n))'
<1>1. TypeOK /\ pool \in [Nodes -> Pool]
  BY DEF Safe, WellTyped, TypeOK
<1>2. IsFiniteSet(before)
  BY <1>1, AuditedFinite DEF CompletedRuns, RunsOf
<1>3. pool[n].current = Cardinality(before)
  BY DEF Exact
<1>4. CASE SameJobs
  BY <1>3, <1>4, SameAudit DEF SameJobs, CompletedRuns, RunsOf, Active
<1>5. CASE RunsInserted
  <2>1. after = before
    BY <1>5, SameAudit DEF RunsInserted, CompletedRuns, RunsOf
  <2> QED
    BY <1>3, <1>5, <2>1 DEF RunsInserted
<1>6. CASE RunAbandoned
  <2>1. after = before
    BY <1>6, SameAudit DEF RunAbandoned, CompletedRuns, RunsOf, Active
  <2> QED
    BY <1>3, <1>6, <2>1 DEF RunAbandoned
<1>7. CASE RunsRemoved
  <2>1. PICK m \in Nodes :
          /\ \A r \in RunIds : runs'[r] = IF runs[r].node = m THEN [NoRun EXCEPT !.status = "deleted"]
                                         ELSE runs[r]
          /\ pool' = [pool EXCEPT ![m] = [curated |-> 0, legacy |-> 0, current |-> 0]]
    BY <1>7 DEF RunsRemoved
  <2>2. [NoRun EXCEPT !.status = "deleted"].status = "deleted"
    BY DEF NoRun
  <2>3. CASE m = n
    <3>1. CompletedRuns(n)' = {}
      BY <2>1, <2>2, <2>3 DEF CompletedRuns, RunsOf
    <3>2. after = {}
      BY <3>1 DEF Audited
    <3> QED
      BY <1>1, <2>1, <2>3, <3>2, FS_EmptySet
  <2>4. CASE m # n
    <3>1. after = before
      BY <2>1, <2>2, <2>4, SameAudit DEF CompletedRuns, RunsOf
    <3> QED
      BY <1>1, <1>3, <2>1, <2>4, <3>1
  <2> QED
    BY <2>3, <2>4
<1>8. CASE \E r \in RunIds, k \in MinPublishable .. MaxItems : RunDelivered(r, k)
  <2>1. PICK r \in RunIds, k \in MinPublishable .. MaxItems : RunDelivered(r, k)
    BY <1>8
  <2>2. k \in Nat /\ runs[r].status \in Active
    BY <2>1, ConstantTypes DEF RunDelivered
  <2>3. \A t \in RunIds \ {r} : \/ runs'[t] = runs[t]
                                \/ runs[t].status = "absent" /\ runs'[t].status = "queued"
    BY <2>1 DEF RunDelivered
  <2>4. CASE runs[r].node = n
    <3>1. pool'[n].current = pool[n].current + k
      BY <1>1, <2>1, <2>4 DEF RunDelivered, WithBatch, Pool
    <3>2. CompletedRuns(n)' = CompletedRuns(n) \cup {r} /\ r \notin CompletedRuns(n)
      BY <2>1, <2>2, <2>3, <2>4 DEF RunDelivered, CompletedRuns, RunsOf, Active
    <3>3. \A t \in CompletedRuns(n) : runs'[t].accepted = runs[t].accepted
      BY <2>2, <2>3 DEF CompletedRuns, RunsOf, Active
    <3>4. runs'[r].accepted = k
      BY <2>1 DEF RunDelivered
    <3>5. after = before \cup {r} \X (1 .. k)
      BY <3>2, <3>3, <3>4 DEF Audited
    <3>6. before \cap ({r} \X (1 .. k)) = {}
      BY <3>2 DEF Audited
    <3>7. Cardinality(after) = Cardinality(before) + k
      <4> HIDE DEF before, after
      <4> QED
        BY <1>2, <2>2, <3>5, <3>6, BatchCounted
    <3> QED
      BY <1>3, <3>1, <3>7
  <2>5. CASE runs[r].node # n
    <3>1. pool'[n] = pool[n]
      BY <1>1, <2>1, <2>5 DEF RunDelivered
    <3>2. after = before
      BY <2>1, <2>3, <2>5, SameAudit DEF RunDelivered, CompletedRuns, RunsOf
    <3> QED
      BY <1>3, <3>1, <3>2
  <2> QED
    BY <2>4, <2>5
<1> QED
  BY <1>4, <1>5, <1>6, <1>7, <1>8, StepOnRuns

(* Every published batch is accounted for by exactly one completed run: none  *)
(* is published twice, and none by a run that has failed or goes on.        *)
THEOREM AuditIsExact == ASSUME LeaseCoversWork PROVE Spec => []AuditMatchesPool
<1>1. Init => Exact
  BY ExactInit
<1>2. Safe /\ Exact /\ [Next]_vars => Exact'
  BY ExactStep
<1>3. Safe /\ Exact => AuditMatchesPool
  BY DEF Safe, WellTyped, TypeOK, Exact, AuditMatchesPool
<1> QED
  BY <1>1, <1>2, <1>3, AlwaysSafe, PTL DEF Spec

=============================================================================
