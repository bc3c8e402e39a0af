------------------------ MODULE ExpressionLabProofs ------------------------
(***************************************************************************)
(* Proofs about ExpressionLab, for every set of actions, requests and      *)
(* background tasks.  The inductive invariant says what each open          *)
(* transaction may assume of the committed rows because of the row locks   *)
(* it holds; every commit leaves these assumptions of the others alone.    *)
(***************************************************************************)
EXTENDS ExpressionLab, TLAPS

-----------------------------------------------------------------------------
(* The inductive invariant.                                                *)

(* Places where a transaction holds no lock and plans no write.            *)
Quiet == {"idle", "unused", "queued", "failed", "marking", "finished"}

(* A session somebody has locked exists.                                   *)
LockedExists(t) == t.lock # "none" => Exists

LockHeld(t) ==
  /\ t.pc \in {"generating", "writing", "reworking", "answering"} => t.lock = "exclusive"
  /\ t.pc \in Quiet => t.lock = "none"

(* The row in hand is not settled, and stays as it was found.              *)
RowInHand(t) ==
  /\ t.pc \in {"loaded", "applying", "recording"} => t.on \in Actions
  /\ t.pc \in {"applying", "recording"} => Executable(action[t.on])

(* Until then nothing but that row is planned.                             *)
Untouched(t) ==
  t.pc \in {"loaded", "applying"} =>
    t.out = None /\ \A a \in Actions : a # t.on => t.plan[a] = None

(* A request settles its own action and only plans practice rows besides.  *)
OutcomePlanned(t) ==
  t.pc = "recording" =>
    /\ t.plan[t.on] \in {"applied", "dismissed", "failed"}
    /\ \A a \in Lasting : a # t.on => t.plan[a] = None
    /\ \A a \in Actions : t.plan[a] # "applying"
    /\ t.out \in {"completed", None}
    /\ t.out # None => t.lock = "update"

(* A generation reopens unsettled rows and supersedes pending ones, as     *)
(* they still are.                                                         *)
RewritePlanned(t) ==
  t.pc = "writing" =>
    \A a \in Actions :
      /\ t.plan[a] \in {"pending", "superseded", None}
      /\ t.plan[a] = "pending" => action[a] \in {"absent", "failed", "superseded"}
      /\ t.plan[a] = "superseded" => action[a] = "pending"

OutcomeOfTask(x, t) == x \in Tasks /\ t.pc = "writing" => t.out \in {"ready", "error"}

Graded(t) == t.pc = "answering" => session = "ready"

Good(x, t) ==
  /\ LockedExists(t) /\ LockHeld(t) /\ RowInHand(t) /\ Untouched(t) /\ OutcomePlanned(t)
  /\ RewritePlanned(t) /\ OutcomeOfTask(x, t) /\ Graded(t)

LockUnique ==
  \A x, y \in Actors : x # y /\ tx[x].lock # "none" => tx[y].lock = "none"

RowUnique ==
  \A x, y \in Actors : \A a \in Actions : x # y /\ HoldsRow(x, a) => ~HoldsRow(y, a)

(* In every table no row is left applying.                                 *)
NoneApplying == \A a \in Actions : action[a] # "applying"

Transactions == (\A x \in Actors : Good(x, tx[x])) /\ LockUnique /\ RowUnique

IInv ==
  TypeOK /\ Transactions /\ NoneApplying /\ EffectsMatchActions /\ GeneratingIsAttended

-----------------------------------------------------------------------------
(* Records.                                                                *)

(* A transaction at one of its resting places is well-typed and good.      *)
LEMMA AtType == \A pc \in Pc : At(pc) \in Tx
  BY LabAssumption DEF At, Tx, Pc

LEMMA AtFields ==
  ASSUME NEW pc \in Pc
  PROVE  /\ At(pc).pc = pc /\ At(pc).on = None /\ At(pc).may = FALSE
         /\ At(pc).lock = "none" /\ At(pc).out = None
         /\ At(pc).plan = [a \in Actions |-> None]
  BY DEF At

LEMMA QuietGood ==
  ASSUME NEW x \in Actors, NEW p \in Quiet
  PROVE  Good(x, At(p)) /\ At(p).lock = "none" /\ At(p).pc \notin {"applying", "recording"}
  BY DEF At, Good, LockedExists, LockHeld, Quiet, RowInHand, OutcomePlanned,
         RewritePlanned, OutcomeOfTask, Graded, Untouched

LEMMA QuietPc == Quiet \subseteq Pc
  BY DEF Quiet, Pc

(* The rewriting of rows by a generation has the type of a plan.           *)
LEMMA MaterializedType ==
  ASSUME NEW x, NEW P, NEW B
  PROVE  Materialized(x, P, B) \in [Actions -> ActionStatus \cup {None}]
  BY DEF Materialized, ActionStatus

LEMMA WrittenType ==
  ASSUME TypeOK, NEW x \in Actors
  PROVE  Written(x) \in [Actions -> ActionStatus]
  BY DEF Written, TypeOK, Tx

-----------------------------------------------------------------------------
(* A step of one transaction that leaves the tables alone.                 *)
LEMMA LocalStep ==
  ASSUME IInv, NEW x \in Actors, NEW u \in Tx,
         tx' = [tx EXCEPT ![x] = u],
         UNCHANGED <<session, action, effect, attempts, crashed>>,
         Good(x, u),
         u.lock # "none" => tx[x].lock # "none" \/ SessionFree(x),
         \A a \in Actions :
           u.on = a /\ u.pc \in {"applying", "recording"} => HoldsRow(x, a) \/ RowFree(x, a),
         session = "generating" /\ x \in Tasks /\ InFlight(x) => u.pc \notin {"unused", "finished"}
  PROVE  IInv'
<1>1. tx \in [Actors -> Tx] BY DEF IInv, TypeOK
<1>2. tx'[x] = u /\ \A y \in Actors \ {x} : tx'[y] = tx[y] BY <1>1
<1>3. TypeOK'
  <2>1. tx' \in [Actors -> Tx] BY <1>1
  <2> QED BY <2>1 DEF IInv, TypeOK
<1>4. \A y \in Actors : Good(y, tx[y])'
  BY <1>2 DEF IInv, Transactions, Good, LockedExists, LockHeld, Quiet, RowInHand, OutcomePlanned,
              RewritePlanned, OutcomeOfTask, Graded, Untouched, Exists
<1>5. LockUnique'
  BY <1>2 DEF IInv, Transactions, LockUnique, SessionFree
<1>6. RowUnique'
  BY <1>2 DEF IInv, Transactions, RowUnique, RowFree, HoldsRow
<1>7. GeneratingIsAttended'
  BY <1>2 DEF IInv, GeneratingIsAttended, InFlight, Actors
<1>8. (NoneApplying /\ EffectsMatchActions)'
  BY DEF IInv, NoneApplying, EffectsMatchActions
<1> QED BY <1>3, <1>4, <1>5, <1>6, <1>7, <1>8 DEF IInv, Transactions

(* What a commit may not do to a transaction that goes on.                 *)
Unharmed(y) ==
  /\ tx[y].lock = "exclusive" => session' = session /\ action' = action
  /\ tx[y].lock # "none" => Exists'
  /\ \A a \in Actions : HoldsRow(y, a) => action'[a] = action[a]

(* A commit, or a crash: some transactions come to rest, the others are    *)
(* not harmed.                                                             *)
LEMMA Settle ==
  ASSUME IInv,
         \A y \in Actors : \/ \E p \in Quiet : tx'[y] = At(p)
                           \/ tx'[y] = tx[y] /\ Unharmed(y)
  PROVE  Transactions'
<1>1. \A y \in Actors : Good(y, tx[y]) /\ tx[y] \in Tx
  BY DEF IInv, Transactions, TypeOK
<1>2. ASSUME NEW y \in Actors, NEW p \in Quiet, tx'[y] = At(p)
      PROVE  Good(y, tx[y])' /\ tx'[y].lock = "none" /\ tx'[y].pc \notin {"applying", "recording"}
  BY <1>2 DEF At, Good, LockedExists, LockHeld, Quiet, RowInHand, OutcomePlanned,
              RewritePlanned, OutcomeOfTask, Graded, Untouched
<1>3. ASSUME NEW y \in Actors, tx'[y] = tx[y], Unharmed(y)
      PROVE  Good(y, tx[y])'
  <2>1. (/\ LockedExists(tx[y]) /\ LockHeld(tx[y]) /\ Untouched(tx[y])
        /\ OutcomePlanned(tx[y]) /\ OutcomeOfTask(y, tx[y]))'
    BY <1>1, <1>3 DEF Unharmed, Good, LockedExists, LockHeld, Quiet, OutcomePlanned, OutcomeOfTask, Untouched
  <2>2. RowInHand(tx[y])'
    BY <1>1, <1>3 DEF Unharmed, Good, RowInHand, HoldsRow, Executable
  <2>3. (RewritePlanned(tx[y]) /\ Graded(tx[y]))'
    BY <1>1, <1>3 DEF Unharmed, Good, LockHeld, Quiet, RewritePlanned, Graded
  <2> QED BY <2>1, <2>2, <2>3 DEF Good
<1>4. \A y \in Actors : Good(y, tx[y])' BY <1>2, <1>3
<1>5. \A y \in Actors : /\ tx'[y].lock # "none" => tx[y].lock # "none"
                        /\ \A a \in Actions : HoldsRow(y, a)' => HoldsRow(y, a)
  BY <1>2 DEF HoldsRow
<1>6. LockUnique'
  <2> SUFFICES ASSUME NEW y \in Actors, NEW z \in Actors, y # z, tx'[y].lock # "none",
                      tx'[z].lock # "none"
               PROVE  FALSE
    BY DEF LockUnique
  <2> QED BY <1>5 DEF IInv, Transactions, LockUnique
<1>7. RowUnique'
  <2> SUFFICES ASSUME NEW y \in Actors, NEW z \in Actors, NEW a \in Actions, y # z,
                      HoldsRow(y, a)', HoldsRow(z, a)'
               PROVE  FALSE
    BY DEF RowUnique
  <2> QED BY <1>5 DEF IInv, Transactions, RowUnique
<1> QED BY <1>4, <1>6, <1>7 DEF Transactions

-----------------------------------------------------------------------------
(* Local steps.                                                            *)

(* Coming to rest without a write: a refusal, a rollback, nothing to do.   *)
LEMMA Rest ==
  ASSUME IInv, NEW x \in Actors, NEW p \in Quiet,
         tx' = [tx EXCEPT ![x] = At(p)],
         UNCHANGED <<session, action, effect, attempts, crashed>>,
         session = "generating" /\ x \in Tasks /\ InFlight(x) => p \notin {"unused", "finished"}
  PROVE  IInv'
<1>1. At(p) \in Tx BY AtType, QuietPc
<1>2. At(p).pc = p BY QuietPc, AtFields
<1>3. Good(x, At(p)) /\ At(p).lock = "none" /\ At(p).pc \notin {"applying", "recording"}
  BY QuietGood
<1> QED BY <1>1, <1>2, <1>3, LocalStep

LEMMA RestingSteps ==
  ASSUME IInv, NEW x \in Actors
  PROVE  /\ x \in Tasks /\ (BeginMissing(x) \/ GenerationFails(x) \/ LoadFailed(x)) => IInv'
         /\ x \in Requests /\ Abort(x) => IInv'
<1>1. CASE x \in Tasks /\ BeginMissing(x)
  BY <1>1, Rest DEF BeginMissing, Quiet, Exists
<1>2. CASE x \in Tasks /\ GenerationFails(x)
  BY <1>2, Rest DEF GenerationFails, Quiet
<1>3. CASE x \in Tasks /\ LoadFailed(x)
  <2> DEFINE p == IF StillGenerating THEN "marking" ELSE "finished"
  <2>1. p \in Quiet BY DEF Quiet
  <2>2. session = "generating" => p = "marking" BY DEF StillGenerating
  <2>3. tx' = [tx EXCEPT ![x] = At(p)] /\ UNCHANGED <<session, action, effect, attempts, crashed>>
    BY <1>3 DEF LoadFailed
  <2> HIDE DEF p
  <2> QED BY <2>1, <2>2, <2>3, Rest
<1>4. CASE x \in Requests /\ Abort(x)
  BY <1>4, Rest, LabAssumption DEF Abort, Quiet
<1> QED BY <1>1, <1>2, <1>3, <1>4

(* Taking the session's row FOR UPDATE.                                    *)
LEMMA LockingSteps ==
  ASSUME IInv, NEW x \in Actors, NEW p \in {"generating", "reworking", "answering"},
         tx[x].pc \in {"queued", "idle"}, Exists, SessionFree(x),
         tx' = [tx EXCEPT ![x] = [At(p) EXCEPT !.lock = "exclusive"]],
         UNCHANGED <<session, action, effect, attempts, crashed>>,
         p = "answering" => session = "ready"
  PROVE  IInv'
<1> DEFINE u == [At(p) EXCEPT !.lock = "exclusive"]
<1>0. p \in Pc BY DEF Pc
<1>1. u \in Tx /\ u.pc = p /\ u.lock = "exclusive"
  <2> DEFINE v == At(p)
  <2>1. v \in Tx /\ v.pc = p BY <1>0, AtType, AtFields
  <2> HIDE DEF v
  <2>2. [v EXCEPT !.lock = "exclusive"] \in Tx BY <2>1 DEF Tx
  <2>3. [v EXCEPT !.lock = "exclusive"].pc = p BY <2>1 DEF Tx
  <2>4. [v EXCEPT !.lock = "exclusive"].lock = "exclusive" BY <2>1 DEF Tx
  <2> QED BY <2>2, <2>3, <2>4 DEF v
<1>2. Good(x, u)
  BY <1>1 DEF Good, LockedExists, LockHeld, Quiet, RowInHand, OutcomePlanned, RewritePlanned,
              OutcomeOfTask, Graded, Untouched
<1>3. tx' = [tx EXCEPT ![x] = u] OBVIOUS
<1> HIDE DEF u
<1> QED BY <1>1, <1>2, <1>3, LocalStep

LEMMA LockingActions ==
  ASSUME IInv, NEW x \in Actors
  PROVE  Begin(x) \/ Rework(x) \/ Answer(x) => IInv'
BY LockingSteps DEF Begin, Rework, Answer, Exists

(* Planning the rewriting of rows, under the exclusive lock.               *)
LEMMA RewritingSteps ==
  ASSUME IInv, NEW x \in Actors, NEW P, NEW B, NEW out \in SessionStatus \cup {None},
         tx[x].pc \in {"generating", "reworking"},
         x \in Tasks => out \in {"ready", "error"},
         NEW u, u = [tx[x] EXCEPT !.pc = "writing", !.out = out, !.plan = Materialized(x, P, B)],
         tx' = [tx EXCEPT ![x] = u],
         UNCHANGED <<session, action, effect, attempts, crashed>>
  PROVE  IInv'
<1>1. tx[x] \in Tx /\ Good(x, tx[x]) BY DEF IInv, TypeOK, Transactions
<1>2. Materialized(x, P, B) \in [Actions -> ActionStatus \cup {None}] BY MaterializedType
<1>3. /\ u.pc = "writing" /\ u.on = tx[x].on /\ u.may = tx[x].may /\ u.lock = tx[x].lock
      /\ u.plan = Materialized(x, P, B) /\ u.out = out
  BY <1>1 DEF Tx
<1>4. u \in Tx
  BY <1>1, <1>2 DEF Tx, Pc, SessionStatus
<1>5. \A a \in Actions : /\ u.plan[a] \in {"pending", "superseded", None}
                         /\ u.plan[a] = "pending" => action[a] \in {"absent", "failed", "superseded"}
                         /\ u.plan[a] = "superseded" => action[a] = "pending"
  BY <1>3, LabAssumption DEF Materialized
<1>6. Good(x, u)
  BY <1>1, <1>3, <1>5 DEF Good, LockedExists, LockHeld, Quiet, RowInHand, OutcomePlanned, RewritePlanned,
              OutcomeOfTask, Graded, Untouched
<1> QED BY <1>1, <1>3, <1>4, <1>6, LocalStep DEF Good, LockHeld, Quiet

LEMMA RewritingActions ==
  ASSUME IInv, NEW x \in Actors
  PROVE  (x \in Tasks /\ Generate(x)) \/ (x \in Requests /\ Reworked(x)) => IInv'
<1>0. tx[x] \in Tx /\ tx \in [Actors -> Tx] BY DEF IInv, TypeOK
<1>1. CASE x \in Tasks /\ Generate(x)
  <2>1. PICK P \in FullProposals, out \in {"ready", "error"} :
          tx' = [tx EXCEPT ![x].pc = "writing", ![x].out = out,
                           ![x].plan = Materialized(x, P, Actions)]
    BY <1>1 DEF Generate
  <2>2. tx' = [tx EXCEPT ![x] = [tx[x] EXCEPT !.pc = "writing", !.out = out,
                                              !.plan = Materialized(x, P, Actions)]]
    BY <2>1
  <2>3. out \in SessionStatus /\ out \in {"ready", "error"} BY DEF SessionStatus
  <2>4. tx[x].pc = "generating" /\ UNCHANGED <<session, action, effect, attempts, crashed>>
    BY <1>1 DEF Generate
  <2> HIDE DEF Materialized
  <2> QED BY <2>2, <2>3, <2>4, RewritingSteps
<1>2. CASE x \in Requests /\ Reworked(x)
  <2>1. PICK P \in SUBSET BlockIds, B \in SUBSET BlockIds :
          tx' = [tx EXCEPT ![x].pc = "writing", ![x].plan = Materialized(x, P, B)]
    BY <1>2 DEF Reworked
  <2>2. tx' = [tx EXCEPT ![x] = [tx[x] EXCEPT !.pc = "writing", !.plan = Materialized(x, P, B)]]
    BY <2>1
  <2>3. [tx[x] EXCEPT !.pc = "writing", !.plan = Materialized(x, P, B)]
         = [tx[x] EXCEPT !.pc = "writing", !.out = tx[x].out, !.plan = Materialized(x, P, B)]
    BY <1>0 DEF Tx
  <2>4. tx[x].pc = "reworking" /\ UNCHANGED <<session, action, effect, attempts, crashed>>
    BY <1>2 DEF Reworked
  <2>5. tx[x].out \in SessionStatus \cup {None} BY <1>0 DEF Tx
  <2>6. x \notin Tasks BY <1>2, LabAssumption
  <2> QED BY <2>2, <2>3, <2>4, <2>5, <2>6, RewritingSteps
<1> QED BY <1>1, <1>2

(* Loading the session of an action.                                       *)
LEMMA LoadKeeps ==
  ASSUME IInv, NEW x \in Requests, NEW a \in Actions, Load(x, a)
  PROVE  IInv'
<1> DEFINE m == Kind[a] = "complete" /\ session # "generating"
           u == [At("loaded") EXCEPT !.on = a, !.may = m]
<1>1. /\ u.pc = "loaded" /\ u.on = a /\ u.may = m /\ u.lock = "none" /\ u.out = None
      /\ u.plan = [b \in Actions |-> None]
  BY DEF At
<1>2. u \in Tx BY LabAssumption DEF At, Tx, Pc
<1>3. tx' = [tx EXCEPT ![x] = u] /\ UNCHANGED <<session, action, effect, attempts, crashed>>
  BY DEF Load
<1>4. x \in Actors /\ x \notin Tasks BY LabAssumption DEF Actors
<1> HIDE DEF u
<1>5. Good(x, u)
  BY <1>1, <1>4 DEF Good, LockedExists, LockHeld, Quiet, RowInHand, OutcomePlanned, RewritePlanned,
                    OutcomeOfTask, Graded, Untouched
<1> QED BY <1>1, <1>2, <1>3, <1>4, <1>5, LocalStep

(* Taking the action's row.                                                *)
LEMMA ApplyingKeeps ==
  ASSUME IInv, NEW x \in Requests, LockAction(x)
  PROVE  IInv'
<1> DEFINE u == [tx[x] EXCEPT !.pc = "applying", !.plan[tx[x].on] = "applying"]
<1>1. tx[x] \in Tx /\ Good(x, tx[x]) /\ x \in Actors /\ x \notin Tasks
  BY LabAssumption DEF Actors, IInv, TypeOK, Transactions
<1>2. tx[x].pc = "loaded" /\ tx[x].on \in Actions /\ RowFree(x, tx[x].on)
      /\ Executable(action[tx[x].on])
  BY <1>1 DEF LockAction, Locked, Good, RowInHand
<1>3. u \in Tx BY <1>1, <1>2 DEF Tx, Pc, ActionStatus
<1>4. /\ u.pc = "applying" /\ u.on = tx[x].on /\ u.lock = tx[x].lock /\ u.out = tx[x].out
      /\ u.plan = [tx[x].plan EXCEPT ![tx[x].on] = "applying"]
  BY <1>1 DEF Tx
<1>5. tx' = [tx EXCEPT ![x] = u] /\ UNCHANGED <<session, action, effect, attempts, crashed>>
  BY <1>1 DEF LockAction
<1> HIDE DEF u
<1>6. Good(x, u)
  BY <1>1, <1>2, <1>4, <1>3 DEF Tx, Good, LockedExists, LockHeld, Quiet, RowInHand, OutcomePlanned,
                          RewritePlanned, OutcomeOfTask, Graded, Untouched
<1> QED BY <1>1, <1>2, <1>3, <1>4, <1>5, <1>6, LocalStep

(* A request that has decided what becomes of its action.                  *)
LEMMA RecordingSteps ==
  ASSUME IInv, NEW x \in Requests, NEW u \in Tx,
         tx[x].pc \in {"loaded", "applying"},
         tx[x].pc = "loaded" => RowFree(x, tx[x].on) /\ Executable(action[tx[x].on]),
         tx' = [tx EXCEPT ![x] = u],
         UNCHANGED <<session, action, effect, attempts, crashed>>,
         u.pc = "recording", u.on = tx[x].on, OutcomePlanned(u),
         u.lock = tx[x].lock \/ (u.lock = "update" /\ SessionFree(x) /\ Exists)
  PROVE  IInv'
<1>1. Good(x, tx[x]) /\ x \in Actors /\ x \notin Tasks
  BY LabAssumption DEF Actors, IInv, Transactions
<1>2. u.on \in Actions /\ Executable(action[u.on])
  BY <1>1 DEF Good, RowInHand
<1>3. HoldsRow(x, u.on) \/ RowFree(x, u.on) BY DEF HoldsRow
<1>4. Good(x, u)
  BY <1>1, <1>2 DEF Good, LockedExists, LockHeld, Quiet, RowInHand, RewritePlanned, OutcomeOfTask, Graded, Untouched
<1> QED BY ZenonT(60), <1>1, <1>3, <1>4, LocalStep

LEMMA ExecuteKeeps ==
  ASSUME IInv, NEW x \in Requests, Execute(x)
  PROVE  IInv'
<1>1. PICK status \in {"failed", "applied", "dismissed"} :
        tx' = [tx EXCEPT ![x].pc = "recording", ![x].plan[tx[x].on] = status]
  BY DEF Execute, AfterFailure
<1> DEFINE u == [tx[x] EXCEPT !.pc = "recording", !.plan[tx[x].on] = status]
<1>2. tx[x] \in Tx /\ Good(x, tx[x]) /\ x \in Actors
  BY DEF Actors, IInv, TypeOK, Transactions
<1>3. tx[x].pc = "loaded" /\ tx[x].on \in Actions /\ RowFree(x, tx[x].on)
      /\ Executable(action[tx[x].on])
  BY <1>2 DEF Execute, Locked, Good, RowInHand
<1>4. u \in Tx BY <1>2, <1>3 DEF Tx, Pc, ActionStatus
<1>5. /\ u.pc = "recording" /\ u.on = tx[x].on /\ u.lock = tx[x].lock /\ u.out = tx[x].out
      /\ u.plan = [tx[x].plan EXCEPT ![tx[x].on] = status]
  BY <1>2 DEF Tx
<1>6. tx' = [tx EXCEPT ![x] = u] /\ UNCHANGED <<session, action, effect, attempts, crashed>>
  <2>1. UNCHANGED <<session, action, effect, attempts, crashed>> BY DEF Execute
  <2>2. tx' = [tx EXCEPT ![x] = u] BY <1>1, <1>2
  <2> QED BY <2>1, <2>2
<1> HIDE DEF u
<1>7. OutcomePlanned(u)
  BY <1>1, <1>2, <1>3, <1>5, LabAssumption DEF Good, Untouched, OutcomePlanned, Tx, Lasting
<1> QED BY <1>2, <1>3, <1>4, <1>5, <1>6, <1>7, RecordingSteps

LEMMA ActionFailsKeeps ==
  ASSUME IInv, NEW x \in Requests, ActionFails(x)
  PROVE  IInv'
<1> DEFINE u == [tx[x] EXCEPT !.pc = "recording", !.may = FALSE, !.plan[tx[x].on] = "failed"]
<1>1. tx[x] \in Tx /\ Good(x, tx[x]) /\ x \in Actors
  BY DEF Actors, IInv, TypeOK, Transactions
<1>2. tx[x].pc = "applying" /\ tx[x].on \in Actions
  BY <1>1 DEF ActionFails, Good, RowInHand
<1>3. u \in Tx BY <1>1, <1>2 DEF Tx, Pc, ActionStatus
<1>4. /\ u.pc = "recording" /\ u.on = tx[x].on /\ u.lock = tx[x].lock /\ u.out = tx[x].out
      /\ u.plan = [tx[x].plan EXCEPT ![tx[x].on] = "failed"]
  BY <1>1 DEF Tx
<1>5. tx' = [tx EXCEPT ![x] = u] /\ UNCHANGED <<session, action, effect, attempts, crashed>>
  BY <1>1 DEF ActionFails, AfterFailure
<1> HIDE DEF u
<1>6. OutcomePlanned(u)
  BY <1>1, <1>2, <1>4, LabAssumption DEF Good, Untouched, OutcomePlanned, Tx, Lasting
<1> QED BY <1>1, <1>2, <1>3, <1>4, <1>5, <1>6, RecordingSteps

LEMMA MarkCompletedKeeps ==
  ASSUME IInv, NEW x \in Requests, MarkCompleted(x)
  PROVE  IInv'
<1> DEFINE u == [tx[x] EXCEPT !.pc = "recording", !.may = FALSE, !.lock = "update",
                              !.out = "completed", !.plan[tx[x].on] = "applied"]
<1>1. tx[x] \in Tx /\ Good(x, tx[x]) /\ x \in Actors
  BY DEF Actors, IInv, TypeOK, Transactions
<1>2. tx[x].pc = "applying" /\ tx[x].on \in Actions
  BY <1>1 DEF MarkCompleted, Good, RowInHand
<1>3. u \in Tx BY <1>1, <1>2 DEF Tx, Pc, ActionStatus, SessionStatus
<1>4. /\ u.pc = "recording" /\ u.on = tx[x].on /\ u.lock = "update" /\ u.out = "completed"
      /\ u.plan = [tx[x].plan EXCEPT ![tx[x].on] = "applied"]
  BY <1>1 DEF Tx
<1>5. /\ tx' = [tx EXCEPT ![x] = u] /\ UNCHANGED <<session, action, effect, attempts, crashed>>
      /\ SessionFree(x) /\ Exists
  <2>1. tx' = [tx EXCEPT ![x] = u] BY DEF MarkCompleted
  <2> HIDE DEF u
  <2> QED BY <2>1 DEF MarkCompleted
<1> HIDE DEF u
<1>6. OutcomePlanned(u)
  BY <1>1, <1>2, <1>4, LabAssumption DEF Good, Untouched, OutcomePlanned, Tx, Lasting
<1> QED BY <1>1, <1>2, <1>3, <1>4, <1>5, <1>6, RecordingSteps

LEMMA CreatePracticeKeeps ==
  ASSUME IInv, NEW x \in Requests, CreatePractice(x)
  PROVE  IInv'
<1>1. PICK P \in SUBSET PracticeIds :
        tx' = [tx EXCEPT ![x].pc = "recording", ![x].may = FALSE, ![x].lock = "update",
                 ![x].plan = [Materialized(x, P, {}) EXCEPT ![tx[x].on] = "applied"]]
  BY DEF CreatePractice
<1> DEFINE M == Materialized(x, P, {})
           u == [tx[x] EXCEPT !.pc = "recording", !.may = FALSE, !.lock = "update",
                              !.plan = [M EXCEPT ![tx[x].on] = "applied"]]
<1>2. tx[x] \in Tx /\ Good(x, tx[x]) /\ x \in Actors
  BY DEF Actors, IInv, TypeOK, Transactions
<1>3. /\ tx[x].pc = "applying" /\ tx[x].on \in Actions /\ SessionFree(x) /\ Exists
      /\ UNCHANGED <<session, action, effect, attempts, crashed>>
  BY <1>2 DEF CreatePractice, Good, RowInHand
<1>4. M \in [Actions -> ActionStatus \cup {None}] BY MaterializedType
<1>5. \A a \in Actions : M[a] \in {"pending", None} /\ (a \notin PracticeIds => M[a] = None)
  BY DEF Materialized
<1> HIDE DEF M
<1>6. u \in Tx BY <1>2, <1>3, <1>4 DEF Tx, Pc, ActionStatus
<1>7. /\ u.pc = "recording" /\ u.on = tx[x].on /\ u.lock = "update" /\ u.out = tx[x].out
      /\ u.plan = [M EXCEPT ![tx[x].on] = "applied"]
  BY <1>2 DEF Tx
<1>8. tx' = [tx EXCEPT ![x] = u] BY <1>1, <1>2 DEF M
<1> HIDE DEF u
<1>9. OutcomePlanned(u)
  BY <1>2, <1>3, <1>4, <1>5, <1>7, LabAssumption DEF Good, Untouched, OutcomePlanned, Lasting
<1> QED BY <1>2, <1>3, <1>6, <1>7, <1>8, <1>9, RecordingSteps

-----------------------------------------------------------------------------
(* Commits.                                                                *)

(* What one transaction commits, when it is allowed to.                    *)
LEMMA CommitOfOne ==
  ASSUME IInv, NEW x \in Actors, NEW p \in Quiet,
         tx' = [tx EXCEPT ![x] = At(p)],
         \A y \in Actors \ {x} : Unharmed(y)
  PROVE  Transactions' /\ tx' \in [Actors -> Tx]
<1>1. tx \in [Actors -> Tx] /\ At(p) \in Tx BY AtType, QuietPc DEF IInv, TypeOK
<1>2. tx'[x] = At(p) /\ \A y \in Actors \ {x} : tx'[y] = tx[y] BY <1>1
<1>3. Transactions' BY <1>2, Settle
<1> QED BY <1>1, <1>3

(* No lock is held by anybody else: none of the others is harmed by        *)
(* whatever becomes of the session, as long as the rows stay.              *)
LEMMA FreeIsUnharmed ==
  ASSUME NEW x \in Actors, SessionFree(x), UNCHANGED action
  PROVE  \A y \in Actors \ {x} : Unharmed(y)
BY DEF SessionFree, Unharmed

LEMMA StartKeeps ==
  ASSUME IInv, NEW x \in Requests, Create(x) \/ Retry(x)
  PROVE  IInv'
<1>1. PICK t \in Tasks : tx[t].pc = "unused" /\ tx' = [tx EXCEPT ![t] = At("queued")]
  BY DEF Create, Retry
<1>2. session' = "generating" /\ crashed' = FALSE /\ UNCHANGED <<action, effect, attempts>>
  BY DEF Create, Retry
<1>3. t \in Actors /\ x \in Actors /\ t \in Tasks /\ "queued" \in Quiet BY DEF Actors, Quiet
<1>4. \A y \in Actors : Good(y, tx[y]) /\ (tx[y].lock # "none" => Exists)
  BY DEF IInv, Transactions, Good, LockedExists
<1>5. \A y \in Actors : tx[y].lock = "none"
  <2>1. CASE Create(x) BY <1>4, <2>1 DEF Create, Exists
  <2>2. CASE Retry(x)
    <3>1. tx[x].lock = "none"
      BY <1>3, <2>2 DEF Retry, IInv, Transactions, Good, LockHeld, Quiet
    <3> QED BY <2>2, <3>1 DEF Retry, SessionFree
  <2> QED BY <2>1, <2>2
<1>6. \A y \in Actors \ {t} : Unharmed(y) BY <1>2, <1>5 DEF Unharmed
<1>7. Transactions' /\ tx' \in [Actors -> Tx] BY <1>1, <1>3, <1>6, CommitOfOne
<1>8. TypeOK' BY <1>2, <1>7 DEF IInv, TypeOK, SessionStatus
<1>9. NoneApplying' BY <1>2 DEF IInv, NoneApplying
<1>10. EffectsMatchActions'
  <2>1. session # "deleted" BY DEF Create, Retry
  <2> QED BY <1>2, <2>1 DEF IInv, EffectsMatchActions
<1>11. GeneratingIsAttended'
  <2>1. tx'[t] = At("queued") BY <1>1, <1>3 DEF IInv, TypeOK
  <2>2. tx'[t].pc = "queued" BY <2>1 DEF At
  <2> QED BY <2>2 DEF GeneratingIsAttended, InFlight
<1> QED BY <1>7, <1>8, <1>9, <1>10, <1>11 DEF IInv

(* The others' rows and locks while one commits under the exclusive lock.  *)
LEMMA WriterIsHarmless ==
  ASSUME IInv, NEW x \in Actors, tx[x].pc = "writing", PlanFree(x),
         action' = Written(x), Exists'
  PROVE  \A y \in Actors \ {x} : Unharmed(y)
<1>1. tx[x].lock = "exclusive" BY DEF IInv, Transactions, Good, LockHeld, Quiet
<1>2. \A y \in Actors \ {x} : tx[y].lock = "none" BY <1>1 DEF IInv, Transactions, LockUnique
<1> QED BY <1>2 DEF Unharmed, PlanFree, RowFree, Written

(* A generation turns pending rows and unsettled rows into each other.     *)
LEMMA WriterUnsettled ==
  ASSUME IInv, NEW x \in Actors, tx[x].pc = "writing", NEW a \in Actions
  PROVE  /\ Written(x)[a] # "applying"
         /\ \/ Written(x)[a] = action[a]
            \/ {Written(x)[a], action[a]} \cap {"applied", "dismissed", "applying"} = {}
<1>1. RewritePlanned(tx[x]) /\ action[a] # "applying"
  BY DEF IInv, Transactions, Good, NoneApplying
<1>2. Written(x)[a] = IF tx[x].plan[a] # None THEN tx[x].plan[a] ELSE action[a]
  BY DEF Written
<1>3. /\ tx[x].plan[a] \in {"pending", "superseded", None}
      /\ tx[x].plan[a] = "pending" => action[a] \in {"absent", "failed", "superseded"}
      /\ tx[x].plan[a] = "superseded" => action[a] = "pending"
  BY <1>1 DEF RewritePlanned
<1> QED BY <1>1, <1>2, <1>3

LEMMA WriterKeeps ==
  ASSUME IInv, NEW x \in Actors, NEW p \in {"idle", "finished"},
         tx[x].pc = "writing", PlanFree(x),
         session' \in {"ready", "error"},
         action' = Written(x),
         tx' = [tx EXCEPT ![x] = At(p)],
         UNCHANGED <<effect, attempts, crashed>>
  PROVE  IInv'
<1>1. Exists' BY DEF Exists
<1>2. Transactions' /\ tx' \in [Actors -> Tx]
  BY <1>1, WriterIsHarmless, CommitOfOne DEF Quiet
<1>3. TypeOK' BY <1>2, WrittenType DEF IInv, TypeOK, SessionStatus
<1>4. NoneApplying' BY WriterUnsettled DEF NoneApplying
<1>5. EffectsMatchActions'
  <2>1. Exists BY DEF IInv, Transactions, Good, LockedExists, LockHeld, Quiet
  <2>2. \A a \in Lasting : action'[a] # "applying" /\ (action'[a] = "applied" <=> action[a] = "applied")
    BY WriterUnsettled DEF Lasting
  <2> QED BY <2>1, <2>2 DEF IInv, EffectsMatchActions, Exists
<1>6. GeneratingIsAttended' BY DEF GeneratingIsAttended
<1> QED BY <1>2, <1>3, <1>4, <1>5, <1>6 DEF IInv

LEMMA WritingActions ==
  ASSUME IInv, NEW x \in Actors
  PROVE  CommitGeneration(x) \/ CommitRework(x) => IInv'
<1>1. CASE CommitGeneration(x)
  <2>1. tx[x].out \in {"ready", "error"}
    BY <1>1 DEF CommitGeneration, IInv, Transactions, Good, OutcomeOfTask
  <2> QED BY <1>1, <2>1, WriterKeeps DEF CommitGeneration
<1>2. CASE CommitRework(x)
  BY <1>2, WriterKeeps DEF CommitRework
<1> QED BY <1>1, <1>2

(* What a request commits for its own action and for the others.           *)
LEMMA OutcomeWritten ==
  ASSUME IInv, NEW r \in Requests, CommitAction(r)
  PROVE  /\ tx[r].on \in Actions
         /\ action[tx[r].on] \notin {"absent", "applied", "dismissed"}
         /\ action'[tx[r].on] = tx[r].plan[tx[r].on]
         /\ action'[tx[r].on] \in {"applied", "dismissed", "failed"}
         /\ \A a \in Lasting : a # tx[r].on => action'[a] = action[a]
         /\ \A a \in Actions : action'[a] # "applying"
<1>1. Good(r, tx[r]) /\ tx[r].pc = "recording" /\ r \in Actors
  BY DEF CommitAction, IInv, Transactions, Actors
<1>2. tx[r].on \in Actions /\ Executable(action[tx[r].on])
  BY <1>1 DEF Good, RowInHand
<1>3. /\ tx[r].plan[tx[r].on] \in {"applied", "dismissed", "failed"}
      /\ \A a \in Lasting : a # tx[r].on => tx[r].plan[a] = None
      /\ \A a \in Actions : tx[r].plan[a] # "applying"
  BY <1>1 DEF Good, OutcomePlanned
<1>4. \A a \in Actions :
        action'[a] = IF tx[r].plan[a] # None THEN tx[r].plan[a] ELSE action[a]
  BY DEF CommitAction, Written
<1>5. tx[r].plan[tx[r].on] # None BY <1>3, LabAssumption
<1> QED BY <1>2, <1>3, <1>4, <1>5 DEF Executable, Lasting, IInv, NoneApplying

LEMMA CommitActionKeeps ==
  ASSUME IInv, NEW r \in Requests, CommitAction(r)
  PROVE  IInv'
<1>1. /\ r \in Actors /\ r \notin Tasks /\ tx[r] \in Tx /\ Good(r, tx[r])
      /\ tx[r].pc = "recording"
  BY LabAssumption DEF Actors, IInv, TypeOK, Transactions, CommitAction
<1>2. /\ EventAllowed(r) /\ PlanFree(r) /\ action' = Written(r)
      /\ session' = IF tx[r].out # None THEN tx[r].out ELSE session
      /\ tx' = [tx EXCEPT ![r] = At("idle")] /\ UNCHANGED <<attempts, crashed>>
  BY DEF CommitAction
<1>3. session' = "completed" \/ session' = session
  BY <1>1, <1>2 DEF Good, OutcomePlanned
<1>4. Exists /\ Exists' BY <1>2, <1>3 DEF EventAllowed, Exists
<1>5. \A y \in Actors \ {r} : Unharmed(y)
  BY <1>2, <1>4 DEF Unharmed, EventAllowed, PlanFree, RowFree, Written
<1>6. Transactions' /\ tx' \in [Actors -> Tx]
  BY <1>1, <1>2, <1>5, CommitOfOne DEF Quiet
<1>7. effect' \in [Actions -> Nat]
  <2>1. effect \in [Actions -> Nat] /\ tx[r].on \in Actions
    BY OutcomeWritten DEF IInv, TypeOK
  <2>2. [effect EXCEPT ![tx[r].on] = @ + 1] \in [Actions -> Nat] BY <2>1
  <2> QED BY <2>1, <2>2 DEF CommitAction
<1>8. TypeOK' BY <1>1, <1>2, <1>3, <1>6, <1>7, WrittenType DEF IInv, TypeOK, SessionStatus
<1>9. NoneApplying' BY OutcomeWritten DEF NoneApplying
<1>10. EffectsMatchActions'
  <2>1. effect' = IF tx[r].plan[tx[r].on] = "applied"
                    THEN [effect EXCEPT ![tx[r].on] = @ + 1] ELSE effect
    BY DEF CommitAction
  <2>2. effect \in [Actions -> Nat] BY DEF IInv, TypeOK
  <2>3. ASSUME NEW a \in Lasting
        PROVE  /\ action'[a] # "applying" /\ effect'[a] <= 1
               /\ effect'[a] = 1 <=> action'[a] = "applied"
    <3>1. a \in Actions /\ effect[a] <= 1 /\ (effect[a] = 1 <=> action[a] = "applied")
      BY <1>4 DEF Lasting, IInv, EffectsMatchActions, Exists
    <3>2. CASE a = tx[r].on
      <4>1. effect[a] = 0 BY <2>2, <3>1, <3>2, OutcomeWritten
      <4> QED BY <2>1, <2>2, <3>1, <3>2, <4>1, OutcomeWritten
    <3>3. CASE a # tx[r].on
      BY <2>1, <2>2, <3>1, <3>3, OutcomeWritten
    <3> QED BY <3>2, <3>3
  <2> QED BY <2>3 DEF EffectsMatchActions
<1>11. GeneratingIsAttended'
  <2>1. \A t \in Tasks : tx'[t] = tx[t] BY <1>1, <1>2 DEF IInv, TypeOK, Actors
  <2> QED BY <1>2, <1>3, <2>1 DEF IInv, GeneratingIsAttended, InFlight
<1> QED BY <1>6, <1>8, <1>9, <1>10, <1>11 DEF IInv

LEMMA MarkErrorKeeps ==
  ASSUME IInv, NEW t \in Tasks, MarkError(t)
  PROVE  IInv'
<1>1. /\ t \in Actors /\ SessionFree(t) /\ tx' = [tx EXCEPT ![t] = At("finished")]
      /\ session' = (IF Exists THEN "error" ELSE session)
      /\ UNCHANGED <<action, effect, attempts, crashed>>
  BY DEF MarkError, Actors
<1>2. Transactions' /\ tx' \in [Actors -> Tx]
  BY <1>1, FreeIsUnharmed, CommitOfOne DEF Quiet
<1>3. session' # "generating" BY <1>1 DEF Exists
<1> QED BY <1>1, <1>2, <1>3 DEF IInv, TypeOK, SessionStatus, NoneApplying, EffectsMatchActions,
                               GeneratingIsAttended, Exists

LEMMA CommitAnswerKeeps ==
  ASSUME IInv, NEW r \in Requests, CommitAnswer(r)
  PROVE  IInv'
<1>1. /\ r \in Actors /\ r \notin Tasks /\ tx' = [tx EXCEPT ![r] = At("idle")]
      /\ attempts' = attempts + 1 /\ attempts < MaxAttempts
      /\ UNCHANGED <<session, action, effect, crashed>>
  BY LabAssumption DEF CommitAnswer, Actors
<1>2. \A y \in Actors : Good(y, tx[y]) BY DEF IInv, Transactions
<1>3. \A y \in Actors \ {r} : Unharmed(y)
  BY <1>1, <1>2 DEF Unharmed, Good, LockedExists, Exists
<1>4. Transactions' /\ tx' \in [Actors -> Tx] BY <1>1, <1>3, CommitOfOne DEF Quiet
<1>5. \A t \in Tasks : tx'[t] = tx[t] BY <1>1 DEF IInv, TypeOK, Actors
<1>6. attempts' \in 0..MaxAttempts BY <1>1, LabAssumption DEF IInv, TypeOK
<1> QED BY <1>1, <1>4, <1>5, <1>6 DEF IInv, TypeOK, NoneApplying, EffectsMatchActions,
                               GeneratingIsAttended, InFlight

(* The idle caller holds nothing, so that nobody holds the session.        *)
LEMMA IdleIsFree ==
  ASSUME IInv, NEW r \in Requests, tx[r].pc = "idle", SessionFree(r)
  PROVE  \A y \in Actors : tx[y].lock = "none"
BY DEF IInv, Transactions, Good, LockHeld, Quiet, SessionFree, Actors

LEMMA SessionCallsKeep ==
  ASSUME IInv, NEW r \in Requests, Complete(r) \/ Delete(r)
  PROVE  IInv'
<1>1. tx' = tx /\ tx[r].pc = "idle" /\ SessionFree(r) /\ UNCHANGED <<effect, crashed>>
  BY DEF Complete, Delete
<1>2. \A y \in Actors : tx[y].lock = "none" BY <1>1, IdleIsFree
<1>3. \A y \in Actors : \A a \in Actions : HoldsRow(y, a) => action'[a] = action[a]
  <2>1. CASE Complete(r) BY <2>1 DEF Complete
  <2>2. CASE Delete(r)
    <3>1. \A a \in Actions : ~HoldsRow(r, a) BY <1>1 DEF HoldsRow
    <3> QED BY <2>2, <3>1 DEF Delete, RowFree
  <2> QED BY <2>1, <2>2
<1>4. \A y \in Actors : Unharmed(y) BY <1>2, <1>3 DEF Unharmed
<1>5. Transactions' BY <1>1, <1>4, Settle
<1>6. CASE Complete(r)
  BY <1>1, <1>5, <1>6 DEF Complete, IInv, TypeOK, SessionStatus, NoneApplying,
                          EffectsMatchActions, GeneratingIsAttended
<1>7. CASE Delete(r)
  <2>1. /\ session' = "deleted" /\ action' = [a \in Actions |-> "absent"] /\ attempts' = 0
    BY <1>7 DEF Delete
  <2>2. TypeOK' BY <1>1, <2>1, LabAssumption DEF IInv, TypeOK, SessionStatus, ActionStatus
  <2>3. (NoneApplying /\ EffectsMatchActions /\ GeneratingIsAttended)'
    BY <1>1, <2>1 DEF IInv, NoneApplying, EffectsMatchActions, GeneratingIsAttended, Lasting
  <2> QED BY <1>5, <2>2, <2>3 DEF IInv
<1> QED BY <1>6, <1>7

LEMMA CrashKeeps ==
  ASSUME IInv, Crash
  PROVE  IInv'
<1>1. \A y \in Actors : \/ \E p \in Quiet : tx'[y] = At(p)
                        \/ tx'[y] = tx[y] /\ tx[y].pc = "unused"
  BY DEF Crash, Quiet
<1>2. UNCHANGED <<session, action, effect, attempts>> /\ crashed' = TRUE BY DEF Crash
<1>3. \A y \in Actors : Good(y, tx[y]) BY DEF IInv, Transactions
<1>4. \A y \in Actors : Unharmed(y)
  BY <1>2, <1>3 DEF Unharmed, Good, LockedExists, Exists
<1>5. Transactions' BY <1>1, <1>4, Settle
<1>6. tx' \in [Actors -> Tx]
  <2>1. \A y \in Actors : (IF y \in Requests THEN At("idle")
                           ELSE IF tx[y].pc = "unused" THEN tx[y] ELSE At("finished")) \in Tx
    BY AtType DEF IInv, TypeOK, Pc
  <2> QED BY <2>1 DEF Crash
<1> QED BY <1>2, <1>5, <1>6 DEF IInv, TypeOK, NoneApplying, EffectsMatchActions, GeneratingIsAttended

-----------------------------------------------------------------------------
(* The theorems.                                                           *)

LEMMA Initially == Init => IInv
<1> SUFFICES ASSUME Init PROVE IInv OBVIOUS
<1>1. \A x \in Actors : \E p \in Quiet : tx[x] = At(p) BY DEF Init, Quiet
<1>2. \A x \in Actors : tx[x] \in Tx /\ Good(x, tx[x]) /\ tx[x].lock = "none"
                        /\ tx[x].pc \notin {"applying", "recording"}
  BY <1>1, QuietGood, AtType, QuietPc
<1>3. Transactions BY <1>2 DEF Transactions, LockUnique, RowUnique, HoldsRow
<1>4. TypeOK
  <2>1. tx \in [Actors -> Tx] BY <1>2 DEF Init
  <2>2. attempts \in 0..MaxAttempts BY LabAssumption DEF Init
  <2>3. action \in [Actions -> ActionStatus] /\ effect \in [Actions -> Nat]
    BY DEF Init, ActionStatus
  <2> QED BY <2>1, <2>2, <2>3 DEF Init, TypeOK, SessionStatus
<1> QED BY <1>3, <1>4 DEF IInv, Init, NoneApplying, EffectsMatchActions, GeneratingIsAttended, Lasting

LEMMA StepKeeps == IInv /\ [Next]_vars => IInv'
<1> SUFFICES ASSUME IInv, [Next]_vars PROVE IInv' OBVIOUS
<1>1. ASSUME NEW r \in Requests, Call(r) PROVE IInv'
  BY <1>1, StartKeeps, LockingActions, SessionCallsKeep, LoadKeeps DEF Call, Actors
<1>2. ASSUME NEW r \in Requests, RequestStep(r) PROVE IInv'
  BY <1>2, ExecuteKeeps, ApplyingKeeps, MarkCompletedKeeps, CreatePracticeKeeps, ActionFailsKeeps,
     CommitActionKeeps, RewritingActions, WritingActions, CommitAnswerKeeps, RestingSteps
     DEF RequestStep, ActionStep, Actors
<1>3. ASSUME NEW t \in Tasks, TaskStep(t) \/ GenerationFails(t) PROVE IInv'
  BY <1>3, LockingActions, RestingSteps, RewritingActions, WritingActions, MarkErrorKeeps
     DEF TaskStep, Actors
<1>4. CASE Crash BY <1>4, CrashKeeps
<1>5. CASE UNCHANGED vars
  <2>1. \A x \in Actors : tx'[x] = tx[x] /\ Unharmed(x)
    BY <1>5 DEF vars, Unharmed, IInv, Transactions, Good, LockedExists, Exists
  <2>2. Transactions' BY <2>1, Settle
  <2> QED BY <1>5, <2>2 DEF vars, IInv, TypeOK, NoneApplying, EffectsMatchActions,
                            GeneratingIsAttended, InFlight
<1> QED BY <1>1, <1>2, <1>3, <1>4, <1>5 DEF Next

(* The inductive invariant: what every open transaction may assume of the  *)
(* committed session and actions because of its row locks.                 *)
THEOREM InvariantHolds == Spec => []IInv
  BY Initially, StepKeeps, PTL DEF Spec

(* The tables and every open transaction have their types.                 *)
THEOREM TypeCorrectness == Spec => []TypeOK
<1>1. IInv => TypeOK BY DEF IInv
<1> QED BY <1>1, InvariantHolds, PTL

(* The commit of an action, a second click on it, a generation that        *)
(* rewrites it: an action is applied exactly when it took effect, once.    *)
THEOREM ActionsTakeEffectOnce == Spec => []EffectsMatchActions
<1>1. IInv => EffectsMatchActions BY DEF IInv
<1> QED BY <1>1, InvariantHolds, PTL

(* generate_expression_lab_session_task settles its session, or queues the *)
(* failure that does, for any number of tasks and retries.                 *)
THEOREM GenerationsAreAttended == Spec => []GeneratingIsAttended
<1>1. IInv => GeneratingIsAttended BY DEF IInv
<1> QED BY <1>1, InvariantHolds, PTL

(* submit_attempt records its attempt in the ready session it graded.      *)
THEOREM AttemptsInOpenSessions == Spec => AttemptsWhileOpen
<1>1. IInv /\ [Next]_vars => [attempts' > attempts => session = "ready"]_vars
  <2> SUFFICES ASSUME IInv, Next, attempts' > attempts PROVE session = "ready"
    BY DEF vars
  <2>1. attempts \in Nat BY LabAssumption DEF IInv, TypeOK
  <2>2. PICK r \in Requests : CommitAnswer(r)
    <3>1. ASSUME NEW r \in Requests, Call(r) PROVE attempts' = attempts \/ attempts' = 0
      BY <3>1 DEF Call, Create, Retry, Rework, Answer, Complete, Delete, Load
    <3>2. ASSUME NEW r \in Requests, RequestStep(r), ~CommitAnswer(r) PROVE attempts' = attempts
      BY <3>2 DEF RequestStep, ActionStep, Execute, LockAction, MarkCompleted, CreatePractice,
                  ActionFails, CommitAction, Reworked, CommitRework, Abort
    <3>3. ASSUME NEW t \in Tasks, TaskStep(t) \/ GenerationFails(t) PROVE attempts' = attempts
      BY <3>3 DEF TaskStep, Begin, BeginMissing, Generate, CommitGeneration, LoadFailed, MarkError,
                  GenerationFails
    <3>4. ASSUME Crash PROVE attempts' = attempts BY <3>4 DEF Crash
    <3> QED BY <2>1, <3>1, <3>2, <3>3, <3>4 DEF Next
  <2> QED BY <2>2 DEF CommitAnswer, IInv, Transactions, Good, Graded, Actors
<1> QED BY <1>1, InvariantHolds, PTL DEF Spec, AttemptsWhileOpen

-----------------------------------------------------------------------------
(* The lab implements the ledger.                                          *)

LedgerEffect == [a \in Lasting |-> effect[a]]

(* A step that settles nothing and deletes nothing is a stutter.           *)
LEMMA Unsettling ==
  ASSUME UNCHANGED effect, session = "deleted" <=> session' = "deleted",
         session = "deleted" \/
           \A a \in Lasting : \/ action'[a] = action[a]
                              \/ {action'[a], action[a]} \cap {"applied", "dismissed"} = {}
  PROVE  UNCHANGED <<Standing, LedgerEffect>>
<1>1. \A a \in Lasting :
        (IF session' = "deleted" THEN "gone"
         ELSE IF action'[a] \in {"applied", "dismissed"} THEN action'[a] ELSE "open")
        = (IF session = "deleted" THEN "gone"
           ELSE IF action[a] \in {"applied", "dismissed"} THEN action[a] ELSE "open")
  OBVIOUS
<1>2. Standing' = Standing BY <1>1 DEF Standing
<1> QED BY <1>2 DEF LedgerEffect

LedgerStep == [Ledger!Next]_<<Standing, LedgerEffect>>

(* Steps that leave the actions as they are and do not delete the session. *)
LEMMA StutteringSteps ==
  ASSUME UNCHANGED <<effect, action>>, session = "deleted" <=> session' = "deleted"
  PROVE  LedgerStep
<1>1. UNCHANGED <<Standing, LedgerEffect>> BY Unsettling
<1> QED BY <1>1 DEF LedgerStep

LEMMA CallsRefine ==
  ASSUME IInv, NEW r \in Requests, Call(r)
  PROVE  LedgerStep
<1>1. CASE Delete(r)
  <2>1. session' = "deleted" /\ UNCHANGED effect BY <1>1 DEF Delete
  <2>2. Standing' = [a \in Lasting |-> "gone"] BY <2>1 DEF Standing
  <2>3. LedgerEffect' = LedgerEffect BY <2>1 DEF LedgerEffect
  <2> QED BY <2>2, <2>3 DEF LedgerStep, Ledger!Next, Ledger!Discard, LedgerEffect
<1>2. CASE Create(r) BY <1>2, StutteringSteps DEF Create
<1>3. CASE Retry(r) BY <1>3, StutteringSteps DEF Retry
<1>4. CASE Rework(r) BY <1>4, StutteringSteps DEF Rework
<1>5. CASE Answer(r) BY <1>5, StutteringSteps DEF Answer
<1>6. CASE Complete(r) BY <1>6, StutteringSteps DEF Complete
<1>7. ASSUME NEW a \in Actions, Load(r, a) PROVE LedgerStep BY <1>7, StutteringSteps DEF Load
<1> QED BY <1>1, <1>2, <1>3, <1>4, <1>5, <1>6, <1>7 DEF Call

(* The rewriting of rows is invisible, because it is planned and committed *)
(* under one exclusive lock.                                               *)
LEMMA WritersRefine ==
  ASSUME IInv, NEW x \in Actors, CommitGeneration(x) \/ CommitRework(x)
  PROVE  LedgerStep
<1>1. tx[x].pc = "writing" /\ action' = Written(x) /\ UNCHANGED effect
  BY DEF CommitGeneration, CommitRework
<1>2. session # "deleted"
  BY <1>1 DEF IInv, Transactions, Good, LockHeld, Quiet, LockedExists, Exists
<1>3. session' # "deleted"
  BY DEF CommitGeneration, CommitRework, IInv, Transactions, Good, OutcomeOfTask
<1>4. \A a \in Lasting : \/ action'[a] = action[a]
                         \/ {action'[a], action[a]} \cap {"applied", "dismissed"} = {}
  BY <1>1, WriterUnsettled DEF Lasting
<1>5. UNCHANGED <<Standing, LedgerEffect>> BY <1>1, <1>2, <1>3, <1>4, Unsettling
<1> QED BY <1>5 DEF LedgerStep

(* The commit of an action takes it or dismisses it, unless it failed.     *)
LEMMA CommitRefines ==
  ASSUME IInv, NEW r \in Requests, CommitAction(r)
  PROVE  LedgerStep
<1> DEFINE on == tx[r].on
<1>1. session # "deleted" /\ session' # "deleted"
  BY DEF CommitAction, EventAllowed, Exists, IInv, Transactions, Good, OutcomePlanned, Actors
<1>2. /\ on \in Actions /\ action[on] \notin {"absent", "applied", "dismissed"}
      /\ action'[on] = tx[r].plan[on] /\ action'[on] \in {"applied", "dismissed", "failed"}
      /\ \A a \in Lasting : a # on => action'[a] = action[a]
  BY OutcomeWritten
<1>3. effect' = IF tx[r].plan[on] = "applied" THEN [effect EXCEPT ![on] = @ + 1] ELSE effect
  BY DEF CommitAction
<1>4. effect \in [Actions -> Nat] BY DEF IInv, TypeOK
<1> HIDE DEF on
<1>5. CASE on \in Lasting /\ action'[on] = "applied"
  <2>1. Standing[on] = "open" BY <1>1, <1>2, <1>5 DEF Standing
  <2>2. Standing' = [Standing EXCEPT ![on] = "applied"] BY <1>1, <1>2, <1>5 DEF Standing
  <2>3. LedgerEffect' = [LedgerEffect EXCEPT ![on] = @ + 1]
    BY <1>2, <1>3, <1>4, <1>5 DEF LedgerEffect, Lasting
  <2> QED BY <1>5, <2>1, <2>2, <2>3 DEF LedgerStep, LedgerEffect, Ledger!Next, Ledger!Take
<1>6. CASE on \in Lasting /\ action'[on] = "dismissed"
  <2>1. Standing[on] = "open" BY <1>1, <1>2, <1>6 DEF Standing
  <2>2. Standing' = [Standing EXCEPT ![on] = "dismissed"] BY <1>1, <1>2, <1>6 DEF Standing
  <2>3. LedgerEffect' = LedgerEffect BY <1>2, <1>3, <1>6 DEF LedgerEffect
  <2> QED BY <1>6, <2>1, <2>2, <2>3 DEF LedgerStep, LedgerEffect, Ledger!Next, Ledger!Dismiss
<1>7. CASE on \notin Lasting \/ action'[on] = "failed"
  <2>1. \A a \in Lasting : \/ action'[a] = action[a]
                           \/ {action'[a], action[a]} \cap {"applied", "dismissed"} = {}
    BY <1>2, <1>7
  <2>2. Standing' = Standing BY <1>1, <2>1 DEF Standing
  <2>3. LedgerEffect' = LedgerEffect BY <1>2, <1>3, <1>4, <1>7 DEF LedgerEffect, Lasting
  <2> QED BY <2>2, <2>3 DEF LedgerStep
<1> QED BY <1>2, <1>5, <1>6, <1>7

LEMMA RequestStepsRefine ==
  ASSUME IInv, NEW r \in Requests, RequestStep(r)
  PROVE  LedgerStep
<1>1. CASE CommitAction(r) BY <1>1, CommitRefines
<1>2. CASE CommitRework(r) BY <1>2, WritersRefine DEF Actors
<1>3. CASE ~CommitAction(r) /\ ~CommitRework(r)
  BY <1>3, StutteringSteps DEF RequestStep, ActionStep, Execute, LockAction, MarkCompleted,
     CreatePractice, ActionFails, Reworked, CommitAnswer, Abort
<1> QED BY <1>1, <1>2, <1>3

LEMMA TaskStepsRefine ==
  ASSUME IInv, NEW t \in Tasks, TaskStep(t) \/ GenerationFails(t)
  PROVE  LedgerStep
<1>1. CASE CommitGeneration(t) BY <1>1, WritersRefine DEF Actors
<1>2. CASE ~CommitGeneration(t)
  BY <1>2, StutteringSteps DEF TaskStep, Begin, BeginMissing, Generate, LoadFailed, MarkError,
     GenerationFails, Exists
<1> QED BY <1>1, <1>2

(* Whatever requests, tasks and crashes do, a session's actions behave as  *)
(* the ledger says: taken or dismissed once, and gone only with it.        *)
THEOREM LabImplementsLedger == Spec => ImplementsLedger
<1>1. Init => Ledger!Init
  BY DEF Init, Ledger!Init, Standing, Lasting
<1>2. IInv /\ [Next]_vars => [Ledger!Next]_<<Standing, LedgerEffect>>
  <2> SUFFICES ASSUME IInv, [Next]_vars PROVE LedgerStep BY DEF LedgerStep
  <2>1. CASE Crash BY <2>1, StutteringSteps DEF Crash
  <2>2. CASE UNCHANGED vars BY <2>2, StutteringSteps DEF vars
  <2> QED BY <2>1, <2>2, CallsRefine, RequestStepsRefine, TaskStepsRefine DEF Next
<1> QED
  BY <1>1, <1>2, InvariantHolds, PTL DEF Spec, ImplementsLedger, Ledger!Spec, LedgerEffect

-----------------------------------------------------------------------------
(* What makes a completed session ready again: a generation still in       *)
(* flight, and nothing that a request does.                                *)

(* Every generation has ended when a session is completed.                 *)
CompletedSettled == session = "completed" => \A t \in Tasks : ~InFlight(t)

(* A request that rewrites a block holds the lock of a ready session.      *)
ReworkedReady == \A r \in Requests : tx[r].pc \in {"reworking", "writing"} => session = "ready"

LEMMA WritersOfSession ==
  ASSUME IInv, [Next]_vars, session' # session
  PROVE  \/ \E r \in Requests : Create(r) \/ Retry(r) \/ Complete(r) \/ Delete(r)
         \/ \E r \in Requests : CommitRework(r)
         \/ \E r \in Requests : CommitAction(r) /\ tx[r].out # None
         \/ \E t \in Tasks : CommitGeneration(t) \/ MarkError(t)
<1>1. ASSUME NEW r \in Requests, Call(r),
             ~Create(r), ~Retry(r), ~Complete(r), ~Delete(r)
      PROVE  session' = session
  BY <1>1 DEF Call, Rework, Answer, Load
<1>2. ASSUME NEW r \in Requests, RequestStep(r), ~CommitRework(r),
             ~(CommitAction(r) /\ tx[r].out # None)
      PROVE  session' = session
  BY <1>2 DEF RequestStep, ActionStep, Execute, LockAction, MarkCompleted, CreatePractice,
     ActionFails, CommitAction, Reworked, CommitAnswer, Abort
<1>3. ASSUME NEW t \in Tasks, TaskStep(t) \/ GenerationFails(t), ~CommitGeneration(t), ~MarkError(t)
      PROVE  session' = session
  BY <1>3 DEF TaskStep, Begin, BeginMissing, Generate, LoadFailed, GenerationFails
<1>4. CASE Crash BY <1>4 DEF Crash
<1> QED BY <1>1, <1>2, <1>3, <1>4 DEF Next, vars

(* The lock keeps the session ready while the block is rewritten.          *)
LEMMA ReworkHoldsSession ==
  ASSUME IInv, ReworkedReady, NEW r \in Requests, tx[r].pc \in {"reworking", "writing"},
         [Next]_vars, session' # session
  PROVE  CommitRework(r)
<1>1. tx[r].lock = "exclusive" /\ r \in Actors
  BY DEF IInv, Transactions, Good, LockHeld, Actors
<1>2. \A x \in Actors : x # r => tx[x].lock = "none" /\ ~SessionFree(x)
  BY <1>1 DEF IInv, Transactions, LockUnique, SessionFree
<1>3. tx[r].pc # "idle" OBVIOUS
<1>4. session = "ready" BY DEF ReworkedReady
<1>5. ASSUME NEW q \in Requests PROVE ~Create(q) /\ ~Retry(q) /\ ~Complete(q) /\ ~Delete(q)
  <2>1. CASE q = r BY <1>3, <2>1 DEF Create, Retry, Complete, Delete
  <2>2. CASE q # r BY <1>2, <1>4, <2>2 DEF Create, Retry, Complete, Delete, Actors
  <2> QED BY <2>1, <2>2
<1>6. ASSUME NEW q \in Requests, CommitRework(q) PROVE q = r
  BY <1>2, <1>6 DEF CommitRework, IInv, Transactions, Good, LockHeld, Actors
<1>7. ASSUME NEW q \in Requests, CommitAction(q), tx[q].out # None PROVE FALSE
  <2>1. tx[q].lock = "update" /\ q # r
    BY <1>7 DEF CommitAction, IInv, Transactions, Good, OutcomePlanned, Actors
  <2> QED BY <1>2, <2>1 DEF Actors
<1>8. ASSUME NEW t \in Tasks PROVE ~CommitGeneration(t) /\ ~MarkError(t)
  <2>1. t # r /\ t \in Actors BY LabAssumption DEF Actors
  <2> QED BY <1>2, <2>1 DEF CommitGeneration, MarkError, IInv, Transactions, Good, LockHeld
<1> QED BY <1>5, <1>6, <1>7, <1>8, WritersOfSession

LEMMA ReworkStepKeeps ==
  ASSUME IInv, ReworkedReady, [Next]_vars
  PROVE  ReworkedReady'
<1> SUFFICES ASSUME NEW r \in Requests, tx'[r].pc \in {"reworking", "writing"}
             PROVE  session' = "ready"
  BY DEF ReworkedReady
<1>1. tx \in [Actors -> Tx] /\ r \in Actors BY DEF IInv, TypeOK, Actors
<1>2. CASE tx[r].pc \in {"reworking", "writing"}
  <2>1. CASE session' = session BY <1>2, <2>1 DEF ReworkedReady
  <2>2. CASE session' # session
    <3>1. CommitRework(r) BY <1>2, <2>2, ReworkHoldsSession
    <3> QED BY <3>1 DEF CommitRework
  <2> QED BY <2>1, <2>2
<1>3. CASE tx[r].pc \notin {"reworking", "writing"}
  <2>1. Rework(r)
    <3>1. ASSUME NEW q \in Requests, Call(q), ~Rework(r) PROVE FALSE
      <4>1. CASE Create(q) \/ Retry(q)
        <5>1. PICK t \in Tasks : tx' = [tx EXCEPT ![t] = At("queued")] BY <4>1 DEF Create, Retry
        <5>2. t # r BY LabAssumption
        <5> QED BY <1>1, <1>3, <5>1, <5>2
      <4>2. CASE Rework(q)
        <5>1. q # r BY <3>1, <4>2
        <5> QED BY <1>1, <1>3, <4>2, <5>1 DEF Rework
      <4>3. CASE Answer(q) BY <1>1, <1>3, <4>3 DEF Answer, At
      <4>4. CASE Complete(q) \/ Delete(q) BY <1>3, <4>4 DEF Complete, Delete
      <4>5. ASSUME NEW a \in Actions, Load(q, a) PROVE FALSE BY <1>1, <1>3, <4>5 DEF Load, At
      <4> QED BY <3>1, <4>1, <4>2, <4>3, <4>4, <4>5 DEF Call
    <3>2. ASSUME NEW q \in Requests, RequestStep(q) PROVE FALSE
      <4>1. tx[r] \in Tx BY <1>1
      <4>2. CASE Execute(q)
        <5>1. PICK s : tx' = [tx EXCEPT ![q].pc = "recording", ![q].plan[tx[q].on] = s]
          BY <4>2 DEF Execute
        <5> QED BY <1>1, <1>3, <4>1, <5>1 DEF Tx
      <4>3. CASE LockAction(q) \/ ActionFails(q)
        BY <1>1, <1>3, <4>1, <4>3 DEF LockAction, ActionFails, Tx
      <4>4. CASE MarkCompleted(q) BY <1>1, <1>3, <4>1, <4>4 DEF MarkCompleted, Tx
      <4>5. CASE CreatePractice(q)
        <5>1. PICK m : tx' = [tx EXCEPT ![q].pc = "recording", ![q].may = FALSE,
                                        ![q].lock = "update", ![q].plan = m]
          BY <4>5 DEF CreatePractice
        <5> QED BY <1>1, <1>3, <4>1, <5>1 DEF Tx
      <4>6. CASE CommitAction(q) \/ CommitAnswer(q) \/ Abort(q) \/ CommitRework(q)
        BY <1>1, <1>3, <4>6 DEF CommitAction, CommitAnswer, Abort, CommitRework, At
      <4>7. CASE Reworked(q)
        <5>1. q # r BY <1>3, <4>7 DEF Reworked
        <5>2. PICK m : tx' = [tx EXCEPT ![q].pc = "writing", ![q].plan = m]
          BY <4>7 DEF Reworked
        <5> QED BY <1>1, <1>3, <5>1, <5>2
      <4> QED BY <3>2, <4>2, <4>3, <4>4, <4>5, <4>6, <4>7 DEF RequestStep, ActionStep
    <3>3. ASSUME NEW t \in Tasks, TaskStep(t) \/ GenerationFails(t) PROVE FALSE
      <4>1. t # r /\ t \in Actors BY LabAssumption DEF Actors
      <4>2. tx'[r] = tx[r]
        BY <1>1, <3>3, <4>1 DEF TaskStep, Begin, BeginMissing, Generate, CommitGeneration,
           LoadFailed, MarkError, GenerationFails
      <4> QED BY <1>3, <4>2
    <3>4. ASSUME Crash PROVE FALSE BY <1>1, <3>4 DEF Crash, At
    <3>5. ASSUME UNCHANGED vars PROVE FALSE BY <1>3, <3>5 DEF vars
    <3> QED BY <3>1, <3>2, <3>3, <3>4, <3>5 DEF Next
  <2> QED BY <2>1 DEF Rework
<1> QED BY <1>2, <1>3

(* A completed session stays completed until it is deleted as long as no   *)
(* generation is in flight at completion: that generation is the one cause *)
(* of the violated CompletedStays, none of the requests breaks it.         *)
THEOREM CompletedStaysApart == Spec /\ []CompletedSettled => CompletedStays
<1>1. Init => ReworkedReady BY DEF Init, ReworkedReady, At, Actors
<1>2. IInv /\ ReworkedReady /\ [Next]_vars => ReworkedReady' BY ReworkStepKeeps
<1>3. IInv /\ ReworkedReady /\ CompletedSettled /\ [Next]_vars
        => [session = "completed" => session' \in {"completed", "deleted"}]_vars
  <2> SUFFICES ASSUME IInv, ReworkedReady, CompletedSettled, [Next]_vars,
                      session = "completed", session' # session
               PROVE  session' = "deleted"
    OBVIOUS
  <2>1. ASSUME NEW r \in Requests, Create(r) \/ Retry(r) \/ Complete(r) \/ Delete(r)
        PROVE  session' = "deleted"
    BY <2>1 DEF Create, Retry, Complete, Delete
  <2>2. ASSUME NEW r \in Requests, CommitRework(r) PROVE FALSE
    BY <2>2 DEF CommitRework, ReworkedReady
  <2>3. ASSUME NEW r \in Requests, CommitAction(r), tx[r].out # None PROVE FALSE
    BY <2>3 DEF CommitAction, IInv, Transactions, Good, OutcomePlanned, Actors
  <2>4. ASSUME NEW t \in Tasks, CommitGeneration(t) \/ MarkError(t) PROVE FALSE
    BY <2>4 DEF CommitGeneration, MarkError, CompletedSettled, InFlight
  <2> QED BY <2>1, <2>2, <2>3, <2>4, WritersOfSession
<1> QED BY <1>1, <1>2, <1>3, InvariantHolds, PTL DEF Spec, CompletedStays

=============================================================================
