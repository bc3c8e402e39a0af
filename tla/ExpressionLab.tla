--------------------------- MODULE ExpressionLab ---------------------------
(***************************************************************************)
(* One expression lab session: the background generation of its interface, *)
(* the learning actions it offers, practice attempts, completion.          *)
(*                                                                         *)
(*   src/src/expression_lab/service.py, action_handler.py,                 *)
(*   src/src/api/expression_lab.py, src/src/models/expression_lab.py.      *)
(*                                                                         *)
(* A request is one transaction under READ COMMITTED, a background task    *)
(* another; a step is a statement that reads shared rows, waits for a row  *)
(* lock or commits.  A step that takes a lock and commits waits for it in  *)
(* its guard.  Texts, blocks, grades and events are left out.              *)
(***************************************************************************)
EXTENDS Naturals

CONSTANTS
  Actions,      \* the action ids a generation may propose
  Kind,         \* the type of each action
  BlockIds,     \* those that belong to a block, the rest to the session
  PracticeIds,  \* those that the generation of a practice may propose
  Requests,     \* HTTP requests in progress, each one call after another
  Tasks,        \* background tasks: bounds the generations ever started
  MaxAttempts,  \* bound on practice attempts
  None

ASSUME LabAssumption ==
  /\ Kind \in [Actions -> {"save", "dismiss", "practice", "complete"}]
  /\ BlockIds \subseteq Actions
  /\ PracticeIds \subseteq BlockIds
  /\ Requests \cap Tasks = {}
  /\ MaxAttempts \in Nat
  /\ None \notin Actions
  /\ None \notin {"absent", "pending", "applying", "applied", "dismissed", "failed", "superseded"}
  /\ None \notin {"none", "generating", "ready", "error", "completed", "deleted"}

VARIABLES
  session,   \* expression_lab_sessions.status
  action,    \* expression_lab_actions.status of each action id
  effect,    \* how often each action took effect
  attempts,  \* expression_lab_attempts
  crashed,   \* the process died after the last generation was queued
  tx         \* request or task -> its place, what it has read and will write

vars == <<session, action, effect, attempts, crashed, tx>>

Actors == Requests \cup Tasks

-----------------------------------------------------------------------------

(* ready stands for partial as well: no statement tells them apart.        *)
SessionStatus == {"none", "generating", "ready", "error", "completed", "deleted"}

ActionStatus ==
  {"absent", "pending", "applying", "applied", "dismissed", "failed", "superseded"}

Pc == {"idle", "loaded", "applying", "recording", "answering", "reworking",
       "unused", "queued", "generating", "writing", "failed", "marking", "finished"}

(* on: the action in hand; may: the session was completable when the       *)
(* request loaded it; lock: what it holds on the session's row; plan, out: *)
(* the statuses it will write.                                             *)
Tx == [pc : Pc, on : Actions \cup {None}, may : BOOLEAN,
       lock : {"none", "update", "exclusive"},
       plan : [Actions -> ActionStatus \cup {None}], out : SessionStatus \cup {None}]

At(pc) == [pc |-> pc, on |-> None, may |-> FALSE, lock |-> "none",
           plan |-> [a \in Actions |-> None], out |-> None]

TypeOK ==
  /\ session \in SessionStatus
  /\ action \in [Actions -> ActionStatus]
  /\ effect \in [Actions -> Nat]
  /\ attempts \in 0..MaxAttempts
  /\ crashed \in BOOLEAN
  /\ tx \in [Actors -> Tx]

Init ==
  /\ session = "none"
  /\ action = [a \in Actions |-> "absent"]
  /\ effect = [a \in Actions |-> 0]
  /\ attempts = 0
  /\ crashed = FALSE
  /\ tx = [x \in Actors |-> At(IF x \in Requests THEN "idle" ELSE "unused")]

-----------------------------------------------------------------------------
(* Row locks.                                                              *)

Exists == session \notin {"none", "deleted"}

(* Faulty variants carry their slip in their name; no action uses them.    *)
SessionFree_Unlocked(x) == TRUE

(* SELECT ... FOR UPDATE and UPDATE of the session's row.                  *)
SessionFree(x) == \A y \in Actors \ {x} : tx[y].lock = "none"

EventAllowed_NoForeignKey(x) == Exists

(* INSERT of an event: its foreign key takes the session's row FOR KEY     *)
(* SHARE, which waits for FOR UPDATE but not for an UPDATE.                *)
EventAllowed(x) == Exists /\ \A y \in Actors \ {x} : tx[y].lock # "exclusive"

HoldsRow(y, a) == tx[y].on = a /\ tx[y].pc \in {"applying", "recording"}

RowFree(x, a) == \A y \in Actors \ {x} : ~HoldsRow(y, a)

PlanFree(x) == \A a \in Actions : tx[x].plan[a] # None => RowFree(x, a)

-----------------------------------------------------------------------------
(* Starting a generation                                                   *)

(* The session is committed, then the response queues the task.            *)
Create(r) ==
  /\ tx[r].pc = "idle"
  /\ session = "none"
  /\ \E t \in Tasks : tx[t].pc = "unused" /\ tx' = [tx EXCEPT ![t] = At("queued")]
  /\ session' = "generating"
  /\ crashed' = FALSE
  /\ UNCHANGED <<action, effect, attempts>>

(* retry_generation refuses a completed session.                           *)
Retry(r) ==
  /\ tx[r].pc = "idle"
  /\ session \in {"generating", "ready", "error"}
  /\ SessionFree(r)
  /\ \E t \in Tasks : tx[t].pc = "unused" /\ tx' = [tx EXCEPT ![t] = At("queued")]
  /\ session' = "generating"
  /\ crashed' = FALSE
  /\ UNCHANGED <<action, effect, attempts>>

-----------------------------------------------------------------------------
(* _materialize_actions: P are the proposed ids, B those whose rows are    *)
(* superseded when pending and not proposed.  The session's own row, if    *)
(* any, is applying in its identity map and left alone.  The ORM writes    *)
(* only what differs from the row it read.                                 *)

Materialized(x, P, B) ==
  [a \in Actions |->
     IF a \in P /\ a # tx[x].on /\ action[a] \in {"absent", "failed", "superseded"} THEN "pending"
     ELSE IF a \in B \ P /\ action[a] = "pending" THEN "superseded"
     ELSE None]

(* _ensure_system_actions: a full generation proposes one of each kind     *)
(* that belongs to the session.                                            *)
FullProposals ==
  {P \in SUBSET Actions :
     \A k \in {"dismiss", "practice", "complete"} : \E a \in P : Kind[a] = k}

Written_Blank(x) == [a \in Actions |-> tx[x].plan[a]]

Written(x) == [a \in Actions |-> IF tx[x].plan[a] # None THEN tx[x].plan[a] ELSE action[a]]

-----------------------------------------------------------------------------
(* generate_expression_lab_session_task                                    *)

Begin(t) ==
  /\ tx[t].pc = "queued"
  /\ Exists
  /\ SessionFree(t)
  /\ tx' = [tx EXCEPT ![t] = [At("generating") EXCEPT !.lock = "exclusive"]]
  /\ UNCHANGED <<session, action, effect, attempts, crashed>>

(* The session has been deleted: both sessions of the task find nothing.   *)
BeginMissing(t) ==
  /\ tx[t].pc = "queued"
  /\ ~Exists
  /\ tx' = [tx EXCEPT ![t] = At("finished")]
  /\ UNCHANGED <<session, action, effect, attempts, crashed>>

Generate(t) ==
  /\ tx[t].pc = "generating"
  /\ \E P \in FullProposals, out \in {"ready", "error"} :
       tx' = [tx EXCEPT ![t].pc = "writing", ![t].out = out,
                        ![t].plan = Materialized(t, P, Actions)]
  /\ UNCHANGED <<session, action, effect, attempts, crashed>>

CommitGeneration(t) ==
  /\ t \in Tasks
  /\ tx[t].pc = "writing"
  /\ PlanFree(t)
  /\ session' = tx[t].out
  /\ action' = Written(t)
  /\ tx' = [tx EXCEPT ![t] = At("finished")]
  /\ UNCHANGED <<effect, attempts, crashed>>

(* An exception, or the deadlock between this task, which holds the        *)
(* session and waits for an action, and a request that does the opposite.  *)
GenerationFails(t) ==
  /\ t \in Tasks
  /\ tx[t].pc \in {"generating", "writing"}
  /\ tx' = [tx EXCEPT ![t] = At("failed")]
  /\ UNCHANGED <<session, action, effect, attempts, crashed>>

StillGenerating_Never == FALSE

StillGenerating == session = "generating"

(* The failure session reads the status without a lock ...                 *)
LoadFailed(t) ==
  /\ tx[t].pc = "failed"
  /\ tx' = [tx EXCEPT ![t] = At(IF StillGenerating THEN "marking" ELSE "finished")]
  /\ UNCHANGED <<session, action, effect, attempts, crashed>>

(* ... and writes error over whatever it is by then.                       *)
MarkError(t) ==
  /\ tx[t].pc = "marking"
  /\ SessionFree(t)
  /\ session' = IF Exists THEN "error" ELSE session
  /\ tx' = [tx EXCEPT ![t] = At("finished")]
  /\ UNCHANGED <<action, effect, attempts, crashed>>

-----------------------------------------------------------------------------
(* regenerate_block                                                        *)

Rework(r) ==
  /\ tx[r].pc = "idle"
  /\ session = "ready"
  /\ SessionFree(r)
  /\ tx' = [tx EXCEPT ![r] = [At("reworking") EXCEPT !.lock = "exclusive"]]
  /\ UNCHANGED <<session, action, effect, attempts, crashed>>

(* B are the actions of the block.                                         *)
Reworked(r) ==
  /\ tx[r].pc = "reworking"
  /\ \E P, B \in SUBSET BlockIds :
       tx' = [tx EXCEPT ![r].pc = "writing", ![r].plan = Materialized(r, P, B)]
  /\ UNCHANGED <<session, action, effect, attempts, crashed>>

CommitRework(r) ==
  /\ r \in Requests
  /\ tx[r].pc = "writing"
  /\ PlanFree(r)
  /\ session' = "ready"
  /\ action' = Written(r)
  /\ tx' = [tx EXCEPT ![r] = At("idle")]
  /\ UNCHANGED <<effect, attempts, crashed>>

-----------------------------------------------------------------------------
(* execute_action                                                          *)

(* The session is loaded without a lock; a completed one is refused.       *)
Load(r, a) ==
  /\ tx[r].pc = "idle"
  /\ session \in {"generating", "ready", "error"}
  /\ tx' = [tx EXCEPT ![r] =
              [At("loaded") EXCEPT !.on = a, !.may = Kind[a] = "complete" /\ session # "generating"]]
  /\ UNCHANGED <<session, action, effect, attempts, crashed>>

Executable_Again(status) == status \notin {"absent", "dismissed"}

(* Settled actions are answered from their row; superseded ones may still  *)
(* be executed.                                                            *)
Executable(status) == status \notin {"absent", "applied", "dismissed"}

(* SELECT the action FOR UPDATE, check it, flush it as applying.           *)
Locked(r) ==
  /\ tx[r].pc = "loaded"
  /\ RowFree(r, tx[r].on)
  /\ Executable(action[tx[r].on])

(* What the row becomes when the savepoint is rolled back.                 *)
AfterFailure == "failed"

(* A saved asset or a dismissal, in tables and columns of their own.       *)
Execute(r) ==
  /\ Locked(r)
  /\ Kind[tx[r].on] \in {"save", "dismiss"}
  /\ \E status \in {AfterFailure, IF Kind[tx[r].on] = "save" THEN "applied" ELSE "dismissed"} :
       tx' = [tx EXCEPT ![r].pc = "recording", ![r].plan[tx[r].on] = status]
  /\ UNCHANGED <<session, action, effect, attempts, crashed>>

(* The other two kinds go on to the session, with the action's row locked. *)
LockAction(r) ==
  /\ Locked(r)
  /\ Kind[tx[r].on] \in {"practice", "complete"}
  /\ tx' = [tx EXCEPT ![r].pc = "applying", ![r].plan[tx[r].on] = "applying"]
  /\ UNCHANGED <<session, action, effect, attempts, crashed>>

(* _complete on the session as it was loaded; its flush locks the row.     *)
MarkCompleted(r) ==
  /\ tx[r].pc = "applying"
  /\ Kind[tx[r].on] = "complete"
  /\ tx[r].may
  /\ Exists
  /\ SessionFree(r)
  /\ tx' = [tx EXCEPT ![r] =
              [tx[r] EXCEPT !.pc = "recording", !.may = FALSE, !.lock = "update",
                            !.out = "completed", !.plan[tx[r].on] = "applied"]]
  /\ UNCHANGED <<session, action, effect, attempts, crashed>>

(* _create_practice_action: the new UI specification is flushed before the *)
(* actions are read; the block is new, so nothing is superseded.           *)
CreatePractice(r) ==
  /\ tx[r].pc = "applying"
  /\ Kind[tx[r].on] = "practice"
  /\ Exists
  /\ SessionFree(r)
  /\ \E P \in SUBSET PracticeIds :
       tx' = [tx EXCEPT ![r].pc = "recording", ![r].may = FALSE, ![r].lock = "update",
                ![r].plan = [Materialized(r, P, {}) EXCEPT ![tx[r].on] = "applied"]]
  /\ UNCHANGED <<session, action, effect, attempts, crashed>>

(* No generation, a session that was still generating.                     *)
ActionFails(r) ==
  /\ tx[r].pc = "applying"
  /\ tx' = [tx EXCEPT ![r].pc = "recording", ![r].may = FALSE, ![r].plan[tx[r].on] = AfterFailure]
  /\ UNCHANGED <<session, action, effect, attempts, crashed>>

(* The event is inserted, then everything commits.                         *)
CommitAction(r) ==
  /\ tx[r].pc = "recording"
  /\ EventAllowed(r)
  /\ PlanFree(r)
  /\ session' = IF tx[r].out # None THEN tx[r].out ELSE session
  /\ action' = Written(r)
  /\ effect' = IF tx[r].plan[tx[r].on] = "applied"
                 THEN [effect EXCEPT ![tx[r].on] = @ + 1] ELSE effect
  /\ tx' = [tx EXCEPT ![r] = At("idle")]
  /\ UNCHANGED <<attempts, crashed>>

-----------------------------------------------------------------------------
(* submit_attempt, complete_session, delete_session                        *)

Answer(r) ==
  /\ tx[r].pc = "idle"
  /\ session = "ready"
  /\ SessionFree(r)
  /\ tx' = [tx EXCEPT ![r] = [At("answering") EXCEPT !.lock = "exclusive"]]
  /\ UNCHANGED <<session, action, effect, attempts, crashed>>

CommitAnswer(r) ==
  /\ tx[r].pc = "answering"
  /\ attempts < MaxAttempts
  /\ attempts' = attempts + 1
  /\ tx' = [tx EXCEPT ![r] = At("idle")]
  /\ UNCHANGED <<session, action, effect, crashed>>

Complete(r) ==
  /\ tx[r].pc = "idle"
  /\ session \in {"ready", "error"}
  /\ SessionFree(r)
  /\ session' = "completed"
  /\ UNCHANGED <<action, effect, attempts, crashed, tx>>

(* The actions and attempts go by ON DELETE CASCADE, what was saved stays. *)
Delete(r) ==
  /\ tx[r].pc = "idle"
  /\ Exists
  /\ SessionFree(r)
  /\ \A a \in Actions : RowFree(r, a)
  /\ session' = "deleted"
  /\ action' = [a \in Actions |-> "absent"]
  /\ attempts' = 0
  /\ UNCHANGED <<effect, crashed, tx>>

(* A refusal, an exception, a broken deadlock: the request rolls back.     *)
Abort(r) ==
  /\ tx[r].pc # "idle"
  /\ tx' = [tx EXCEPT ![r] = At("idle")]
  /\ UNCHANGED <<session, action, effect, attempts, crashed>>

(* The process dies, and with it the tasks it holds in memory.             *)
Crash ==
  /\ crashed' = TRUE
  /\ tx' = [x \in Actors |->
              IF x \in Requests THEN At("idle")
              ELSE IF tx[x].pc = "unused" THEN tx[x] ELSE At("finished")]
  /\ UNCHANGED <<session, action, effect, attempts>>

-----------------------------------------------------------------------------

ActionStep(r) ==
  \/ Execute(r) \/ LockAction(r) \/ MarkCompleted(r)
  \/ CreatePractice(r) \/ ActionFails(r) \/ CommitAction(r)

RequestStep(r) ==
  \/ ActionStep(r) \/ Reworked(r) \/ CommitRework(r) \/ CommitAnswer(r) \/ Abort(r)

Call(r) ==
  \/ Create(r) \/ Retry(r) \/ Rework(r) \/ Answer(r) \/ Complete(r) \/ Delete(r)
  \/ \E a \in Actions : Load(r, a)

TaskStep(t) ==
  \/ Begin(t) \/ BeginMissing(t) \/ Generate(t) \/ CommitGeneration(t)
  \/ LoadFailed(t) \/ MarkError(t)

Next ==
  \/ \E r \in Requests : Call(r) \/ RequestStep(r)
  \/ \E t \in Tasks : TaskStep(t) \/ GenerationFails(t)
  \/ Crash

Spec == Init /\ [][Next]_vars

-----------------------------------------------------------------------------
(* Properties.                                                             *)

Lasting == Actions \ PracticeIds

(* An action is applied exactly when it took effect, once, and none stays  *)
(* applying or failed with an effect behind it: two clicks, a retried      *)
(* generation that rewrites the rows, a savepoint that rolls back.  The    *)
(* generation of a practice may reuse an id and is excepted.               *)
EffectsMatchActions ==
  \A a \in Lasting :
    /\ action[a] # "applying"
    /\ effect[a] <= 1
    /\ session # "deleted" => (effect[a] = 1 <=> action[a] = "applied")

(* An attempt is recorded only while the session it was graded in is still *)
(* open: not while it is generated anew, completed or gone.                *)
AttemptsWhileOpen == [][attempts' > attempts => session = "ready"]_vars

InFlight(t) == tx[t].pc \notin {"unused", "finished"}

(* A session that is generating has a task that will settle it, unless the *)
(* process that held the task has died.                                    *)
GeneratingIsAttended == session = "generating" => crashed \/ \E t \in Tasks : InFlight(t)

Standing ==
  [a \in Lasting |->
     IF session = "deleted" THEN "gone"
     ELSE IF action[a] \in {"applied", "dismissed"} THEN action[a] ELSE "open"]

Ledger == INSTANCE ActionLedger
  WITH Items <- Lasting, standing <- Standing, effect <- [a \in Lasting |-> effect[a]]

(* The lab keeps the ledger's promise: nothing but an execution settles an *)
(* action, and nothing but deletion unsettles it.                          *)
ImplementsLedger == Ledger!Spec

(* service.py: completed sessions cannot be regenerated.                   *)
CompletedStays == [][session = "completed" => session' \in {"completed", "deleted"}]_vars

=============================================================================
