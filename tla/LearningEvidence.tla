-------------------------- MODULE LearningEvidence --------------------------
(***************************************************************************)
(* One learner's assessment evidence and the two states derived from it:   *)
(* the IRT mastery of a knowledge point and its FSRS review schedule.      *)
(* Events record observations, revocations void them and replay the rest.  *)
(*                                                                         *)
(*   src/src/tools/learning_tools.py (record_learning_evidence, revoke),   *)
(*   src/src/mastery/engine.py, src/src/adaptive/correction.py,            *)
(*   src/src/models/adaptive.py, src/src/models/knowledge.py.              *)
(*                                                                         *)
(* A tool call is one transaction under READ COMMITTED; a step is one      *)
(* statement that reads shared rows, takes a lock or commits.  A derived   *)
(* state is abstracted to how often it folds each piece of evidence in;    *)
(* the order of folding is left out.                                       *)
(***************************************************************************)
EXTENDS Integers, FiniteSets

CONSTANTS
  Events,         \* event ids the caller may send
  Evidence,       \* the observations of those events, one evidence row each
  Points,         \* knowledge points
  EventOf,        \* the event an observation belongs to
  PointOf,        \* the point it resolves to
  LowConfidence,  \* observations below the semantic confidence threshold
  Sessions,       \* database sessions, each serving one tool call after another
  None

ASSUME EvidenceAssumption ==
  /\ EventOf \in [Evidence -> Events]
  /\ PointOf \in [Evidence -> Points]
  /\ LowConfidence \subseteq Evidence
  /\ None \notin Events \cup Evidence \cup [Evidence -> Nat]

VARIABLES
  event,     \* learning_evidence_events: status of each event id
  evidence,  \* assessment_evidence: status of each row
  mastery,   \* learner_knowledge_states
  fsrs,      \* fsrs_review_states: NoUses when there is no row
  tx         \* session -> its place, what its session loaded and wrote

vars == <<event, evidence, mastery, fsrs, tx>>

-----------------------------------------------------------------------------

EventStatus == {"absent", "recorded", "revoked"}

(* applied: updates_learning_state; blocked: kept, but below the threshold;*)
(* void: invalidated_at is set.                                            *)
EvidenceStatus == {"absent", "applied", "blocked", "void"}

(* How often each piece of evidence is folded into a derived state.        *)
Uses == [Evidence -> Nat]
NoUses == [x \in Evidence |-> 0]
Fold(uses, x) == [uses EXCEPT ![x] = @ + 1]

(* replay_evidence starts from nothing and folds each row once.            *)
ReplayOf(rows) == [x \in Evidence |-> IF x \in rows THEN 1 ELSE 0]

Observed(e) == {x \in Evidence : EventOf[x] = e}

State == [row : BOOLEAN, uses : Uses]

Pc == {"idle", "looked", "open", "adding", "loaded", "scheduling",
       "revoking", "locking", "replaying"}

Replies == {"none", "recorded", "revoked", "replay", "missing", "error"}

(* todo, cur, done: observations to come, in hand, finished; known: states *)
(* in the session's identity map; added: state rows it has inserted;       *)
(* locked: rows it has updated or selected FOR UPDATE; plan: the schedules *)
(* it has written; frozen: evidence it has selected FOR UPDATE.            *)
Tx == [pc : Pc, event : Events \cup {None}, todo : SUBSET Evidence,
       cur : Evidence \cup {None}, done : SUBSET Evidence,
       known : [Points -> Uses \cup {None}], added : SUBSET Points,
       locked : SUBSET Points, plan : [Points -> Uses \cup {None}],
       frozen : SUBSET Evidence, reply : Replies]

Idle == [pc |-> "idle", event |-> None, todo |-> {}, cur |-> None, done |-> {},
         known |-> [p \in Points |-> None], added |-> {}, locked |-> {},
         plan |-> [p \in Points |-> None], frozen |-> {}, reply |-> "none"]

Answer(reply) == [Idle EXCEPT !.reply = reply]

TypeOK ==
  /\ event \in [Events -> EventStatus]
  /\ evidence \in [Evidence -> EvidenceStatus]
  /\ mastery \in [Points -> State]
  /\ fsrs \in [Points -> Uses]
  /\ tx \in [Sessions -> Tx]

Init ==
  /\ event = [e \in Events |-> "absent"]
  /\ evidence = [x \in Evidence |-> "absent"]
  /\ mastery = [p \in Points |-> [row |-> FALSE, uses |-> NoUses]]
  /\ fsrs = [p \in Points |-> NoUses]
  /\ tx = [q \in Sessions |-> Idle]

-----------------------------------------------------------------------------
(* Unique constraints and row locks, as the other transactions see them.   *)

Recording(q) == tx[q].pc \in {"open", "adding", "loaded", "scheduling"}
Revoking(q) == tx[q].pc \in {"revoking", "locking", "replaying"}

EventInDoubt(q) ==
  \E o \in Sessions \ {q} : Recording(o) /\ tx[o].event = tx[q].event

StateInDoubt(q, p) == \E o \in Sessions \ {q} : p \in tx[o].added

(* Faulty variants carry their slip in their name; no action uses them.    *)
StateFree_NoLock(q, p) == TRUE

StateFree(q, p) == \A o \in Sessions \ {q} : p \notin tx[o].locked

EvidenceFree(q, x) == \A o \in Sessions \ {q} : x \notin tx[o].frozen

-----------------------------------------------------------------------------
(* record_learning_evidence                                                *)

(* The event is looked up; one that is known is answered from its result.  *)
Look(q, e) ==
  /\ tx[q].pc = "idle"
  /\ tx' = [tx EXCEPT ![q] = IF event[e] = "absent"
                              THEN [Idle EXCEPT !.pc = "looked", !.event = e]
                              ELSE Answer("replay")]
  /\ UNCHANGED <<event, evidence, mastery, fsrs>>

EventTaken_Never(q) == FALSE

EventTaken(q) == event[tx[q].event] # "absent"

(* The envelope is inserted; the unique (learner, event_id) makes it wait  *)
(* for an open insert and refuses it once that one has committed.          *)
Envelope(q) ==
  /\ tx[q].pc = "looked"
  /\ ~EventInDoubt(q)
  /\ tx' = [tx EXCEPT ![q] = IF EventTaken(q) THEN Answer("error")
                              ELSE [@ EXCEPT !.pc = "open", !.todo = Observed(tx[q].event)]]
  /\ UNCHANGED <<event, evidence, mastery, fsrs>>

(* _update_knowledge reads the state without a lock, or finds it in the    *)
(* identity map.  The order of the observations is the caller's.           *)
LoadState(q, x) ==
  LET p == PointOf[x]
  IN  /\ tx[q].pc = "open"
      /\ x \in tx[q].todo
      /\ tx' = [tx EXCEPT ![q].cur = x,
                  ![q].pc = IF tx[q].known[p] # None \/ mastery[p].row
                              THEN "loaded" ELSE "adding",
                  ![q].known[p] = IF @ # None THEN @ ELSE mastery[p].uses]
      /\ UNCHANGED <<event, evidence, mastery, fsrs>>

(* A new state row is inserted by the autoflush of the next query.         *)
AddState(q) ==
  LET p == PointOf[tx[q].cur]
  IN  /\ tx[q].pc = "adding"
      /\ ~StateInDoubt(q, p)
      /\ tx' = IF mastery[p].row
                  THEN [tx EXCEPT ![q] = Answer("error")]
                  ELSE [tx EXCEPT ![q].pc = "loaded", ![q].added = @ \cup {p}]
      /\ UNCHANGED <<event, evidence, mastery, fsrs>>

Finish(t) == [t EXCEPT !.done = @ \cup {t.cur}, !.todo = @ \ {t.cur}, !.cur = None]

(* Evidence below the threshold is kept and traced, the state is not       *)
(* touched.                                                                *)
Block(q) ==
  /\ tx[q].pc = "loaded"
  /\ tx[q].cur \in LowConfidence
  /\ tx' = [tx EXCEPT ![q] = [Finish(@) EXCEPT !.pc = "open"]]
  /\ UNCHANGED <<event, evidence, mastery, fsrs>>

(* The new mastery follows from the state that was read; the UPDATE, which *)
(* the query for the FSRS row flushes, waits for the row's lock.           *)
Apply(q) ==
  LET x == tx[q].cur
      p == PointOf[x]
  IN  /\ tx[q].pc = "loaded"
      /\ x \notin LowConfidence
      /\ StateFree(q, p)
      /\ tx' = [tx EXCEPT ![q].pc = "scheduling", ![q].locked = @ \cup {p},
                          ![q].known[p] = Fold(@, x)]
      /\ UNCHANGED <<event, evidence, mastery, fsrs>>

ScheduleSeen_Committed(q, p) == fsrs[p]

(* The schedule of a point as the session sees it: its own write, or the   *)
(* committed row.                                                          *)
ScheduleSeen(q, p) == IF tx[q].plan[p] # None THEN tx[q].plan[p] ELSE fsrs[p]

(* The schedule is read only now, with the state's row in hand.            *)
Schedule(q) ==
  LET x == tx[q].cur
      p == PointOf[x]
  IN  /\ tx[q].pc = "scheduling"
      /\ tx' = [tx EXCEPT ![q] =
                  [Finish(@) EXCEPT !.pc = "open", !.plan[p] = Fold(ScheduleSeen(q, p), x)]]
      /\ UNCHANGED <<event, evidence, mastery, fsrs>>

StatusOf_Rejected(x) == IF x \in LowConfidence THEN "rejected" ELSE "applied"

StatusOf(x) == IF x \in LowConfidence THEN "blocked" ELSE "applied"

WithStates(q) ==
  [p \in Points |->
     IF p \in tx[q].added \cup tx[q].locked
       THEN [row |-> TRUE, uses |-> tx[q].known[p]] ELSE mastery[p]]

WithSchedules(q) ==
  [p \in Points |-> IF tx[q].plan[p] # None THEN tx[q].plan[p] ELSE fsrs[p]]

CommitRecord(q) ==
  /\ tx[q].pc = "open"
  /\ tx[q].todo = {}
  /\ event' = [event EXCEPT ![tx[q].event] = "recorded"]
  /\ evidence' = [x \in Evidence |-> IF x \in tx[q].done THEN StatusOf(x) ELSE evidence[x]]
  /\ mastery' = WithStates(q)
  /\ fsrs' = WithSchedules(q)
  /\ tx' = [tx EXCEPT ![q] = Answer("recorded")]

-----------------------------------------------------------------------------
(* operation = "revoke": _revoke_event and EvidenceCorrectionService       *)

(* The evidence rows the event's stored result names.                      *)
Revocable_AppliedOnly(e) == {x \in Observed(e) : evidence[x] = "applied"}

Revocable(e) == {x \in Observed(e) : evidence[x] # "absent"}

LookRevoke(q, e) ==
  /\ tx[q].pc = "idle"
  /\ tx' = [tx EXCEPT ![q] =
              CASE event[e] = "absent"  -> Answer("missing")
                [] event[e] = "revoked" -> Answer("replay")
                [] OTHER -> [Idle EXCEPT !.pc = "revoking", !.event = e,
                                         !.todo = Revocable(e)]]
  /\ UNCHANGED <<event, evidence, mastery, fsrs>>

(* SELECT the evidence FOR UPDATE and invalidate it.                       *)
Freeze(q, x) ==
  /\ tx[q].pc = "revoking"
  /\ x \in tx[q].todo
  /\ EvidenceFree(q, x)
  /\ tx' = [tx EXCEPT ![q].pc = "locking", ![q].cur = x, ![q].frozen = @ \cup {x}]
  /\ UNCHANGED <<event, evidence, mastery, fsrs>>

(* SELECT the knowledge state FOR UPDATE.                                  *)
LockState(q) ==
  LET p == PointOf[tx[q].cur]
  IN  /\ tx[q].pc = "locking"
      /\ StateFree(q, p)
      /\ tx' = [tx EXCEPT ![q].pc = "replaying", ![q].locked = @ \cup {p}]
      /\ UNCHANGED <<event, evidence, mastery, fsrs>>

(* The valid evidence of a point: committed, not invalidated, and not      *)
(* frozen by this very request.                                            *)
Valid_StillCounted(q, p) ==
  {x \in Evidence : PointOf[x] = p /\ evidence[x] = "applied"}

Valid(q, p) ==
  {x \in Evidence : PointOf[x] = p /\ evidence[x] = "applied" /\ x \notin tx[q].frozen}

(* Replay and write both derived states; without a schedule row there is   *)
(* nothing to rewrite, and with no valid evidence the row is deleted.      *)
Replay(q) ==
  LET p == PointOf[tx[q].cur]
      replayed == ReplayOf(Valid(q, p))
  IN  /\ tx[q].pc = "replaying"
      /\ tx' = [tx EXCEPT ![q] =
                  [Finish(@) EXCEPT !.pc = "revoking", !.known[p] = replayed,
                     !.plan[p] = IF ScheduleSeen(q, p) = NoUses THEN NoUses ELSE replayed]]
      /\ UNCHANGED <<event, evidence, mastery, fsrs>>

CommitRevoke(q) ==
  /\ tx[q].pc = "revoking"
  /\ tx[q].todo = {}
  /\ event' = [event EXCEPT ![tx[q].event] = "revoked"]
  /\ evidence' = [x \in Evidence |-> IF x \in tx[q].done THEN "void" ELSE evidence[x]]
  /\ mastery' = WithStates(q)
  /\ fsrs' = WithSchedules(q)
  /\ tx' = [tx EXCEPT ![q] = Answer("revoked")]

(* An exception, a lost connection or a deadlock the database breaks: the  *)
(* transaction rolls back.                                                 *)
Fail(q) ==
  /\ tx[q].pc # "idle"
  /\ tx' = [tx EXCEPT ![q] = Answer("error")]
  /\ UNCHANGED <<event, evidence, mastery, fsrs>>

-----------------------------------------------------------------------------

Record(q) ==
  \/ Envelope(q) \/ AddState(q) \/ Block(q) \/ Apply(q) \/ Schedule(q) \/ CommitRecord(q)
  \/ \E x \in Evidence : LoadState(q, x)

Revoke(q) ==
  \/ LockState(q) \/ Replay(q) \/ CommitRevoke(q)
  \/ \E x \in Evidence : Freeze(q, x)

Next ==
  \E q \in Sessions :
    \/ \E e \in Events : Look(q, e) \/ LookRevoke(q, e)
    \/ Record(q) \/ Revoke(q) \/ Fail(q)

Spec == Init /\ [][Next]_vars

-----------------------------------------------------------------------------
(* Properties.                                                             *)

ValidRows(p) == {x \in Evidence : PointOf[x] = p /\ evidence[x] = "applied"}

(* The review schedule of a point folds in exactly its valid evidence,     *)
(* each row once, however recorders and corrections interleave: although   *)
(* _update_knowledge takes no lock, its UPDATE of the knowledge state is   *)
(* flushed before the schedule is read and serialises the schedule.        *)
ScheduleIsValidEvidence == \A p \in Points : fsrs[p] = ReplayOf(ValidRows(p))

(* A mastery state is made of recorded evidence of its own point that      *)
(* passed the confidence threshold, and no row counts twice: duplicate     *)
(* deliveries and failed requests leave nothing behind.                    *)
MasteryFromEvidence ==
  \A p \in Points, x \in Evidence :
    mastery[p].uses[x] # 0 =>
      /\ mastery[p].uses[x] = 1
      /\ PointOf[x] = p
      /\ evidence[x] \in {"applied", "void"}
      /\ x \notin LowConfidence

(* An event takes effect as a whole: all of its evidence is there when it  *)
(* is, and all of it is void when it is revoked, and only then.            *)
EventsAreWhole ==
  \A x \in Evidence :
    /\ evidence[x] = "absent" <=> event[EventOf[x]] = "absent"
    /\ evidence[x] = "void" <=> event[EventOf[x]] = "revoked"

(* The commit of a correction leaves the mastery of every point it voids   *)
(* evidence of equal to the replay of the evidence that is still valid.    *)
CorrectionRebuilds ==
  [][\A x \in Evidence :
       evidence[x] # "void" /\ evidence'[x] = "void" =>
         mastery'[PointOf[x]].uses = ReplayOf(ValidRows(PointOf[x])')]_vars

(* Calls that overlap, are repeated, fail or break a deadlock look to the  *)
(* review schedules like one event after another being recorded or         *)
(* revoked as a whole.                                                     *)
Ledger == INSTANCE EvidenceLedger WITH status <- event, schedule <- fsrs

ImplementsEvidenceLedger == Ledger!Spec

(* doc: a correction replays the evidence that remains valid and rebuilds  *)
(* the IRT mastery; what was revoked should stay out of it.                *)
RevokedStaysOut ==
  \A x \in Evidence : evidence[x] = "void" => mastery[PointOf[x]].uses[x] = 0

=============================================================================
