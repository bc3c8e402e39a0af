--------------------------- MODULE GroupLearning ---------------------------
(***************************************************************************)
(* A learning group: batches of chat messages imported by a bot that       *)
(* repeats and overlaps its deliveries, the reuse of one saved expression  *)
(* that they show, and one signal that the learner accepts or dismisses.   *)
(*                                                                         *)
(*   src/src/group_learning/service.py, src/src/api/group_learning.py,     *)
(*   src/src/models/group_learning.py.                                     *)
(*                                                                         *)
(* Messages are those of the mapped learner, after the expression was      *)
(* saved; every message reuses it.                                         *)
(***************************************************************************)
EXTENDS HttpRequests

CONSTANTS
  ExternalIds,   \* message ids of the chat platform
  Hashes,        \* hashes of normalised texts
  MaxMarks       \* bound on dismissals and restores of the signal

ASSUME MaxMarksAssumption == MaxMarks \in Nat

VARIABLES
  stored,        \* group_learning_messages
  reuses,        \* expression_reused events of each stored message
  reuseCount,    \* the phrase's metadata: expression_lab_reuse_count
  acknowledged,  \* messages of imports that were answered without an error
  signal,        \* group_learning_signals.status
  opened,        \* learning_progress_items.opened_count, 0 without a row
  accepts,       \* accepts of the signal that took effect
  marks,         \* writes of the signal's status by dismiss, restore, delete
  groupTx        \* request -> its place and what it has read and written

groupVars ==
  <<stored, reuses, reuseCount, acknowledged, signal, opened, accepts, marks, groupTx>>

importVars == <<stored, reuses, reuseCount, acknowledged>>

signalVars == <<signal, opened, accepts, marks>>

GroupMessage == [id : ExternalIds, hash : Hashes]

SignalStatus == {"candidate", "accepted", "dismissed", "deleted"}

GroupTx ==
  [pc : {Idle, "importing", "accepting", "marking"},
   new : SUBSET GroupMessage,      \* messages inserted, not committed
   reused : SUBSET GroupMessage,   \* messages whose reuse was recorded
   batch : SUBSET GroupMessage,    \* messages of the batch dealt with
   count : Nat,                    \* the counter as it was loaded
   to : SignalStatus]

GroupIdle ==
  [pc |-> Idle, new |-> {}, reused |-> {}, batch |-> {}, count |-> 0, to |-> "candidate"]

GroupTypeOK ==
  /\ stored \in SUBSET GroupMessage
  /\ reuses \in [GroupMessage -> Nat]
  /\ reuseCount \in Nat
  /\ acknowledged \in SUBSET GroupMessage
  /\ signal \in SignalStatus
  /\ opened \in Nat
  /\ accepts \in Nat
  /\ marks \in 0..MaxMarks
  /\ groupTx \in [Requests -> GroupTx]

(* An earlier import has drafted the signal.                               *)
GroupInit ==
  /\ stored = {}
  /\ reuses = [m \in GroupMessage |-> 0]
  /\ reuseCount = 0
  /\ acknowledged = {}
  /\ signal = "candidate"
  /\ opened = 0
  /\ accepts = 0
  /\ marks = 0
  /\ groupTx = [r \in Requests |-> GroupIdle]

-----------------------------------------------------------------------------
(* import_group_messages                                                   *)

Alike(m, n) == m.id = n.id \/ m.hash = n.hash

(* _find_existing_message, which sees what its own transaction inserted.   *)
Matches(r, m) == {n \in stored \cup groupTx[r].new : Alike(m, n)}

(* The phrases, with their metadata, are loaded before the messages.       *)
OpenImport(r) ==
  /\ groupTx[r].pc = Idle
  /\ groupTx' = [groupTx EXCEPT ![r] =
                   [GroupIdle EXCEPT !.pc = "importing", !.count = reuseCount]]
  /\ UNCHANGED <<importVars, signalVars>>

MessageFree_NoConstraint(r, m) == TRUE

(* The unique constraints wait for an insert in doubt; once that commits,  *)
(* the whole import fails.                                                 *)
MessageFree(r, m) ==
  \A q \in Requests \ {r} : \A n \in groupTx[q].new : ~Alike(m, n)

(* _record_expression_lab_reuses                                           *)
WithReuse(r, m) ==
  IF reuses[m] = 0 /\ m \notin groupTx[r].reused
  THEN groupTx[r].reused \cup {m} ELSE groupTx[r].reused

ImportNew(r, m) ==
  /\ groupTx[r].pc = "importing"
  /\ m \notin groupTx[r].batch
  /\ Matches(r, m) = {}
  /\ MessageFree(r, m)
  /\ groupTx' = [groupTx EXCEPT ![r].new = @ \cup {m}, ![r].batch = @ \cup {m},
                                ![r].reused = WithReuse(r, m)]
  /\ UNCHANGED <<importVars, signalVars>>

(* With two matches scalar_one_or_none raises, and the import fails.       *)
ImportDuplicate(r, m) ==
  /\ groupTx[r].pc = "importing"
  /\ m \notin groupTx[r].batch
  /\ \E n \in Matches(r, m) :
       /\ Matches(r, m) = {n}
       /\ groupTx' = [groupTx EXCEPT ![r].batch = @ \cup {m}, ![r].reused = WithReuse(r, n)]
  /\ UNCHANGED <<importVars, signalVars>>

(* A message inserted by a request that committed in between is refused.   *)
CommitImport(r) ==
  /\ groupTx[r].pc = "importing"
  /\ stored' = stored \cup groupTx[r].new
  /\ reuses' = [m \in GroupMessage |-> reuses[m] + IF m \in groupTx[r].reused THEN 1 ELSE 0]
  /\ reuseCount' = IF groupTx[r].reused = {} THEN reuseCount
                   ELSE groupTx[r].count + Cardinality(groupTx[r].reused)
  /\ acknowledged' = acknowledged \cup groupTx[r].batch
  /\ groupTx' = [groupTx EXCEPT ![r] = GroupIdle]
  /\ UNCHANGED signalVars

-----------------------------------------------------------------------------
(* update_signal                                                           *)

Acceptable_Always == TRUE

(* accept_signal returns at once for a signal that is already applied.     *)
Acceptable == signal # "accepted"

(* The progress item is read, the signal's status not again.               *)
OpenAccept(r) ==
  /\ groupTx[r].pc = Idle
  /\ Acceptable
  /\ groupTx' = [groupTx EXCEPT ![r] =
                   [GroupIdle EXCEPT !.pc = "accepting", !.count = opened]]
  /\ UNCHANGED <<importVars, signalVars>>

(* A second insert of the same progress item is refused.                   *)
CommitAccept(r) ==
  /\ groupTx[r].pc = "accepting"
  /\ groupTx[r].count = 0 => opened = 0
  /\ opened' = groupTx[r].count + 1
  /\ accepts' = accepts + 1
  /\ signal' = "accepted"
  /\ groupTx' = [groupTx EXCEPT ![r] = GroupIdle]
  /\ UNCHANGED <<importVars, marks>>

(* dismiss, restore, delete: the status is written only if it differs from *)
(* the one that was loaded.                                                *)
OpenMark(r, to) ==
  /\ groupTx[r].pc = Idle
  /\ to \notin {signal, "accepted"}
  /\ groupTx' = [groupTx EXCEPT ![r] = [GroupIdle EXCEPT !.pc = "marking", !.to = to]]
  /\ UNCHANGED <<importVars, signalVars>>

CommitMark(r) ==
  /\ groupTx[r].pc = "marking"
  /\ marks < MaxMarks
  /\ signal' = groupTx[r].to
  /\ marks' = marks + 1
  /\ groupTx' = [groupTx EXCEPT ![r] = GroupIdle]
  /\ UNCHANGED <<importVars, opened, accepts>>

(* A constraint, two matches, an exception: nothing is committed.          *)
GroupAbort(r) ==
  /\ groupTx[r].pc # Idle
  /\ groupTx' = [groupTx EXCEPT ![r] = GroupIdle]
  /\ UNCHANGED <<importVars, signalVars>>

GroupStep(r) ==
  \/ OpenImport(r) \/ CommitImport(r)
  \/ \E m \in GroupMessage : ImportNew(r, m) \/ ImportDuplicate(r, m)
  \/ OpenAccept(r) \/ CommitAccept(r) \/ CommitMark(r) \/ GroupAbort(r)
  \/ \E to \in SignalStatus : OpenMark(r, to)

GroupNext == \E r \in Requests : GroupStep(r)

GroupSpec == GroupInit /\ [][GroupNext]_groupVars

-----------------------------------------------------------------------------
(* Properties.                                                             *)

(* Deliveries that repeat and overlap store a message once and record its  *)
(* reuse once; what an import acknowledged is stored under its id or its   *)
(* text; the phrase's counter may lose an update but never runs ahead.     *)
ImportedOnce ==
  /\ \A m, n \in stored : Alike(m, n) => m = n
  /\ \A m \in GroupMessage : reuses[m] = IF m \in stored THEN 1 ELSE 0
  /\ \A m \in acknowledged : \E n \in stored : Alike(m, n)
  /\ reuseCount <= Cardinality(stored)

(* An accepted signal has been applied, and it is applied again only by    *)
(* accepts that overlap or after the learner took the acceptance back;     *)
(* the progress item never counts more than was applied.                   *)
AppliedByOverlap ==
  /\ signal = "accepted" => opened > 0
  /\ opened <= accepts
  /\ accepts <= Cardinality(Requests) * (marks + 1)

=============================================================================
