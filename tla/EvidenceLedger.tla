--------------------------- MODULE EvidenceLedger ---------------------------
(***************************************************************************)
(* What the learning evidence promises a learner's review schedules,       *)
(* without sessions, locks or replays: an event is recorded at most once   *)
(* and revoked at most once, and all at once it adds its sound             *)
(* observations to the schedules of their points or takes them back.       *)
(***************************************************************************)
EXTENDS Naturals

CONSTANTS Events, Evidence, Points, EventOf, PointOf, LowConfidence

VARIABLES
  status,   \* of each event: absent, recorded or revoked
  schedule  \* point -> how often its schedule counts each observation

Init ==
  /\ status = [e \in Events |-> "absent"]
  /\ schedule = [p \in Points |-> [x \in Evidence |-> 0]]

Sound(e, p) ==
  {x \in Evidence : EventOf[x] = e /\ PointOf[x] = p /\ x \notin LowConfidence}

(* The schedules with the event's sound observations counted so often.     *)
Counting(e, times) ==
  [p \in Points |->
     [x \in Evidence |-> IF x \in Sound(e, p) THEN times ELSE schedule[p][x]]]

Record(e) ==
  /\ status[e] = "absent"
  /\ status' = [status EXCEPT ![e] = "recorded"]
  /\ schedule' = Counting(e, 1)

Revoke(e) ==
  /\ status[e] = "recorded"
  /\ status' = [status EXCEPT ![e] = "revoked"]
  /\ schedule' = Counting(e, 0)

Next == \E e \in Events : Record(e) \/ Revoke(e)

Spec == Init /\ [][Next]_<<status, schedule>>

=============================================================================
