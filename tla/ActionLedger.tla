---------------------------- MODULE ActionLedger ----------------------------
(***************************************************************************)
(* What a learning session promises about the actions it offers: each is   *)
(* taken or dismissed at most once, taking it has its effect once, and     *)
(* when the session goes its actions go with it but their effects stay.    *)
(***************************************************************************)
EXTENDS Naturals

CONSTANT Items

VARIABLES
  standing,  \* of each action: open, applied, dismissed or gone
  effect     \* how often it took effect

Standings == {"open", "applied", "dismissed", "gone"}

Init ==
  /\ standing = [a \in Items |-> "open"]
  /\ effect = [a \in Items |-> 0]

Take(a) ==
  /\ standing[a] = "open"
  /\ standing' = [standing EXCEPT ![a] = "applied"]
  /\ effect' = [effect EXCEPT ![a] = @ + 1]

Dismiss(a) ==
  /\ standing[a] = "open"
  /\ standing' = [standing EXCEPT ![a] = "dismissed"]
  /\ UNCHANGED effect

Discard ==
  /\ standing' = [a \in Items |-> "gone"]
  /\ UNCHANGED effect

Next == Discard \/ \E a \in Items : Take(a) \/ Dismiss(a)

Spec == Init /\ [][Next]_<<standing, effect>>

=============================================================================
