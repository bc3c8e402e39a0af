------------------------- MODULE MCLearningEvidence -------------------------
(* Two events on two points: the first observes one point twice and the    *)
(* other once, the second observes both, one of them with low confidence.  *)
EXTENDS LearningEvidence, TLC

CONSTANTS e1, e2, p1, p2, a, b, c, d, f

TwoEvents == (a :> e1) @@ (b :> e1) @@ (c :> e2) @@ (d :> e2) @@ (f :> e1)
TwoPoints == (a :> p1) @@ (b :> p2) @@ (c :> p1) @@ (d :> p2) @@ (f :> p1)

SessionSymmetry == Permutations(Sessions)

=============================================================================
