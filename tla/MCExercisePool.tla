--------------------------- MODULE MCExercisePool ---------------------------
(* Small instances of ExercisePool for TLC.  Question counts are in units  *)
(* of eight: 8, 16, 24 of config.py become 1, 2, 3.                        *)
EXTENDS ExercisePool, TLC

EmptyPool == [curated |-> 0, legacy |-> 0]

StartEmpty == {EmptyPool}
StartLegacy == {[curated |-> 0, legacy |-> 1]}
StartCurated == {[curated |-> c, legacy |-> 0] : c \in 0 .. 3}

ActorSymmetry == Permutations(RunIds) \cup Permutations(Workers) \cup Permutations(Requests)

=============================================================================
