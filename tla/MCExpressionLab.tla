-------------------------- MODULE MCExpressionLab --------------------------
(* A session that offers one action of each kind.                          *)
EXTENDS ExpressionLab, TLC

CONSTANTS save, dismiss, practice, complete

OneOfEach == (save :> "save") @@ (dismiss :> "dismiss")
             @@ (practice :> "practice") @@ (complete :> "complete")

LabSymmetry == Permutations(Requests) \cup Permutations(Tasks)

=============================================================================
