--------------------------- MODULE MCFileDeletion ---------------------------
(* One recording with two files and one clip cut from it. *)
EXTENDS FileDeletion, TLC

CONSTANTS r1, k1, f1, f2, f3

SourceDef == k1 :> r1
OwnerDef  == f1 :> r1 @@ f2 :> r1 @@ f3 :> k1

Symmetry == Permutations(Ops) \cup Permutations({f1, f2})
=============================================================================
