------------------------- MODULE MCRecordingControl -------------------------
(* Instances of RecordingControl for TLC.                                  *)
EXTENDS RecordingControl, TLC

Symmetry == Permutations(Users) \cup Permutations(Procs)
=============================================================================
