------------------------- MODULE MCMotionRecording -------------------------
EXTENDS MotionRecording, TLC

Symmetry == Permutations(Motions)
=============================================================================
