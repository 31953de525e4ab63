------------------------- MODULE MCSegmentPipeline -------------------------
(* SegmentPipeline for TLC: the segments are numbered from 1. *)
EXTENDS SegmentPipeline

CONSTANT N
SegmentsDef == 1..N
=============================================================================
