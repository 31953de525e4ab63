----------------------------- MODULE MCRetention -----------------------------
(* Three recordings: of a camera with days of its own one of unknown activity
   and one that is empty, found late; of a camera that leaves its days to the
   installation one with movement, in the cloud only.  One clip, one event.  *)
EXTENDS Retention, TLC

CameraOfDef == (1 :> 1) @@ (2 :> 1) @@ (3 :> 2)
StartedAtDef == (1 :> -3) @@ (2 :> -2) @@ (3 :> -2)
MotionScoreDef == (1 :> -1) @@ (2 :> 0) @@ (3 :> 1)
SourceDef == (1 :> 1)
OccurredAtDef == (1 :> -1)
CameraDaysDef == (1 :> 2) @@ (2 :> -1)

\* simulated, in two tiers, and on: each camera's own window, and one for motion
\* below it
PoliciesDef == {
    [enabled |-> TRUE, dryRun |-> TRUE, all |-> 1, motion |-> 3],
    [enabled |-> TRUE, dryRun |-> FALSE, all |-> 0, motion |-> 1]}

FirstHoldsDef == <<
    [investigation |-> 1, enabled |-> TRUE, items |-> Item("rec", {3})],
    [investigation |-> 2, enabled |-> FALSE, items |-> Item("rec", {1})]>>

HoldRowsDef == {
    [investigation |-> 1, enabled |-> FALSE, items |-> Item("rec", {3})],
    [investigation |-> 2, enabled |-> TRUE, items |-> Item("clip", {1})]}

EvidenceDef == Item("event", {1})
=============================================================================
