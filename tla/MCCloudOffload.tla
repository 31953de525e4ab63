---------------------------- MODULE MCCloudOffload ----------------------------
(* An old recording without its file and one that is made later; two calls
   of runOnce.                                                               *)
EXTENDS CloudOffload, TLC

TriggerModeDef == (1 :> "motion") @@ (2 :> "continuous")

ProvisionsDef == {[bucket |-> "a", mount |-> FALSE, window |-> 1],
                  [bucket |-> "b", mount |-> TRUE, window |-> 1]}

PoliciesDef == {[enabled |-> TRUE, modes |-> {"motion"}, keepLocalCopy |-> FALSE],
                [enabled |-> TRUE, modes |-> {"motion", "continuous"}, keepLocalCopy |-> TRUE]}
=============================================================================
