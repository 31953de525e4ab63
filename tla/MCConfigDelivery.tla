--------------------------- MODULE MCConfigDelivery ---------------------------
(* Motion only, as installations are born, and motion off with the heavy
   analysis left on.                                                         *)
EXTENDS ConfigDelivery

AiPoliciesDef == {[motion |-> TRUE, heavy |-> FALSE], [motion |-> FALSE, heavy |-> TRUE]}
=============================================================================
