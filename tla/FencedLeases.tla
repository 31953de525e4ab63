---------------------------- MODULE FencedLeases ----------------------------
(***************************************************************************)
(* What the scheduler of the central promises to the recorders: every      *)
(* camera has at most one lease, and a lease that has been taken away      *)
(* never comes back, so that a node that was paused while it was replaced  *)
(* can be told apart from the owner for ever (leases.js, lines 3-15).      *)
(***************************************************************************)
VARIABLES
    granted,          \* the leases in force: records with a field "camera"
    withdrawn         \* the leases that have been in force and are not any more

OnePerCamera(ls) == \A l, m \in ls : l.camera = m.camera => l = m

Init == granted = {} /\ withdrawn = {}

(* Any leases may be given and taken, but for the ones taken before. *)
Regrant ==
    /\ OnePerCamera(granted')
    /\ withdrawn' = withdrawn \cup (granted \ granted')
    /\ granted' \cap withdrawn' = {}

Spec == Init /\ [][Regrant]_<<granted, withdrawn>>
=============================================================================
