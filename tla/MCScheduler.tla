---------------------------- MODULE MCScheduler ----------------------------
(* Three nodes, three cameras of weight 1 or 2: room for some, not for all. *)
EXTENDS Scheduler

Node(id, capacity, cameras) == [id |-> id, capacity |-> capacity, cameras |-> cameras]

\* two nodes that both list camera 1; three nodes, one without a capacity
RegistriesDef == {
    <<Node(2, 2, {1}), Node(1, 1, {1, 3})>>,
    <<Node(1, 3, {1, 3}), Node(2, 2, {}), Node(3, Null, {2})>>}

WorkloadsDef == {
    [c \in {1, 2, 3} |-> IF c = 1 THEN 2 ELSE 1], [c \in {1, 2, 3} |-> 2]}

\* seen at the limit and beyond it; a node that asks to be drained, and one alive
ReportsDef == {
    [age |-> 2, draining |-> TRUE, down |-> FALSE],
    [age |-> 1, draining |-> TRUE, down |-> FALSE],
    [age |-> 0, draining |-> FALSE, down |-> FALSE]}
=============================================================================
