------------------------------ MODULE Scheduler ------------------------------
(***************************************************************************)
(* The multi-node scheduler of the central server: the planner             *)
(* (scheduler/plan.js), its glue with the record of an installation        *)
(* (scheduler/index.js), the fencing check (scheduler/leases.js) and the   *)
(* two routes that change its state, the PATCH of the compute nodes and    *)
(* the replan (server.js).  One installation; its routes are serialised by *)
(* runSerialized, so a request is one step.                                *)
(*                                                                         *)
(* Ids of nodes and cameras are numbers: only their order matters.  Roles, *)
(* labels and the reasons of a migration are left out.                     *)
(***************************************************************************)
EXTENDS Integers, FiniteSets, Sequences, FiniteSetsExt, Folds

CONSTANTS
    Nodes, Cameras,  \* ids
    Registries,      \* sequences of nodes a PATCH may send
    Workloads,       \* lists of cameras with weights a replan may send
    Reports,         \* the telemetry a replan may send for a node
    Null,
    NodeDeadAfter, DefaultCapacity, DrainBatch, LeaseTtl, MaxWorkloads,
    MaxNow, MaxToken \* bounds

ASSUME SchedulerConstants ==
    /\ Nodes \subseteq Nat /\ Cameras \subseteq Nat
    /\ IsFiniteSet(Cameras)
    /\ Null \notin Nodes /\ Null \notin Nat
    /\ LeaseTtl \in Nat \ {0} /\ MaxNow \in Nat /\ MaxToken \in Nat
    /\ DefaultCapacity \in Nat /\ DrainBatch \in Nat
    /\ \A w \in Workloads : DOMAIN w \subseteq Cameras /\ w \in [DOMAIN w -> Nat \ {0}]
    /\ Registries \subseteq Seq([id : Nodes, capacity : Nat \cup {Null}, cameras : SUBSET Cameras])

VARIABLES
    registry,   \* item.computeNodes
    plan,       \* item.schedulerPlan
    now,
    withdrawn   \* history: the leases a later saved plan does not contain

vars == <<registry, plan, now, withdrawn>>

-----------------------------------------------------------------------------
(* The record of the installation as the planner's input.                  *)

(* storedPlan: an installation has no plan before the first replan. *)
NoPlan == [saved |-> FALSE]

(* normalizeNodeStates and nodeHealth: a report is [age, draining, down],
   age Null when the node never said when it was seen. *)
NodeHealth(r) ==
    CASE r = Null -> "unknown"
      [] r # Null /\ (r.down \/ (r.age # Null /\ r.age > NodeDeadAfter)) -> "dead"
      [] r # Null /\ ~r.down /\ ~(r.age # Null /\ r.age > NodeDeadAfter) ->
            IF r.draining THEN "draining" ELSE IF r.age = Null THEN "unknown" ELSE "alive"

RegistryIds == {registry[i].id : i \in DOMAIN registry}

RegistryNode(n) == CHOOSE r \in {registry[i] : i \in DOMAIN registry} : r.id = n

Capacity(n) ==
    LET declared == RegistryNode(n).capacity
    IN  IF declared = Null THEN DefaultCapacity ELSE declared

(* workloadsFromInstallation: the cameras of the registry, each of weight 1. *)
RegistryWorkloads ==
    [c \in UNION {registry[i].cameras : i \in DOMAIN registry} |-> 1]

(* assignmentsFromRegistry: no tokens yet, and of several nodes that list a
   camera the last one wins (normalizePrevious). *)
RegistryOwner(c) ==
    LET claims == {i \in DOMAIN registry : c \in registry[i].cameras}
    IN  registry[CHOOSE i \in claims : \A j \in claims : j <= i].id

(* previousFromInstallation and normalizePrevious. *)
PreviousLeases ==
    IF plan.saved
    THEN plan.lease
    ELSE [c \in DOMAIN RegistryWorkloads |-> [node |-> RegistryOwner(c), token |-> Null]]

PreviousNextToken == IF plan.saved THEN plan.nextToken ELSE 0

\* mutant: the counter of the previous plan is ignored
FirstToken_NoCounter(previous, counter) ==
    Max({1} \cup {previous[c].token + 1 : c \in {d \in DOMAIN previous : previous[d].token # Null}})

(* The next token is above every token of the previous plan and not below the
   counter that plan was saved with. *)
FirstToken(previous, counter) ==
    Max({1, counter} \cup
        {previous[c].token + 1 : c \in {d \in DOMAIN previous : previous[d].token # Null}})

-----------------------------------------------------------------------------
(* planAssignments.  p is the plan in the making: owner of every workload  *)
(* (Null: none) and load of every node.                                    *)

(* orderWorkloads: heaviest first, then by id. *)
Before(weight, a, b) == weight[a] > weight[b] \/ (weight[a] = weight[b] /\ a < b)

LastOf(T, Precedes(_, _)) == CHOOSE x \in T : \A y \in T : y = x \/ Precedes(y, x)

(* The loops of the planner: the elements of S in the given order, each of
   them with what those before it have left. *)
FoldInOrder(Op(_, _), base, S, Precedes(_, _)) ==
    MapThenFoldSet(LAMBDA x, p : Op(p, x), base, LAMBDA x : x,
                   LAMBDA T : LastOf(T, Precedes), S)

InCanonicalOrder(Op(_, _), base, cs, weight) ==
    FoldInOrder(Op, base, cs, LAMBDA a, b : Before(weight, a, b))

Place(p, c, n, w) == [p EXCEPT !.owner[c] = n, !.load[n] = @ + w]

\* mutant: the load of the node a camera leaves is not given back
Release_KeepsLoad(p, c, w) == [p EXCEPT !.owner[c] = Null]

Release(p, c, w) == [p EXCEPT !.owner[c] = Null, !.load[p.owner[c]] = @ - w]

(* pickTarget: the least projected utilisation, the smaller id on a tie. *)
Targets(p, w, ns, health, cap) ==
    {n \in ns : health[n] \in {"alive", "unknown"} /\ p.load[n] + w <= cap[n]}

PickTarget(p, w, ns, health, cap) ==
    LET fits == Targets(p, w, ns, health, cap)
        Better(n, m) == LET x == (p.load[n] + w) * cap[m]
                            y == (p.load[m] + w) * cap[n]
                        IN  x < y \/ (x = y /\ n <= m)
    IN  IF fits = {} THEN Null ELSE CHOOSE n \in fits : \A m \in fits : Better(n, m)

(* 1. Whoever is on a node that can keep it stays there. *)
\* mutant: a node nobody has heard of loses its cameras
CanRetain_Known(n, health) == health[n] \notin {"dead", "unknown"}

CanRetain(n, health) == health[n] # "dead"

Retain(p, c, weight, previous, ns, health, cap) ==
    IF /\ c \in DOMAIN previous /\ previous[c].node \in ns
       /\ CanRetain(previous[c].node, health)
       /\ p.load[previous[c].node] + weight[c] <= cap[previous[c].node]
    THEN Place(p, c, previous[c].node, weight[c])
    ELSE p

(* 2. Whoever is without a node is placed. *)
PlaceDeferred(p, c, weight, ns, health, cap) ==
    LET n == PickTarget(p, weight[c], ns, health, cap)
    IN  IF p.owner[c] # Null \/ n = Null THEN p ELSE Place(p, c, n, weight[c])

\* mutant: a draining node is emptied at once
DrainOne_NoBatch(p, c, weight, ns, health, cap) ==
    LET n == PickTarget(p, weight[c], ns, health, cap)
    IN  IF n = Null THEN p ELSE Place(Release(p, c, weight[c]), c, n, weight[c])

(* 3. A few cameras leave each draining node, if there is room elsewhere. *)
DrainOne(p, c, weight, ns, health, cap) ==
    LET n == PickTarget(p, weight[c], ns, health, cap)
    IN  IF p.moved >= DrainBatch \/ n = Null
        THEN p
        ELSE [Place(Release(p, c, weight[c]), c, n, weight[c]) EXCEPT !.moved = @ + 1]

Drain(p, n, weight, ns, health, cap) ==
    InCanonicalOrder(LAMBDA q, c : DrainOne(q, c, weight, ns, health, cap),
                     [p EXCEPT !.moved = 0], {c \in DOMAIN weight : p.owner[c] = n}, weight)

Empty(weight, ns) ==
    [owner |-> [c \in DOMAIN weight |-> Null], load |-> [n \in ns |-> 0], moved |-> 0]

RetainAll(p, weight, previous, ns, health, cap) ==
    InCanonicalOrder(LAMBDA q, c : Retain(q, c, weight, previous, ns, health, cap), p,
                     DOMAIN weight, weight)

PlaceAll(p, weight, ns, health, cap) ==
    InCanonicalOrder(LAMBDA q, c : PlaceDeferred(q, c, weight, ns, health, cap), p,
                     DOMAIN weight, weight)

DrainAll(p, weight, ns, health, cap) ==
    FoldInOrder(LAMBDA q, n : Drain(q, n, weight, ns, health, cap), p,
                {n \in ns : health[n] = "draining"}, LAMBDA a, b : a < b)

\* mutant: draining takes the room before the cameras without a node are placed
Assign_DrainFirst(weight, previous, ns, health, cap) ==
    LET kept == RetainAll(Empty(weight, ns), weight, previous, ns, health, cap)
    IN  PlaceAll(DrainAll(kept, weight, ns, health, cap), weight, ns, health, cap)

Assign(weight, previous, ns, health, cap) ==
    LET kept == RetainAll(Empty(weight, ns), weight, previous, ns, health, cap)
    IN  DrainAll(PlaceAll(kept, weight, ns, health, cap), weight, ns, health, cap)

\* mutant: a camera that comes from the registry keeps the token it never had
SameOwner_NoToken(owner, previous, c) ==
    c \in DOMAIN previous /\ previous[c].node = owner[c]

(* 4. Whoever keeps its node keeps its token; the others get new ones, in
   the order of the ids. *)
SameOwner(owner, previous, c) ==
    /\ c \in DOMAIN previous
    /\ previous[c].node = owner[c] /\ previous[c].token # Null

Fresh(owner, previous) ==
    {c \in DOMAIN owner : owner[c] # Null /\ ~SameOwner(owner, previous, c)}

TokenOf(c, owner, previous, first) ==
    IF SameOwner(owner, previous, c)
    THEN previous[c].token
    ELSE first + Cardinality({d \in Fresh(owner, previous) : d < c})

Revoked(owner, previous) ==
    {c \in DOMAIN owner \cap DOMAIN previous : previous[c].node # owner[c]}

MakePlan(weight, report) ==
    LET previous == PreviousLeases
        health   == [n \in RegistryIds |-> NodeHealth(report[n])]
        cap      == [n \in RegistryIds |-> Capacity(n)]
        p        == Assign(weight, previous, RegistryIds, health, cap)
        first    == FirstToken(previous, PreviousNextToken)
        owned    == {c \in DOMAIN weight : p.owner[c] # Null}
        owner    == [c \in DOMAIN weight |-> p.owner[c]]
    IN  [saved      |-> TRUE,
         lease      |-> [c \in owned |->
                            [node |-> owner[c], token |-> TokenOf(c, owner, previous, first)]],
         nextToken  |-> first + Cardinality(Fresh(owner, previous)),
         expires    |-> now + LeaseTtl,
         weight     |-> weight,
         health     |-> health, capacity |-> cap, load |-> p.load,
         unassigned |-> DOMAIN weight \ owned,
         revoked    |-> Revoked(owner, previous)]

-----------------------------------------------------------------------------
(* findAssignment and checkFencing: what a node is told that says it holds *)
(* a lease.                                                                *)

CheckFencing(l) ==
    IF ~plan.saved THEN "no_plan"
    ELSE IF l.camera \notin DOMAIN plan.lease THEN "unknown_camera"
    ELSE IF l.token < plan.lease[l.camera].token THEN "stale_token"
    ELSE IF l.token > plan.lease[l.camera].token THEN "future_token"
    ELSE IF l.node # plan.lease[l.camera].node THEN "wrong_node"
    ELSE IF plan.expires <= now THEN "lease_expired"
    ELSE "ok"

LeasesOf(pl) ==
    IF ~pl.saved THEN {}
    ELSE {[camera |-> c, node |-> pl.lease[c].node, token |-> pl.lease[c].token] :
             c \in DOMAIN pl.lease}

-----------------------------------------------------------------------------
Init ==
    /\ registry \in Registries
    /\ plan = NoPlan /\ now = 0
    /\ withdrawn = {}

\* mutant: a new registry discards the plan, and with it the counter
PatchComputeNodes_DropsPlan(r) ==
    /\ registry' = r /\ plan' = NoPlan
    /\ UNCHANGED <<now, withdrawn>>

(* PATCH compute-nodes: the whole registry is replaced; the saved plan is not
   looked at. *)
PatchComputeNodes(r) ==
    /\ registry' = r
    /\ UNCHANGED <<plan, now, withdrawn>>

(* POST replan, saved (dryRun saves nothing): the cameras come from the
   request or from the registry. *)
Replan(request, report) ==
    LET weight == IF request = Null THEN RegistryWorkloads ELSE request
    IN  /\ Cardinality(DOMAIN weight) <= MaxWorkloads
        /\ plan' = MakePlan(weight, report)
        /\ withdrawn' = withdrawn \cup (LeasesOf(plan) \ LeasesOf(plan'))
        /\ UNCHANGED <<registry, now>>

Tick ==
    /\ now' = now + 1
    /\ UNCHANGED <<registry, plan, withdrawn>>

Next ==
    \/ \E r \in Registries : PatchComputeNodes(r)
    \/ \E w \in Workloads \cup {Null}, report \in [RegistryIds -> Reports \cup {Null}] :
          /\ PreviousNextToken <= MaxToken
          /\ Replan(w, report)
    \/ now < MaxNow /\ Tick

Spec == Init /\ [][Next]_vars

-----------------------------------------------------------------------------
(* What the planner and the fencing promise.                               *)

LeaseRec == [camera: Cameras, node: Nodes, token: Nat \ {0}]

(* Every variable has its type; every lease, past or present, has a token. *)
TypeOK ==
    /\ registry \in Registries
    /\ now \in 0..MaxNow
    /\ withdrawn \cup LeasesOf(plan) \subseteq LeaseRec
    /\ plan.saved => plan.nextToken \in Nat \ {0}

(* A node that was replaced, and comes back with the lease it had, is turned
   away for ever: also when its camera has left the plan and come back, and
   when the camera is its own again (leases.js: a smaller token is refused
   without exception). *)
ZombieFenced == \A l \in withdrawn : CheckFencing(l) # "ok"

F == INSTANCE FencedLeases WITH
        granted <- LeasesOf(plan), withdrawn <- withdrawn

(* The planner implements the leases that are promised to the recorders. *)
KeepsThePromise == F!Spec

Weigh(weight, cs) == MapThenSumSet(LAMBDA c : weight[c], cs)

(* The load the planner counts with, through placing, releasing and moving,
   is the weight of the cameras on the node, and no node is given more than
   it can carry. *)
LoadFits ==
    plan.saved => \A n \in DOMAIN plan.load :
        /\ plan.load[n] = Weigh(plan.weight, {c \in DOMAIN plan.lease : plan.lease[c].node = n})
        /\ plan.load[n] <= plan.capacity[n]

(* The cameras of the new plan that were on node n before it. *)
Held(n) == {c \in DOMAIN plan'.weight \cap DOMAIN PreviousLeases : PreviousLeases[c].node = n}

Left(n) == {c \in Held(n) : c \notin DOMAIN plan'.lease \/ plan'.lease[c].node # n}

(* A node of the new plan, in the given health, with room for all it held. *)
Carries(n, health) ==
    /\ n \in DOMAIN plan'.health /\ plan'.health[n] \in health
    /\ Weigh(plan'.weight, Held(n)) <= plan'.capacity[n]

(* Stability: a camera on a healthy node that can still carry all it held
   keeps node and token, whatever else is replanned (plan.js, invariant 2). *)
StaysPut ==
    [][plan' # plan => \A n \in Nodes : Carries(n, {"alive", "unknown"}) =>
          /\ Left(n) = {}
          /\ \A c \in Held(n) : PreviousLeases[c].token \in {Null, plan'.lease[c].token}]_vars

Room(n, c, extra) ==
    /\ plan'.health[n] \in {"alive", "unknown"}
    /\ plan'.load[n] - extra + plan'.weight[c] <= plan'.capacity[n]

(* Draining: at most DrainBatch cameras leave a node in one plan, none of
   them for nowhere, and fewer only when no other node has room for any of
   those that are left (plan.js, phase 3 and invariant 4). *)
DrainsGently ==
    [][plan' # plan => \A n \in Nodes : Carries(n, {"draining"}) =>
          /\ Cardinality(Left(n)) <= DrainBatch
          /\ Left(n) \subseteq DOMAIN plan'.lease
          /\ \/ Cardinality(Left(n)) = DrainBatch
             \/ \A c \in Held(n) \ Left(n), m \in DOMAIN plan'.health : ~Room(m, c, 0)]_vars

(* A camera stays without a node only if no node has room for it, and would
   have none even if nothing had been drained into it: whoever lost its node
   comes before whoever is only moved. *)
FailoverFirst ==
    [][plan' # plan => \A c \in plan'.unassigned, m \in DOMAIN plan'.health :
          LET drained == {d \in UNION {Left(n) : n \in {k \in Nodes : Carries(k, {"draining"})}} :
                             d \in DOMAIN plan'.lease /\ plan'.lease[d].node = m}
          IN  ~Room(m, c, Weigh(plan'.weight, drained))]_vars

=============================================================================
