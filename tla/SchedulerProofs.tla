-------------------------- MODULE SchedulerProofs --------------------------
(***************************************************************************)
(* The scheduler, for any number of nodes, cameras, reports and replans.   *)
(*                                                                         *)
(* The fencing is an argument about the tokens alone, whoever the owners   *)
(* are (FenceInv).  What the planner decides is proved loop by loop: a     *)
(* loop is a fold over a finite set in a total order, and an invariant of  *)
(* it relates the elements it has seen to the plan it has made of them     *)
(* (RetainLoop, PlaceLoop, DrainLoop, DrainAllLoop, which rest on          *)
(* induction over the subsets of a finite set).  The plan in the making is *)
(* always Sound: the load of a node is the weight of its cameras, within   *)
(* its capacity.                                                           *)
(***************************************************************************)
EXTENDS Scheduler, FiniteSetTheorems, WellFoundedInduction, TLAPS

PlanOK(pl) ==
    /\ pl.saved \in BOOLEAN
    /\ pl.saved => /\ pl.nextToken \in Nat \ {0}
                   /\ \A c \in DOMAIN pl.lease :
                         /\ pl.lease[c].token \in Nat \ {0}
                         /\ pl.lease[c].token < pl.nextToken

(* A lease that was withdrawn has a token below the counter. *)
PastOK ==
    \A l \in withdrawn :
        /\ plan.saved
        /\ l = [camera |-> l.camera, node |-> l.node, token |-> l.token]
        /\ l.token \in Nat /\ l.token < plan.nextToken

(* The inductive invariant: the counter is above every token that was ever
   given, and no lease is both withdrawn and in force. *)
FenceInv ==
    /\ registry \in Registries
    /\ PlanOK(plan)
    /\ PastOK
    /\ withdrawn \cap LeasesOf(plan) = {}

-----------------------------------------------------------------------------
(* With the counter above every previous token, the first new token is not
   below the counter. *)
LEMMA FirstTokenAbove ==
    ASSUME FenceInv
    PROVE  LET first == FirstToken(PreviousLeases, PreviousNextToken)
           IN  /\ first \in Nat \ {0}
               /\ first >= PreviousNextToken
<1> DEFINE prev == PreviousLeases
           above == {1, PreviousNextToken} \cup
                    {prev[c].token + 1 : c \in {d \in DOMAIN prev : prev[d].token # Null}}
           top == IF plan.saved THEN plan.nextToken ELSE 1
<1>1. PreviousNextToken \in Nat /\ top \in Nat \ {0} /\ top >= PreviousNextToken
  BY DEF FenceInv, PlanOK, PreviousNextToken
<1>2. \A c \in DOMAIN prev : prev[c].token # Null => prev[c].token \in Nat /\ prev[c].token < top
  <2>1. CASE plan.saved
    BY <2>1 DEF FenceInv, PlanOK, PreviousLeases
  <2>2. CASE ~plan.saved
    BY <2>2 DEF PreviousLeases
  <2> QED BY <2>1, <2>2
<1>3. top \in above /\ \A m \in above : m \in Nat /\ m <= top
  BY <1>1, <1>2 DEF PreviousNextToken
<1> HIDE DEF prev, above, top
<1>4. Max(above) \in above /\ \A m \in above : m <= Max(above)
  <2>1. \E x \in above : \A y \in above : x >= y
    BY <1>1, <1>3
  <2> QED BY <2>1, <1>1, <1>3 DEF Max
<1>5. Max(above) = top
  <2>1. Max(above) \in Nat /\ Max(above) <= top
    BY <1>3, <1>4
  <2>2. top \in Nat /\ top <= Max(above)
    BY <1>1, <1>3, <1>4
  <2> HIDE DEF Max
  <2> QED BY <2>1, <2>2
<1>6. FirstToken(PreviousLeases, PreviousNextToken) = Max(above)
  BY DEF FirstToken, above, prev
<1> QED BY <1>1, <1>5, <1>6

(* A new token is at least the first one and below the new counter. *)
LEMMA FreshTokens ==
    ASSUME NEW owner, NEW previous, NEW first \in Nat,
           IsFiniteSet(DOMAIN owner), DOMAIN owner \subseteq Nat
    PROVE  /\ first + Cardinality(Fresh(owner, previous)) \in Nat
           /\ first + Cardinality(Fresh(owner, previous)) >= first
           /\ \A c \in Fresh(owner, previous) :
                 LET t == first + Cardinality({d \in Fresh(owner, previous) : d < c})
                 IN  /\ t \in Nat /\ t >= first
                     /\ t < first + Cardinality(Fresh(owner, previous))
<1> DEFINE new == Fresh(owner, previous)
<1>1. IsFiniteSet(new) /\ new \subseteq Nat
  BY FS_Subset DEF Fresh
<1> HIDE DEF new
<1>2. Cardinality(new) \in Nat
  BY <1>1, FS_CardinalityType
<1>3. ASSUME NEW c \in new
      PROVE  /\ Cardinality({d \in new : d < c}) \in Nat
             /\ Cardinality({d \in new : d < c}) < Cardinality(new)
  <2> DEFINE below == {d \in new : d < c}
  <2>1. below \subseteq new /\ c \notin below
    BY <1>1, <1>3
  <2>2. /\ IsFiniteSet(below) /\ Cardinality(below) <= Cardinality(new)
        /\ Cardinality(below) = Cardinality(new) => new = below
    BY <1>1, <2>1, FS_Subset
  <2>3. Cardinality(below) \in Nat
    BY <2>2, FS_CardinalityType
  <2>4. Cardinality(below) # Cardinality(new)
    BY <2>1, <2>2, <1>3
  <2> HIDE DEF below
  <2>5. Cardinality(below) \in Nat /\ Cardinality(below) < Cardinality(new)
    BY <1>2, <2>2, <2>3, <2>4
  <2> QED BY <2>5 DEF below
<1>4. \A c \in new : /\ first + Cardinality({d \in new : d < c}) \in Nat
                     /\ first + Cardinality({d \in new : d < c}) >= first
                     /\ first + Cardinality({d \in new : d < c}) < first + Cardinality(new)
  BY <1>2, <1>3
<1> QED BY <1>2, <1>4 DEF new

(* What a plan made from an invariant state looks like: every lease is either
   one of the previous plan's, or has a token at or above the counter. *)
LEMMA PlanMade ==
    ASSUME FenceInv, NEW weight, NEW report,
           IsFiniteSet(DOMAIN weight), DOMAIN weight \subseteq Nat
    PROVE  LET new == MakePlan(weight, report)
           IN  /\ PlanOK(new) /\ new.saved
               /\ new.nextToken >= PreviousNextToken
               /\ \A l \in LeasesOf(new) :
                     l \in LeasesOf(plan) \/ l.token >= PreviousNextToken
<1> DEFINE previous == PreviousLeases
           health   == [n \in RegistryIds |-> NodeHealth(report[n])]
           cap      == [n \in RegistryIds |-> Capacity(n)]
           p        == Assign(weight, previous, RegistryIds, health, cap)
           first    == FirstToken(previous, PreviousNextToken)
           owner    == [c \in DOMAIN weight |-> p.owner[c]]
           owned    == {c \in DOMAIN weight : p.owner[c] # Null}
           new      == MakePlan(weight, report)
<1>1. first \in Nat \ {0} /\ first >= PreviousNextToken
  BY FirstTokenAbove
<1>2. /\ new.saved = TRUE
      /\ new.nextToken = first + Cardinality(Fresh(owner, previous))
      /\ new.lease = [c \in owned |->
                        [node |-> owner[c], token |-> TokenOf(c, owner, previous, first)]]
  BY DEF MakePlan
<1>3. DOMAIN owner = DOMAIN weight /\ owned \subseteq DOMAIN owner
      /\ \A c \in owned : owner[c] # Null
  OBVIOUS
<1> HIDE DEF previous, health, cap, p, first, owner, owned, new
<1>4. /\ first + Cardinality(Fresh(owner, previous)) \in Nat
      /\ first + Cardinality(Fresh(owner, previous)) >= first
      /\ \A c \in Fresh(owner, previous) :
            LET t == first + Cardinality({d \in Fresh(owner, previous) : d < c})
            IN  /\ t \in Nat /\ t >= first
                /\ t < first + Cardinality(Fresh(owner, previous))
  BY <1>1, <1>3, FreshTokens
<1>5. new.nextToken \in Nat \ {0} /\ new.nextToken >= PreviousNextToken
  <2>1. PreviousNextToken \in Nat
    BY DEF FenceInv, PlanOK, PreviousNextToken
  <2> QED BY <1>1, <1>2, <1>4, <2>1
<1>6. ASSUME NEW c \in owned
      PROVE  LET l == [camera |-> c, node |-> new.lease[c].node, token |-> new.lease[c].token]
             IN  /\ l.token \in Nat \ {0} /\ l.token < new.nextToken
                 /\ l \in LeasesOf(plan) \/ l.token >= PreviousNextToken
  <2>1. new.lease[c] = [node |-> owner[c], token |-> TokenOf(c, owner, previous, first)]
    BY <1>2
  <2>2. CASE SameOwner(owner, previous, c)
    <3>1. /\ c \in DOMAIN previous /\ previous[c].node = owner[c]
          /\ previous[c].token # Null
      BY <2>2 DEF SameOwner
    <3>2. plan.saved /\ previous = plan.lease
      BY <3>1 DEF previous, PreviousLeases
    <3>3. /\ previous[c].token \in Nat \ {0}
          /\ previous[c].token < PreviousNextToken
      BY <3>1, <3>2 DEF FenceInv, PlanOK, PreviousNextToken
    <3>4. new.lease[c].token = previous[c].token /\ new.lease[c].node = previous[c].node
      BY <2>1, <2>2, <3>1 DEF TokenOf
    <3>5. [camera |-> c, node |-> previous[c].node, token |-> previous[c].token] \in LeasesOf(plan)
      BY <3>1, <3>2 DEF LeasesOf
    <3>6. PreviousNextToken \in Nat
      BY DEF FenceInv, PlanOK, PreviousNextToken
    <3> QED BY <1>5, <3>3, <3>4, <3>5, <3>6
  <2>3. CASE ~SameOwner(owner, previous, c)
    <3>1. c \in Fresh(owner, previous)
      BY <1>3, <2>3 DEF Fresh
    <3>2. new.lease[c].token = first + Cardinality({d \in Fresh(owner, previous) : d < c})
      BY <2>1, <2>3 DEF TokenOf
    <3>3. /\ new.lease[c].token \in Nat /\ new.lease[c].token >= first
          /\ new.lease[c].token < new.nextToken
      BY <1>2, <1>4, <3>1, <3>2
    <3>4. PreviousNextToken \in Nat
      BY DEF FenceInv, PlanOK, PreviousNextToken
    <3> QED BY <1>1, <3>3, <3>4
  <2> QED BY <2>2, <2>3
<1>7. DOMAIN new.lease = owned
  BY <1>2
<1>8. PlanOK(new)
  BY <1>2, <1>5, <1>6, <1>7 DEF PlanOK
<1>9. \A l \in LeasesOf(new) : l \in LeasesOf(plan) \/ l.token >= PreviousNextToken
  <2> SUFFICES ASSUME NEW l \in LeasesOf(new)
               PROVE  l \in LeasesOf(plan) \/ l.token >= PreviousNextToken
    OBVIOUS
  <2>1. LeasesOf(new) = {[camera |-> c, node |-> new.lease[c].node,
                          token |-> new.lease[c].token] : c \in owned}
    BY <1>2, <1>7 DEF LeasesOf
  <2>2. PICK c \in owned : l = [camera |-> c, node |-> new.lease[c].node,
                                token |-> new.lease[c].token]
    BY <2>1
  <2> QED BY <1>6, <2>2
<1> QED BY <1>2, <1>5, <1>8, <1>9 DEF new

-----------------------------------------------------------------------------
LEMMA FenceInit == Init => FenceInv
  BY DEF Init, FenceInv, PlanOK, PastOK, NoPlan, LeasesOf

(* The nodes and cameras of a registry. *)
LEMMA RegistryTyped ==
    ASSUME registry \in Registries
    PROVE  /\ IsFiniteSet(RegistryIds) /\ RegistryIds \subseteq Nodes
           /\ \A n \in RegistryIds : Capacity(n) \in Nat
           /\ DOMAIN RegistryWorkloads \subseteq Cameras
           /\ RegistryWorkloads \in [DOMAIN RegistryWorkloads -> {1}]
<1> DEFINE Rec == [id : Nodes, capacity : Nat \cup {Null}, cameras : SUBSET Cameras]
<1>1. registry \in Seq(Rec)
  BY SchedulerConstants
<1>2. Len(registry) \in Nat /\ DOMAIN registry = 1 .. Len(registry)
  BY <1>1
<1>3. \A i \in DOMAIN registry : registry[i] \in Rec
  <2> HIDE DEF Rec
  <2>1. \A i \in 1 .. Len(registry) : registry[i] \in Rec
    BY <1>1
  <2> QED BY <1>2, <2>1
<1>4. IsFiniteSet(RegistryIds)
  <2> DEFINE idOf == [i \in DOMAIN registry |-> registry[i].id]
  <2>1. IsFiniteSet(DOMAIN registry)
    BY <1>2, FS_Interval
  <2>2. idOf \in Surjection(DOMAIN registry, RegistryIds)
    BY DEF RegistryIds, Surjection
  <2> QED BY <2>1, <2>2, FS_Surjection
<1>5. RegistryIds \subseteq Nodes
  BY <1>3 DEF RegistryIds
<1>6. ASSUME NEW k \in RegistryIds
      PROVE  Capacity(k) \in Nat
  <2>1. \E r \in {registry[i] : i \in DOMAIN registry} : r.id = k
    BY DEF RegistryIds
  <2>2. RegistryNode(k) \in {registry[i] : i \in DOMAIN registry}
    BY <2>1 DEF RegistryNode
  <2>3. RegistryNode(k) \in Rec
    BY <1>3, <2>2
  <2>4. RegistryNode(k).capacity \in Nat \cup {Null}
    BY <2>3
  <2> QED BY <2>4, SchedulerConstants DEF Capacity
<1>7. DOMAIN RegistryWorkloads \subseteq Cameras
  BY <1>3 DEF RegistryWorkloads
<1> QED BY <1>4, <1>5, <1>6, <1>7 DEF RegistryWorkloads

(* The cameras of a replan are finitely many, from the request or from the
   registry, and each of them weighs something. *)
LEMMA WeightFinite ==
    ASSUME registry \in Registries, NEW w \in Workloads \cup {Null}
    PROVE  LET weight == IF w = Null THEN RegistryWorkloads ELSE w
           IN  /\ IsFiniteSet(DOMAIN weight) /\ DOMAIN weight \subseteq Nat
               /\ DOMAIN weight \subseteq Cameras
               /\ weight \in [DOMAIN weight -> Nat \ {0}]
<1> DEFINE weight == IF w = Null THEN RegistryWorkloads ELSE w
<1>1. DOMAIN weight \subseteq Cameras /\ weight \in [DOMAIN weight -> Nat \ {0}]
  <2>1. CASE w = Null
    BY <2>1, RegistryTyped
  <2>2. CASE w # Null
    BY <2>2, SchedulerConstants
  <2> QED BY <2>1, <2>2
<1> QED BY <1>1, SchedulerConstants, FS_Subset

(* A replan keeps the invariant, and is a step of the abstract leases. *)
LEMMA ReplanFences ==
    ASSUME FenceInv, NEW w \in Workloads \cup {Null}, NEW report, Replan(w, report)
    PROVE  FenceInv' /\ F!Regrant
<1> DEFINE weight == IF w = Null THEN RegistryWorkloads ELSE w
           new == MakePlan(weight, report)
<1>1. plan' = new /\ withdrawn' = withdrawn \cup (LeasesOf(plan) \ LeasesOf(new))
      /\ registry' = registry
  BY DEF Replan
<1>2. IsFiniteSet(DOMAIN weight) /\ DOMAIN weight \subseteq Nat
  BY WeightFinite DEF FenceInv
<1> HIDE DEF weight
<1>3. /\ PlanOK(new) /\ new.saved
      /\ new.nextToken >= PreviousNextToken
      /\ \A l \in LeasesOf(new) : l \in LeasesOf(plan) \/ l.token >= PreviousNextToken
  BY <1>2, PlanMade
<1> HIDE DEF new
<1>4. PreviousNextToken \in Nat /\ new.nextToken \in Nat
  BY <1>3 DEF FenceInv, PlanOK, PreviousNextToken
<1>5. \A l \in withdrawn : l.token \in Nat /\ l.token < PreviousNextToken
  BY DEF FenceInv, PastOK, PreviousNextToken
<1>6. \A l \in LeasesOf(plan) : /\ l = [camera |-> l.camera, node |-> l.node, token |-> l.token]
                               /\ l.token \in Nat /\ l.token < PreviousNextToken
  BY DEF FenceInv, PlanOK, LeasesOf, PreviousNextToken
<1>7. withdrawn' \cap LeasesOf(new) = {}
  <2> SUFFICES ASSUME NEW l \in withdrawn, l \in LeasesOf(new)
               PROVE  FALSE
    BY <1>1
  <2>1. l \notin LeasesOf(plan)
    BY DEF FenceInv
  <2>2. l.token >= PreviousNextToken
    BY <1>3, <2>1
  <2> QED BY <1>4, <1>5, <2>2
<1>8. PastOK'
  <2> SUFFICES ASSUME NEW l \in withdrawn'
               PROVE  /\ new.saved
                      /\ l = [camera |-> l.camera, node |-> l.node, token |-> l.token]
                      /\ l.token \in Nat /\ l.token < new.nextToken
    BY <1>1 DEF PastOK
  <2>1. l \in withdrawn \/ l \in LeasesOf(plan)
    BY <1>1
  <2>2. l = [camera |-> l.camera, node |-> l.node, token |-> l.token]
    BY <2>1, <1>6 DEF FenceInv, PastOK
  <2>3. l.token \in Nat /\ l.token < PreviousNextToken
    BY <2>1, <1>5, <1>6
  <2> QED BY <1>3, <1>4, <2>2, <2>3
<1>9. FenceInv'
  BY <1>1, <1>3, <1>7, <1>8 DEF FenceInv, PlanOK, LeasesOf
<1>10. F!OnePerCamera(LeasesOf(new))
  BY DEF F!OnePerCamera, LeasesOf
<1>11. F!Regrant
  BY <1>1, <1>7, <1>10 DEF F!Regrant
<1> QED BY <1>9, <1>11

LEMMA FenceStep == FenceInv /\ [Next]_vars => FenceInv' /\ [F!Regrant]_<<LeasesOf(plan), withdrawn>>
<1> SUFFICES ASSUME FenceInv, [Next]_vars
             PROVE  FenceInv' /\ [F!Regrant]_<<LeasesOf(plan), withdrawn>>
  OBVIOUS
<1>1. ASSUME NEW r \in Registries, PatchComputeNodes(r)
      PROVE  FenceInv' /\ [F!Regrant]_<<LeasesOf(plan), withdrawn>>
  BY <1>1 DEF PatchComputeNodes, FenceInv, PlanOK, PastOK, LeasesOf
<1>2. ASSUME NEW w \in Workloads \cup {Null}, NEW report, Replan(w, report)
      PROVE  FenceInv' /\ [F!Regrant]_<<LeasesOf(plan), withdrawn>>
  BY <1>2, ReplanFences
<1>3. CASE Tick
  BY <1>3 DEF Tick, FenceInv, PlanOK, PastOK, LeasesOf
<1>4. CASE UNCHANGED vars
  BY <1>4 DEF vars, FenceInv, PlanOK, PastOK, LeasesOf
<1> QED BY <1>1, <1>2, <1>3, <1>4 DEF Next

LEMMA FenceZombie == FenceInv => ZombieFenced
<1> SUFFICES ASSUME FenceInv, NEW l \in withdrawn, CheckFencing(l) = "ok"
             PROVE  FALSE
  BY DEF ZombieFenced
<1>1. /\ plan.saved /\ l.camera \in DOMAIN plan.lease
      /\ ~(l.token < plan.lease[l.camera].token)
      /\ ~(l.token > plan.lease[l.camera].token)
      /\ l.node = plan.lease[l.camera].node
  BY DEF CheckFencing
<1>2. l.token \in Nat /\ plan.lease[l.camera].token \in Nat
  BY <1>1 DEF FenceInv, PastOK, PlanOK
<1>3. l.token = plan.lease[l.camera].token
  BY <1>1, <1>2
<1>4. l = [camera |-> l.camera, node |-> plan.lease[l.camera].node,
           token |-> plan.lease[l.camera].token]
  BY <1>1, <1>3 DEF FenceInv, PastOK
<1>5. l \in LeasesOf(plan)
  BY <1>1, <1>4 DEF LeasesOf
<1> QED BY <1>5 DEF FenceInv

LEMMA FenceAlways == Spec => []FenceInv
<1>1. FenceInv /\ [Next]_vars => FenceInv'
  BY FenceStep
<1> QED BY <1>1, FenceInit, PTL DEF Spec

(* A lease that a replan has withdrawn is refused by checkFencing for ever,
   whatever the planner decides later. *)
THEOREM ZombieIsFenced == Spec => []ZombieFenced
  BY FenceAlways, FenceZombie, PTL

(* The scheduler implements the abstract leases: one per camera, and none that
   was withdrawn comes back. *)
THEOREM SchedulerKeepsThePromise == Spec => KeepsThePromise
<1>1. Init => F!Init
  BY DEF Init, F!Init, LeasesOf, NoPlan
<1>2. FenceInv /\ [Next]_vars => [F!Regrant]_<<LeasesOf(plan), withdrawn>>
  BY FenceStep
<1> QED BY <1>1, <1>2, FenceAlways, PTL DEF Spec, KeepsThePromise, F!Spec

-----------------------------------------------------------------------------
(* Finite sets.                                                           *)

(* A non-empty set of numbers has a least one. *)
LEMMA LeastNumber ==
    ASSUME NEW S \in SUBSET Nat, S # {}
    PROVE  \E x \in S : \A y \in S : x <= y
<1> DEFINE R == OpToRel(<, Nat)
<1>1. IsWellFoundedOn(R, Nat)
  BY NatLessThanWellFounded
<1>2. \A x, y \in Nat : <<y, x>> \in R \/ x <= y
  BY DEF OpToRel
<1> HIDE DEF R
<1>3. PICK x \in S : \A y \in S : ~(<<y, x>> \in R)
  BY <1>1, WFMin
<1> QED BY <1>2, <1>3

(* Induction on a finite set: what holds of a set whenever it holds of all
   that lack one of its elements holds of every subset. *)
LEMMA SetInduction ==
    ASSUME NEW S, IsFiniteSet(S), NEW Good,
           \A T \in SUBSET S : (\A x \in T : T \ {x} \in Good) => T \in Good
    PROVE  \A T \in SUBSET S : T \in Good
<1> DEFINE Bad == {T \in SUBSET S : T \notin Good}
           Sizes == {Cardinality(T) : T \in Bad}
<1> SUFFICES ASSUME Bad # {}  PROVE FALSE
  OBVIOUS
<1>1. \A T \in SUBSET S : IsFiniteSet(T) /\ Cardinality(T) \in Nat
  BY FS_Subset, FS_CardinalityType
<1>2. Sizes \in SUBSET Nat /\ Sizes # {}
  BY <1>1
<1>3. PICK n \in Sizes : \A m \in Sizes : n <= m
  BY <1>2, LeastNumber
<1>4. PICK T \in Bad : n = Cardinality(T)
  BY <1>3
<1>5. PICK x \in T : T \ {x} \notin Good
  BY <1>4
<1>6. Cardinality(T \ {x}) = Cardinality(T) - 1
  BY <1>1, <1>4, <1>5, FS_RemoveElement
<1>7. T \ {x} \in Bad
  BY <1>4, <1>5
<1>8. n <= Cardinality(T \ {x}) /\ n \in Nat
  BY <1>2, <1>3, <1>7
<1> QED BY <1>4, <1>6, <1>8

(* A finite set has a last element in any total order. *)
LEMMA TotalHasLast ==
    ASSUME NEW S, IsFiniteSet(S), S # {}, NEW R,
           \A x, y \in S : <<x, y>> \in R \/ <<y, x>> \in R,
           \A x, y, z \in S : <<x, y>> \in R /\ <<y, z>> \in R => <<x, z>> \in R
    PROVE  \E x \in S : \A y \in S : <<y, x>> \in R
<1> DEFINE Good == {T \in SUBSET S : T # {} => \E x \in T : \A y \in T : <<y, x>> \in R}
<1>1. ASSUME NEW T \in SUBSET S, \A x \in T : T \ {x} \in Good
      PROVE  T \in Good
  <2> SUFFICES ASSUME NEW a \in T
               PROVE  \E x \in T : \A y \in T : <<y, x>> \in R
    OBVIOUS
  <2>1. CASE T \ {a} = {}
    BY <2>1
  <2>2. CASE T \ {a} # {}
    <3>1. PICK b \in T \ {a} : \A y \in T \ {a} : <<y, b>> \in R
      BY <1>1, <2>2
    <3>2. CASE <<a, b>> \in R
      BY <3>1, <3>2
    <3>3. CASE <<b, a>> \in R
      <4>1. \A y \in T : <<y, a>> \in R
        BY <3>1, <3>3
      <4> QED BY <4>1
    <3> QED BY <3>1, <3>2, <3>3
  <2> QED BY <2>1, <2>2
<1> HIDE DEF Good
<1>2. \A T \in SUBSET S : T \in Good
  BY <1>1, SetInduction
<1>3. S \in Good
  BY <1>2
<1> QED BY <1>3 DEF Good

-----------------------------------------------------------------------------
(* The loops.  g[T] is what the loop has made of base after the elements of T,
   the last of which is last[T]. *)
IsLoop(g, base, S, op, last) ==
    g = [T \in SUBSET S |-> IF T = {} THEN base ELSE op[<<g[T \ {last[T]}], last[T]>>]]

(* A loop over a finite set is well defined. *)
LEMMA LoopExists ==
    ASSUME NEW S, IsFiniteSet(S), NEW base, NEW op, NEW last,
           \A T \in SUBSET S : T # {} => last[T] \in T
    PROVE  \E g : IsLoop(g, base, S, op, last)
<1> DEFINE UpTo(n) == {T \in SUBSET S : Cardinality(T) <= n}
           Is(g, n) == g = [T \in UpTo(n) |-> IF T = {} THEN base
                                             ELSE op[<<g[T \ {last[T]}], last[T]>>]]
           Bad == {n \in Nat : ~\E g : Is(g, n)}
<1>1. \A T \in SUBSET S : IsFiniteSet(T) /\ Cardinality(T) \in Nat
  BY FS_Subset, FS_CardinalityType
<1>2. ASSUME NEW T \in SUBSET S, T # {}
      PROVE  /\ T \ {last[T]} \in SUBSET S
             /\ Cardinality(T \ {last[T]}) = Cardinality(T) - 1
  BY <1>1, <1>2, FS_RemoveElement
<1>3. 0 \notin Bad
  <2> DEFINE g == [T \in UpTo(0) |-> base]
  <2>1. \A T \in UpTo(0) : T = {}
    BY <1>1, FS_EmptySet
  <2>2. Is(g, 0)
    BY <2>1
  <2> HIDE DEF Is
  <2> QED BY <2>2
<1>4. ASSUME NEW n \in Nat, n \notin Bad
      PROVE  n + 1 \notin Bad
  <2>1. PICK g : Is(g, n)
    BY <1>4
  <2> DEFINE h == [T \in UpTo(n + 1) |-> IF T = {} THEN base
                                        ELSE op[<<g[T \ {last[T]}], last[T]>>]]
  <2>2. ASSUME NEW T \in UpTo(n + 1), T # {}
        PROVE  h[T \ {last[T]}] = g[T \ {last[T]}]
    <3> DEFINE U == T \ {last[T]}
    <3>1. U \in UpTo(n) /\ U \in UpTo(n + 1)
      BY <1>1, <1>2, <2>2
    <3>2. g[U] = IF U = {} THEN base ELSE op[<<g[U \ {last[U]}], last[U]>>]
      BY <2>1, <3>1
    <3> QED BY <3>1, <3>2
  <2>3. Is(h, n + 1)
    BY <2>2
  <2> HIDE DEF Is, h
  <2> QED BY <2>3
<1> HIDE DEF Bad
<1>5. Bad = {}
  <2> SUFFICES ASSUME Bad # {} PROVE FALSE
    OBVIOUS
  <2>1. Bad \in SUBSET Nat
    BY DEF Bad
  <2>2. PICK n \in Bad : \A m \in Bad : n <= m
    BY <2>1, LeastNumber
  <2>3. n \in Nat /\ n # 0
    BY <1>3, <2>1, <2>2
  <2>4. n - 1 \in Nat /\ n - 1 \notin Bad
    BY <2>1, <2>2, <2>3
  <2>5. (n - 1) + 1 \notin Bad
    BY <1>4, <2>4
  <2> QED BY <2>2, <2>3, <2>5
<1>6. PICK g : Is(g, Cardinality(S))
  <2>1. Cardinality(S) \in Nat
    BY FS_CardinalityType
  <2> HIDE DEF Is
  <2> QED BY <1>5, <2>1 DEF Bad
<1>7. UpTo(Cardinality(S)) = SUBSET S
  BY FS_Subset
<1> QED BY <1>6, <1>7 DEF IsLoop

(* An invariant of a loop, as a relation between the elements it has seen and
   what it has made. *)
StepKeeps(S, last, g, Inv) ==
    /\ IsFiniteSet(S) /\ \A T \in SUBSET S : T # {} => last[T] \in T
    /\ <<{}, g[{}]>> \in Inv
    /\ \A T \in SUBSET S :
          T # {} /\ <<T \ {last[T]}, g[T \ {last[T]}]>> \in Inv => <<T, g[T]>> \in Inv

LEMMA LoopInvariant ==
    ASSUME NEW S, NEW last, NEW g, NEW Inv, StepKeeps(S, last, g, Inv)
    PROVE  \A T \in SUBSET S : <<T, g[T]>> \in Inv
<1> DEFINE Good == {T \in SUBSET S : <<T, g[T]>> \in Inv}
<1>1. ASSUME NEW T \in SUBSET S, \A x \in T : T \ {x} \in Good
      PROVE  T \in Good
  <2>1. CASE T = {}
    BY <2>1 DEF StepKeeps
  <2>2. CASE T # {}
    BY <1>1, <2>2 DEF StepKeeps
  <2> QED BY <2>1, <2>2
<1> HIDE DEF Good
<1>2. \A T \in SUBSET S : T \in Good
  BY <1>1, SetInduction DEF StepKeeps
<1> QED BY <1>2 DEF Good

-----------------------------------------------------------------------------
(* Weights.                                                                *)

Some(T) == CHOOSE x \in T : TRUE

IsSum(g, weight, S) ==
    g = [T \in SUBSET S |-> IF T = {} THEN 0 ELSE weight[Some(T)] + g[T \ {Some(T)}]]

(* A sum over a finite set is well defined. *)
LEMMA SumExists ==
    ASSUME NEW S, IsFiniteSet(S), NEW weight, \A c \in S : weight[c] \in Nat
    PROVE  \E g : IsSum(g, weight, S) /\ \A T \in SUBSET S : g[T] \in Nat
<1> DEFINE op == [z \in Nat \X S |-> weight[z[2]] + z[1]]
           last == [T \in SUBSET S |-> Some(T)]
<1>1. \A T \in SUBSET S : T # {} => last[T] \in T
  BY DEF Some
<1>2. PICK g : IsLoop(g, 0, S, op, last)
  BY <1>1, LoopExists
<1>3. \A T \in SUBSET S : g[T] \in Nat
  <2> DEFINE Inv == (SUBSET S) \X Nat
  <2>1. ASSUME NEW T \in SUBSET S, T # {}, <<T \ {last[T]}, g[T \ {last[T]}]>> \in Inv
        PROVE  <<T, g[T]>> \in Inv
    <3>1. last[T] \in S /\ g[T \ {last[T]}] \in Nat
      BY <1>1, <2>1
    <3>2. op[<<g[T \ {last[T]}], last[T]>>] = weight[last[T]] + g[T \ {last[T]}]
      BY <3>1
    <3>3. g[T] = op[<<g[T \ {last[T]}], last[T]>>]
      BY <1>2, <2>1 DEF IsLoop
    <3> QED BY <3>1, <3>2, <3>3
  <2>2. <<{}, g[{}]>> \in Inv
    BY <1>2 DEF IsLoop
  <2> HIDE DEF Inv, last, op
  <2>3. \A T \in SUBSET S :
           T # {} /\ <<T \ {last[T]}, g[T \ {last[T]}]>> \in Inv => <<T, g[T]>> \in Inv
    BY <2>1
  <2>4. StepKeeps(S, last, g, Inv)
    BY <1>1, <2>2, <2>3 DEF StepKeeps
  <2>5. \A T \in SUBSET S : <<T, g[T]>> \in Inv
    BY <2>4, LoopInvariant
  <2> QED BY <2>5 DEF Inv
<1>4. IsSum(g, weight, S)
  <2>1. ASSUME NEW T \in SUBSET S, T # {}
        PROVE  op[<<g[T \ {last[T]}], last[T]>>] = weight[Some(T)] + g[T \ {Some(T)}]
    <3>1. last[T] = Some(T) /\ last[T] \in S /\ g[T \ {last[T]}] \in Nat
      BY <1>1, <1>3, <2>1
    <3> QED BY <3>1
  <2> HIDE DEF op, last
  <2> QED BY <1>2, <2>1 DEF IsLoop, IsSum
<1> QED BY <1>3, <1>4

(* Sums over two sets agree on the subsets of both. *)
LEMMA SumsAgree ==
    ASSUME NEW S, IsFiniteSet(S), NEW S2 \in SUBSET S, NEW weight, NEW g, NEW h,
           IsSum(g, weight, S), IsSum(h, weight, S2)
    PROVE  \A T \in SUBSET S2 : g[T] = h[T]
<1> DEFINE Good == {T \in SUBSET S2 : g[T] = h[T]}
<1>1. IsFiniteSet(S2)
  BY FS_Subset
<1>2. ASSUME NEW T \in SUBSET S2, \A x \in T : T \ {x} \in Good
      PROVE  T \in Good
  <2>1. /\ g[T] = IF T = {} THEN 0 ELSE weight[Some(T)] + g[T \ {Some(T)}]
        /\ h[T] = IF T = {} THEN 0 ELSE weight[Some(T)] + h[T \ {Some(T)}]
    BY DEF IsSum
  <2>2. T # {} => Some(T) \in T
    BY DEF Some
  <2>3. T # {} => g[T \ {Some(T)}] = h[T \ {Some(T)}]
    BY <1>2, <2>2
  <2> QED BY <2>1, <2>3
<1> HIDE DEF Good
<1>3. \A T \in SUBSET S2 : T \in Good
  BY <1>1, <1>2, SetInduction
<1> QED BY <1>3 DEF Good

(* Weigh is a sum: of nothing 0, else one camera and the others. *)
LEMMA WeighIsSum ==
    ASSUME NEW S, IsFiniteSet(S), NEW weight, \A c \in S : weight[c] \in Nat
    PROVE  /\ Weigh(weight, S) \in Nat
           /\ \A T \in SUBSET S : Weigh(weight, T) = 
                  IF T = {} THEN 0 ELSE weight[Some(T)] + Weigh(weight, T \ {Some(T)})
<1>1. ASSUME NEW T
      PROVE  Weigh(weight, T) = (CHOOSE g : IsSum(g, weight, T))[T]
  BY DEF Weigh, MapThenSumSet, MapThenFoldSet, IsSum, Some
<1>2. PICK g : IsSum(g, weight, S) /\ \A T \in SUBSET S : g[T] \in Nat
  BY SumExists
<1>3. ASSUME NEW T \in SUBSET S
      PROVE  Weigh(weight, T) = g[T]
  <2> DEFINE h == CHOOSE k : IsSum(k, weight, T)
  <2>1. IsFiniteSet(T) /\ \A c \in T : weight[c] \in Nat
    BY FS_Subset
  <2>2. \E k : IsSum(k, weight, T)
    BY <2>1, SumExists
  <2>3. IsSum(h, weight, T)
    BY <2>2
  <2> HIDE DEF h
  <2>4. g[T] = h[T]
    BY <1>2, <2>3, SumsAgree
  <2> QED BY <1>1, <2>4 DEF h
<1>4. ASSUME NEW T \in SUBSET S
      PROVE  g[T] = IF T = {} THEN 0 ELSE weight[Some(T)] + g[T \ {Some(T)}]
  BY <1>2 DEF IsSum
<1>5. \A T \in SUBSET S : T \ {Some(T)} \in SUBSET S
  OBVIOUS
<1> QED BY <1>2, <1>3, <1>4, <1>5

(* One camera more, and two sets of cameras. *)
LEMMA WeighAdd ==
    ASSUME NEW S, IsFiniteSet(S), NEW weight, \A c \in S : weight[c] \in Nat,
           NEW T \in SUBSET S, NEW c \in S \ T
    PROVE  Weigh(weight, T \cup {c}) = Weigh(weight, T) + weight[c]
<1> DEFINE W(U) == Weigh(weight, U)
           Good == {U \in SUBSET S : \A d \in S \ U : W(U \cup {d}) = W(U) + weight[d]}
<1>1. ASSUME NEW U \in SUBSET S
      PROVE  /\ W(U) \in Nat
             /\ U # {} => Some(U) \in U /\ W(U) = weight[Some(U)] + W(U \ {Some(U)})
  <2>1. IsFiniteSet(U) /\ \A d \in U : weight[d] \in Nat
    BY FS_Subset
  <2>2. U # {} => Some(U) \in U
    BY DEF Some
  <2> QED BY <2>1, <2>2, WeighIsSum
<1> HIDE DEF W
<1>2. ASSUME NEW U \in SUBSET S, \A x \in U : U \ {x} \in Good, NEW d \in S \ U
      PROVE  W(U \cup {d}) = W(U) + weight[d]
  <2> DEFINE V == U \cup {d}
             m == Some(V)
  <2>1. V \in SUBSET S /\ m \in V /\ W(V) = weight[m] + W(V \ {m})
    BY <1>1
  <2>4. W(U) \in Nat /\ weight[d] \in Nat /\ V = U \cup {d}
    BY <1>1
  <2> HIDE DEF m, V
  <2>2. CASE m = d
    <3>1. V \ {m} = U
      BY <2>2, <2>4
    <3> QED BY <2>1, <2>2, <2>4, <3>1
  <2>3. CASE m # d
    <3>1. m \in U /\ U \ {m} \in Good
      BY <1>2, <2>1, <2>3, <2>4
    <3>2. V \ {m} = (U \ {m}) \cup {d} /\ U = (U \ {m}) \cup {m}
      BY <2>3, <2>4, <3>1
    <3>3. W((U \ {m}) \cup {d}) = W(U \ {m}) + weight[d]
      BY <3>1
    <3>4. W((U \ {m}) \cup {m}) = W(U \ {m}) + weight[m]
      BY <3>1
    <3>5. W(U \ {m}) \in Nat /\ weight[m] \in Nat /\ weight[d] \in Nat
      BY <1>1, <3>1
    <3>6. W(V) = weight[m] + W(V \ {m})
      BY <2>1
    <3>7. W(V) = weight[m] + (W(U \ {m}) + weight[d])
      BY <3>2, <3>3, <3>6
    <3>8. W(U) = W(U \ {m}) + weight[m]
      BY <3>2, <3>4
    <3>9. W(V) = W(U) + weight[d]
      BY <3>5, <3>7, <3>8
    <3> QED BY <2>4, <3>9
  <2> QED BY <2>2, <2>3
<1>3. \A U \in SUBSET S : (\A x \in U : U \ {x} \in Good) => U \in Good
  BY <1>2
<1> HIDE DEF Good
<1>4. T \in Good
  <2>1. \A U \in SUBSET S : U \in Good
    BY <1>3, SetInduction
  <2> QED BY <2>1
<1> QED BY <1>4 DEF Good, W

(* Two sets of cameras without a common one weigh what both weigh. *)
LEMMA WeighUnion ==
    ASSUME NEW S, IsFiniteSet(S), NEW weight, \A c \in S : weight[c] \in Nat,
           NEW T \in SUBSET S, NEW U \in SUBSET S, T \cap U = {}
    PROVE  /\ Weigh(weight, T) \in Nat /\ Weigh(weight, U) \in Nat
           /\ Weigh(weight, T \cup U) = Weigh(weight, T) + Weigh(weight, U)
<1> DEFINE W(V) == Weigh(weight, V)
           Good == {V \in SUBSET U : W(T \cup V) = W(T) + W(V)}
<1>1. \A V \in SUBSET S : W(V) \in Nat
  <2> TAKE V \in SUBSET S
  <2>1. IsFiniteSet(V) /\ \A d \in V : weight[d] \in Nat
    BY FS_Subset
  <2> QED BY <2>1, WeighIsSum
<1>2. \A V \in SUBSET S : \A c \in S \ V : W(V \cup {c}) = W(V) + weight[c]
  BY WeighAdd
<1>3. W({}) = 0
  <2>1. \A V \in SUBSET S : Weigh(weight, V) =
            IF V = {} THEN 0 ELSE weight[Some(V)] + Weigh(weight, V \ {Some(V)})
    BY WeighIsSum
  <2>2. {} \in SUBSET S
    OBVIOUS
  <2> QED BY <2>1, <2>2
<1> HIDE DEF W
<1>4. ASSUME NEW V \in SUBSET U, \A x \in V : V \ {x} \in Good
      PROVE  W(T \cup V) = W(T) + W(V)
  <2>1. CASE V = {}
    <3>1. T \cup V = T
      BY <2>1
    <3> QED BY <1>1, <1>3, <2>1, <3>1
  <2>2. CASE V # {}
    <3>1. PICK x : x \in V
      BY <2>2
    <3>2. W(T \cup (V \ {x})) = W(T) + W(V \ {x})
      BY <1>4, <3>1
    <3>3. /\ T \cup V = (T \cup (V \ {x})) \cup {x} /\ V = (V \ {x}) \cup {x}
          /\ x \in S \ (T \cup (V \ {x})) /\ x \in S \ (V \ {x})
          /\ T \cup (V \ {x}) \in SUBSET S /\ V \ {x} \in SUBSET S
      BY <3>1
    <3>4. W(T \cup V) = W(T \cup (V \ {x})) + weight[x] /\ W(V) = W(V \ {x}) + weight[x]
      BY <1>2, <3>3
    <3>5. W(T) \in Nat /\ W(V \ {x}) \in Nat /\ weight[x] \in Nat
      BY <1>1, <3>3
    <3> QED BY <3>2, <3>4, <3>5
  <2> QED BY <2>1, <2>2
<1>5. \A V \in SUBSET U : (\A x \in V : V \ {x} \in Good) => V \in Good
  BY <1>4
<1>6. IsFiniteSet(U)
  BY FS_Subset
<1> HIDE DEF Good
<1>7. U \in Good
  <2>1. \A V \in SUBSET U : V \in Good
    BY <1>5, <1>6, SetInduction
  <2> QED BY <2>1
<1> QED BY <1>1, <1>7 DEF Good, W

(* Fewer cameras do not weigh more. *)
LEMMA WeighMonotone ==
    ASSUME NEW S, IsFiniteSet(S), NEW weight, \A c \in S : weight[c] \in Nat,
           NEW U \in SUBSET S, NEW T \in SUBSET U
    PROVE  /\ Weigh(weight, T) \in Nat /\ Weigh(weight, U) \in Nat
           /\ Weigh(weight, T) <= Weigh(weight, U)
<1>1. \A X \in SUBSET S : \A Y \in SUBSET S : X \cap Y = {} =>
            Weigh(weight, X \cup Y) = Weigh(weight, X) + Weigh(weight, Y)
  BY WeighUnion
<1>2. \A X \in SUBSET S : Weigh(weight, X) \in Nat
  <2> TAKE X \in SUBSET S
  <2>1. IsFiniteSet(X) /\ \A d \in X : weight[d] \in Nat
    BY FS_Subset
  <2> QED BY <2>1, WeighIsSum
<1>3. PICK D \in SUBSET S : T \cap D = {} /\ T \cup D = U
  <2>1. U \ T \in SUBSET S /\ T \cap (U \ T) = {} /\ T \cup (U \ T) = U
    OBVIOUS
  <2> QED BY <2>1
<1>4. Weigh(weight, U) = Weigh(weight, T) + Weigh(weight, D)
  <2>1. T \in SUBSET S
    OBVIOUS
  <2>2. Weigh(weight, T \cup D) = Weigh(weight, T) + Weigh(weight, D)
    BY <1>1, <1>3, <2>1
  <2> QED BY <1>3, <2>2
<1> QED BY <1>2, <1>4

-----------------------------------------------------------------------------
(* The loops of the planner.                                               *)

Healths == {"alive", "unknown", "draining", "dead"}

(* What the planner is given. *)
InputOK(weight, ns, health, cap) ==
    /\ IsFiniteSet(DOMAIN weight) /\ DOMAIN weight \subseteq Nat
    /\ weight \in [DOMAIN weight -> Nat \ {0}]
    /\ IsFiniteSet(ns) /\ ns \subseteq Nat /\ Null \notin ns
    /\ health \in [ns -> Healths] /\ cap \in [ns -> Nat]

LastCamera(T, weight) == LastOf(T, LAMBDA a, b : Before(weight, a, b))

LastNode(T) == LastOf(T, LAMBDA a, b : a < b)

(* The canonical order of the cameras and the order of the nodes have a last
   element: the loops are over what they say they are. *)
LEMMA LastCameraIn ==
    ASSUME NEW weight, IsFiniteSet(DOMAIN weight), DOMAIN weight \subseteq Nat,
           \A c \in DOMAIN weight : weight[c] \in Nat,
           NEW T \in SUBSET DOMAIN weight, T # {}
    PROVE  LastCamera(T, weight) \in T
<1> DEFINE R == {z \in T \X T : z[1] = z[2] \/ Before(weight, z[1], z[2])}
<1>1. \A a, b \in T : <<a, b>> \in R <=> a = b \/ Before(weight, a, b)
  OBVIOUS
<1>2. \A a \in T : a \in Nat /\ weight[a] \in Nat
  OBVIOUS
<1> HIDE DEF R
<1>3. \A a, b \in T : <<a, b>> \in R \/ <<b, a>> \in R
  <2> TAKE a, b \in T
  <2>1. a \in Nat /\ b \in Nat /\ weight[a] \in Nat /\ weight[b] \in Nat
    BY <1>2
  <2>2. a = b \/ Before(weight, a, b) \/ Before(weight, b, a)
    BY <2>1 DEF Before
  <2> QED BY <1>1, <2>2
<1>4. \A a, b, c \in T : <<a, b>> \in R /\ <<b, c>> \in R => <<a, c>> \in R
  BY <1>1, <1>2 DEF Before
<1>5. IsFiniteSet(T)
  BY FS_Subset
<1>6. \E x \in T : \A y \in T : <<y, x>> \in R
  BY <1>3, <1>4, <1>5, TotalHasLast
<1>7. \E x \in T : \A y \in T : y = x \/ Before(weight, y, x)
  BY <1>1, <1>6
<1> QED BY <1>7 DEF LastCamera, LastOf

LEMMA LastNodeIn ==
    ASSUME NEW T \in SUBSET Nat, IsFiniteSet(T), T # {}
    PROVE  LastNode(T) \in T
<1> DEFINE R == {z \in T \X T : z[1] <= z[2]}
<1>1. \A a, b \in T : <<a, b>> \in R <=> a <= b
  OBVIOUS
<1>2. \A a \in T : a \in Nat
  OBVIOUS
<1> HIDE DEF R
<1>3. \A a, b \in T : <<a, b>> \in R \/ <<b, a>> \in R
  <2> TAKE a, b \in T
  <2>1. a <= b \/ b <= a
    BY <1>2
  <2> QED BY <1>1, <2>1
<1>4. \A a, b, c \in T : <<a, b>> \in R /\ <<b, c>> \in R => <<a, c>> \in R
  BY <1>1, <1>2
<1>5. \E x \in T : \A y \in T : <<y, x>> \in R
  BY <1>3, <1>4, TotalHasLast
<1>6. \E x \in T : \A y \in T : y = x \/ y < x
  <2>1. PICK x \in T : \A y \in T : <<y, x>> \in R
    BY <1>5
  <2>2. \A y \in T : y = x \/ y < x
    <3> TAKE y \in T
    <3>1. y <= x /\ x \in Nat /\ y \in Nat
      BY <1>1, <1>2, <2>1
    <3> QED BY <3>1
  <2> QED BY <2>2
<1> QED BY <1>6 DEF LastNode, LastOf

(* A loop that keeps an invariant, a set of pairs: elements seen, and what was
   made of them. *)
LoopKeeps(S, base, op, last, Inv) ==
    /\ IsFiniteSet(S) /\ \A T \in SUBSET S : T # {} => last[T] \in T
    /\ <<{}, base>> \in Inv
    /\ \A T \in SUBSET S : \A q : \A c \in T :
          <<T \ {c}, q>> \in Inv => <<T, op[<<q, c>>]>> \in Inv

LEMMA LoopRuns ==
    ASSUME NEW S, NEW last, NEW base, NEW op, NEW Inv, LoopKeeps(S, base, op, last, Inv)
    PROVE  \E g : /\ IsLoop(g, base, S, op, last)
                  /\ \A T \in SUBSET S : <<T, g[T]>> \in Inv
<1>1. PICK g : IsLoop(g, base, S, op, last)
  BY LoopExists DEF LoopKeeps
<1>2. <<{}, g[{}]>> \in Inv
  BY <1>1 DEF IsLoop, LoopKeeps
<1>3. ASSUME NEW T \in SUBSET S, T # {}, <<T \ {last[T]}, g[T \ {last[T]}]>> \in Inv
      PROVE  <<T, g[T]>> \in Inv
  <2>1. g[T] = op[<<g[T \ {last[T]}], last[T]>>]
    BY <1>1, <1>3 DEF IsLoop
  <2>2. last[T] \in T
    BY <1>3 DEF LoopKeeps
  <2> QED BY <1>3, <2>1, <2>2 DEF LoopKeeps
<1>4. \A T \in SUBSET S : <<T, g[T]>> \in Inv
  <2>1. StepKeeps(S, last, g, Inv)
    BY <1>2, <1>3 DEF LoopKeeps, StepKeeps
  <2> QED BY <2>1, LoopInvariant
<1> QED BY <1>1, <1>4

(* RetainAll, PlaceAll, Drain and DrainAll end in their invariants. *)
LEMMA RetainLoop ==
    ASSUME NEW weight, NEW previous, NEW ns, NEW health, NEW cap, NEW p, NEW Inv,
           InputOK(weight, ns, health, cap), <<{}, p>> \in Inv,
           \A T \in SUBSET DOMAIN weight : \A q : \A c \in T :
              <<T \ {c}, q>> \in Inv => <<T, Retain(q, c, weight, previous, ns, health, cap)>> \in Inv
    PROVE  <<DOMAIN weight, RetainAll(p, weight, previous, ns, health, cap)>> \in Inv
<1> DEFINE S == DOMAIN weight
           Step(q, c) == Retain(q, c, weight, previous, ns, health, cap)
           Last(T) == LastCamera(T, weight)
           last == [T \in SUBSET S |-> Last(T)]
           seen == {y[2] : y \in Inv}
           op == [z \in seen \X S |-> Step(z[1], z[2])]
           base == p
           Is(g) == g = [T \in SUBSET S |-> IF T = {} THEN base
                                            ELSE Step(g[T \ {Last(T)}], Last(T))]
           h == CHOOSE g : Is(g)
<1>1. IsFiniteSet(S) /\ \A T \in SUBSET S : T # {} => Last(T) \in T
  BY LastCameraIn DEF InputOK
<1>2. RetainAll(p, weight, previous, ns, health, cap) = h[S]
  BY DEF RetainAll, InCanonicalOrder, FoldInOrder, MapThenFoldSet, LastCamera
<1>3. \A T \in SUBSET S : \A q : \A c \in T : <<T \ {c}, q>> \in Inv => <<T, Step(q, c)>> \in Inv
  OBVIOUS
<1> HIDE DEF Step, Last, h
<1>4. <<{}, base>> \in Inv
  OBVIOUS
<1> HIDE DEF base
<1>5. \A T \in SUBSET S : T # {} => last[T] \in T /\ last[T] = Last(T)
  BY <1>1
<1>6. \A T, q : <<T, q>> \in Inv => q \in seen
  OBVIOUS
<1> HIDE DEF seen
<1>7. \A q \in seen : \A c \in S : op[<<q, c>>] = Step(q, c)
  OBVIOUS
<1> HIDE DEF op, last
<1>8. \A T \in SUBSET S : \A q : \A c \in T :
          <<T \ {c}, q>> \in Inv => <<T, op[<<q, c>>]>> \in Inv
  BY <1>3, <1>6, <1>7
<1>9. PICK g : IsLoop(g, base, S, op, last) /\ \A T \in SUBSET S : <<T, g[T]>> \in Inv
  <2>1. LoopKeeps(S, base, op, last, Inv)
    BY <1>1, <1>4, <1>5, <1>8 DEF LoopKeeps
  <2> HIDE DEF S, Is
  <2> QED BY <2>1, LoopRuns
<1>10. Is(g)
  <2>1. \A T \in SUBSET S : T # {} => op[<<g[T \ {last[T]}], last[T]>>]
                                        = Step(g[T \ {Last(T)}], Last(T))
    BY <1>5, <1>6, <1>7, <1>9
  <2> QED BY <1>9, <2>1 DEF IsLoop
<1>11. Is(h)
  <2> HIDE DEF Is
  <2> QED BY <1>10 DEF h
<1>12. <<{}, h[{}]>> \in Inv
  BY <1>4, <1>11
<1>13. \A T \in SUBSET S : T # {} => h[T] = Step(h[T \ {last[T]}], last[T])
  BY <1>5, <1>11
<1> HIDE DEF Is, S
<1>14. ASSUME NEW T \in SUBSET S, T # {}, <<T \ {last[T]}, h[T \ {last[T]}]>> \in Inv
       PROVE  <<T, h[T]>> \in Inv
  BY <1>3, <1>5, <1>13, <1>14
<1>15. \A T \in SUBSET S : <<T, h[T]>> \in Inv
  <2>1. StepKeeps(S, last, h, Inv)
    BY <1>1, <1>5, <1>12, <1>14 DEF StepKeeps
  <2> QED BY <2>1, LoopInvariant
<1> QED BY <1>2, <1>15 DEF S

(* Phase 2 is a loop that keeps its invariant. *)
LEMMA PlaceLoop ==
    ASSUME NEW weight, NEW ns, NEW health, NEW cap, NEW p, NEW Inv,
           InputOK(weight, ns, health, cap), <<{}, p>> \in Inv,
           \A T \in SUBSET DOMAIN weight : \A q : \A c \in T :
              <<T \ {c}, q>> \in Inv => <<T, PlaceDeferred(q, c, weight, ns, health, cap)>> \in Inv
    PROVE  <<DOMAIN weight, PlaceAll(p, weight, ns, health, cap)>> \in Inv
<1> DEFINE S == DOMAIN weight
           Step(q, c) == PlaceDeferred(q, c, weight, ns, health, cap)
           Last(T) == LastCamera(T, weight)
           last == [T \in SUBSET S |-> Last(T)]
           seen == {y[2] : y \in Inv}
           op == [z \in seen \X S |-> Step(z[1], z[2])]
           base == p
           Is(g) == g = [T \in SUBSET S |-> IF T = {} THEN base
                                            ELSE Step(g[T \ {Last(T)}], Last(T))]
           h == CHOOSE g : Is(g)
<1>1. IsFiniteSet(S) /\ \A T \in SUBSET S : T # {} => Last(T) \in T
  BY LastCameraIn DEF InputOK
<1>2. PlaceAll(p, weight, ns, health, cap) = h[S]
  BY DEF PlaceAll, InCanonicalOrder, FoldInOrder, MapThenFoldSet, LastCamera
<1>3. \A T \in SUBSET S : \A q : \A c \in T : <<T \ {c}, q>> \in Inv => <<T, Step(q, c)>> \in Inv
  OBVIOUS
<1> HIDE DEF Step, Last, h
<1>4. <<{}, base>> \in Inv
  OBVIOUS
<1> HIDE DEF base
<1>5. \A T \in SUBSET S : T # {} => last[T] \in T /\ last[T] = Last(T)
  BY <1>1
<1>6. \A T, q : <<T, q>> \in Inv => q \in seen
  OBVIOUS
<1> HIDE DEF seen
<1>7. \A q \in seen : \A c \in S : op[<<q, c>>] = Step(q, c)
  OBVIOUS
<1> HIDE DEF op, last
<1>8. \A T \in SUBSET S : \A q : \A c \in T :
          <<T \ {c}, q>> \in Inv => <<T, op[<<q, c>>]>> \in Inv
  BY <1>3, <1>6, <1>7
<1>9. PICK g : IsLoop(g, base, S, op, last) /\ \A T \in SUBSET S : <<T, g[T]>> \in Inv
  <2>1. LoopKeeps(S, base, op, last, Inv)
    BY <1>1, <1>4, <1>5, <1>8 DEF LoopKeeps
  <2> HIDE DEF S, Is
  <2> QED BY <2>1, LoopRuns
<1>10. Is(g)
  <2>1. \A T \in SUBSET S : T # {} => op[<<g[T \ {last[T]}], last[T]>>]
                                        = Step(g[T \ {Last(T)}], Last(T))
    BY <1>5, <1>6, <1>7, <1>9
  <2> QED BY <1>9, <2>1 DEF IsLoop
<1>11. Is(h)
  <2> HIDE DEF Is
  <2> QED BY <1>10 DEF h
<1>12. <<{}, h[{}]>> \in Inv
  BY <1>4, <1>11
<1>13. \A T \in SUBSET S : T # {} => h[T] = Step(h[T \ {last[T]}], last[T])
  BY <1>5, <1>11
<1> HIDE DEF Is, S
<1>14. ASSUME NEW T \in SUBSET S, T # {}, <<T \ {last[T]}, h[T \ {last[T]}]>> \in Inv
       PROVE  <<T, h[T]>> \in Inv
  BY <1>3, <1>5, <1>13, <1>14
<1>15. \A T \in SUBSET S : <<T, h[T]>> \in Inv
  <2>1. StepKeeps(S, last, h, Inv)
    BY <1>1, <1>5, <1>12, <1>14 DEF StepKeeps
  <2> QED BY <2>1, LoopInvariant
<1> QED BY <1>2, <1>15 DEF S

(* The draining of one node is a loop that keeps its invariant. *)
LEMMA DrainLoop ==
    ASSUME NEW weight, NEW n, NEW ns, NEW health, NEW cap, NEW p, NEW Inv,
           InputOK(weight, ns, health, cap), <<{}, [p EXCEPT !.moved = 0]>> \in Inv,
           \A T \in SUBSET {c \in DOMAIN weight : p.owner[c] = n} : \A q : \A c \in T :
              <<T \ {c}, q>> \in Inv => <<T, DrainOne(q, c, weight, ns, health, cap)>> \in Inv
    PROVE  <<{c \in DOMAIN weight : p.owner[c] = n}, Drain(p, n, weight, ns, health, cap)>> \in Inv
<1> DEFINE S == {c \in DOMAIN weight : p.owner[c] = n}
           Step(q, c) == DrainOne(q, c, weight, ns, health, cap)
           Last(T) == LastCamera(T, weight)
           last == [T \in SUBSET S |-> Last(T)]
           seen == {y[2] : y \in Inv}
           op == [z \in seen \X S |-> Step(z[1], z[2])]
           base == [p EXCEPT !.moved = 0]
           Is(g) == g = [T \in SUBSET S |-> IF T = {} THEN base
                                            ELSE Step(g[T \ {Last(T)}], Last(T))]
           h == CHOOSE g : Is(g)
<1>1. IsFiniteSet(S) /\ \A T \in SUBSET S : T # {} => Last(T) \in T
  BY LastCameraIn, FS_Subset DEF InputOK
<1>2. Drain(p, n, weight, ns, health, cap) = h[S]
  BY DEF Drain, InCanonicalOrder, FoldInOrder, MapThenFoldSet, LastCamera
<1>3. \A T \in SUBSET S : \A q : \A c \in T : <<T \ {c}, q>> \in Inv => <<T, Step(q, c)>> \in Inv
  OBVIOUS
<1> HIDE DEF Step, Last, h
<1>4. <<{}, base>> \in Inv
  OBVIOUS
<1> HIDE DEF base
<1>5. \A T \in SUBSET S : T # {} => last[T] \in T /\ last[T] = Last(T)
  BY <1>1
<1>6. \A T, q : <<T, q>> \in Inv => q \in seen
  OBVIOUS
<1> HIDE DEF seen
<1>7. \A q \in seen : \A c \in S : op[<<q, c>>] = Step(q, c)
  OBVIOUS
<1> HIDE DEF op, last
<1>8. \A T \in SUBSET S : \A q : \A c \in T :
          <<T \ {c}, q>> \in Inv => <<T, op[<<q, c>>]>> \in Inv
  BY <1>3, <1>6, <1>7
<1>9. PICK g : IsLoop(g, base, S, op, last) /\ \A T \in SUBSET S : <<T, g[T]>> \in Inv
  <2>1. LoopKeeps(S, base, op, last, Inv)
    BY <1>1, <1>4, <1>5, <1>8 DEF LoopKeeps
  <2> HIDE DEF S, Is
  <2> QED BY <2>1, LoopRuns
<1>10. Is(g)
  <2>1. \A T \in SUBSET S : T # {} => op[<<g[T \ {last[T]}], last[T]>>]
                                        = Step(g[T \ {Last(T)}], Last(T))
    BY <1>5, <1>6, <1>7, <1>9
  <2> QED BY <1>9, <2>1 DEF IsLoop
<1>11. Is(h)
  <2> HIDE DEF Is
  <2> QED BY <1>10 DEF h
<1>12. <<{}, h[{}]>> \in Inv
  BY <1>4, <1>11
<1>13. \A T \in SUBSET S : T # {} => h[T] = Step(h[T \ {last[T]}], last[T])
  BY <1>5, <1>11
<1> HIDE DEF Is, S
<1>14. ASSUME NEW T \in SUBSET S, T # {}, <<T \ {last[T]}, h[T \ {last[T]}]>> \in Inv
       PROVE  <<T, h[T]>> \in Inv
  BY <1>3, <1>5, <1>13, <1>14
<1>15. \A T \in SUBSET S : <<T, h[T]>> \in Inv
  <2>1. StepKeeps(S, last, h, Inv)
    BY <1>1, <1>5, <1>12, <1>14 DEF StepKeeps
  <2> QED BY <2>1, LoopInvariant
<1> QED BY <1>2, <1>15 DEF S

(* Phase 3 is a loop over the draining nodes that keeps its invariant. *)
LEMMA DrainAllLoop ==
    ASSUME NEW weight, NEW ns, NEW health, NEW cap, NEW p, NEW Inv,
           InputOK(weight, ns, health, cap), <<{}, p>> \in Inv,
           \A T \in SUBSET {n \in ns : health[n] = "draining"} : \A q : \A c \in T :
              <<T \ {c}, q>> \in Inv => <<T, Drain(q, c, weight, ns, health, cap)>> \in Inv
    PROVE  <<{n \in ns : health[n] = "draining"}, DrainAll(p, weight, ns, health, cap)>> \in Inv
<1> DEFINE S == {n \in ns : health[n] = "draining"}
           Step(q, c) == Drain(q, c, weight, ns, health, cap)
           Last(T) == LastNode(T)
           last == [T \in SUBSET S |-> Last(T)]
           seen == {y[2] : y \in Inv}
           op == [z \in seen \X S |-> Step(z[1], z[2])]
           base == p
           Is(g) == g = [T \in SUBSET S |-> IF T = {} THEN base
                                            ELSE Step(g[T \ {Last(T)}], Last(T))]
           h == CHOOSE g : Is(g)
<1>1. IsFiniteSet(S) /\ \A T \in SUBSET S : T # {} => Last(T) \in T
  BY LastNodeIn, FS_Subset DEF InputOK
<1>2. DrainAll(p, weight, ns, health, cap) = h[S]
  BY DEF DrainAll, FoldInOrder, MapThenFoldSet, LastNode
<1>3. \A T \in SUBSET S : \A q : \A c \in T : <<T \ {c}, q>> \in Inv => <<T, Step(q, c)>> \in Inv
  OBVIOUS
<1> HIDE DEF Step, Last, h
<1>4. <<{}, base>> \in Inv
  OBVIOUS
<1> HIDE DEF base
<1>5. \A T \in SUBSET S : T # {} => last[T] \in T /\ last[T] = Last(T)
  BY <1>1
<1>6. \A T, q : <<T, q>> \in Inv => q \in seen
  OBVIOUS
<1> HIDE DEF seen
<1>7. \A q \in seen : \A c \in S : op[<<q, c>>] = Step(q, c)
  OBVIOUS
<1> HIDE DEF op, last
<1>8. \A T \in SUBSET S : \A q : \A c \in T :
          <<T \ {c}, q>> \in Inv => <<T, op[<<q, c>>]>> \in Inv
  BY <1>3, <1>6, <1>7
<1>9. PICK g : IsLoop(g, base, S, op, last) /\ \A T \in SUBSET S : <<T, g[T]>> \in Inv
  <2>1. LoopKeeps(S, base, op, last, Inv)
    BY <1>1, <1>4, <1>5, <1>8 DEF LoopKeeps
  <2> HIDE DEF S, Is
  <2> QED BY <2>1, LoopRuns
<1>10. Is(g)
  <2>1. \A T \in SUBSET S : T # {} => op[<<g[T \ {last[T]}], last[T]>>]
                                        = Step(g[T \ {Last(T)}], Last(T))
    BY <1>5, <1>6, <1>7, <1>9
  <2> QED BY <1>9, <2>1 DEF IsLoop
<1>11. Is(h)
  <2> HIDE DEF Is
  <2> QED BY <1>10 DEF h
<1>12. <<{}, h[{}]>> \in Inv
  BY <1>4, <1>11
<1>13. \A T \in SUBSET S : T # {} => h[T] = Step(h[T \ {last[T]}], last[T])
  BY <1>5, <1>11
<1> HIDE DEF Is, S
<1>14. ASSUME NEW T \in SUBSET S, T # {}, <<T \ {last[T]}, h[T \ {last[T]}]>> \in Inv
       PROVE  <<T, h[T]>> \in Inv
  BY <1>3, <1>5, <1>13, <1>14
<1>15. \A T \in SUBSET S : <<T, h[T]>> \in Inv
  <2>1. StepKeeps(S, last, h, Inv)
    BY <1>1, <1>5, <1>12, <1>14 DEF StepKeeps
  <2> QED BY <2>1, LoopInvariant
<1> QED BY <1>2, <1>15 DEF S

-----------------------------------------------------------------------------
(* The plan in the making.                                                 *)

Plans(weight, ns) ==
    [owner : [DOMAIN weight -> ns \cup {Null}], load : [ns -> Nat], moved : Nat]

On(p, n, weight) == {c \in DOMAIN weight : p.owner[c] = n}

(* The load of every node is what it carries, and it can carry it. *)
Sound(p, weight, ns, cap) ==
    /\ p \in Plans(weight, ns)
    /\ \A n \in ns : p.load[n] = Weigh(weight, On(p, n, weight)) /\ p.load[n] <= cap[n]

Places(ns, health) == {n \in ns : health[n] \in {"alive", "unknown"}}

(* No node that takes cameras has room for c. *)
Full(p, c, weight, ns, health, cap) ==
    \A m \in Places(ns, health) : p.load[m] + weight[c] > cap[m]

(* pickTarget finds a node with room if there is one. *)
LEMMA PickTargetIn ==
    ASSUME NEW weight, NEW ns, NEW health, NEW cap, InputOK(weight, ns, health, cap),
           NEW p \in Plans(weight, ns), NEW c \in DOMAIN weight
    PROVE  LET n == PickTarget(p, weight[c], ns, health, cap)
           IN  /\ n = Null => Full(p, c, weight, ns, health, cap)
               /\ n # Null => n \in Places(ns, health) /\ p.load[n] + weight[c] <= cap[n]
<1> DEFINE w == weight[c]
           fits == Targets(p, w, ns, health, cap)
           use(n) == p.load[n] + w
           Better(n, m) == use(n) * cap[m] < use(m) * cap[n]
                           \/ (use(n) * cap[m] = use(m) * cap[n] /\ n <= m)
           R == {z \in fits \X fits : Better(z[2], z[1])}
<1>1. w \in Nat \ {0} /\ \A n \in ns : p.load[n] \in Nat /\ cap[n] \in Nat /\ n \in Nat
  BY DEF InputOK, Plans
<1>2. fits \subseteq ns /\ \A n \in fits : n \in Nat /\ use(n) \in Nat \ {0} /\ cap[n] \in Nat \ {0}
                                           /\ use(n) <= cap[n]
  BY <1>1 DEF Targets
<1>3. fits = {} => Full(p, c, weight, ns, health, cap)
  BY <1>1 DEF Targets, Full, Places
<1>4. \A n \in fits : n \in Places(ns, health) /\ p.load[n] + w <= cap[n] /\ n # Null
  BY DEF Targets, Places, InputOK
<1>5. PickTarget(p, w, ns, health, cap) =
          IF fits = {} THEN Null ELSE CHOOSE n \in fits : \A m \in fits : Better(n, m)
  BY DEF PickTarget
<1>6. IsFiniteSet(fits)
  BY <1>2, FS_Subset DEF InputOK
<1>7. ASSUME fits # {}
      PROVE  \E n \in fits : \A m \in fits : Better(n, m)
  <2>1. \A m, n \in fits : <<m, n>> \in R <=> Better(n, m)
    OBVIOUS
  <2> HIDE DEF fits, R
  <2>2. ASSUME NEW m \in fits, NEW n \in fits
        PROVE  <<m, n>> \in R \/ <<n, m>> \in R
    <3> DEFINE x == use(n) * cap[m]
               y == use(m) * cap[n]
    <3>1. use(n) \in Nat /\ use(m) \in Nat /\ cap[n] \in Nat /\ cap[m] \in Nat
      BY <1>2
    <3> HIDE DEF use
    <3>2. x \in Nat /\ y \in Nat
      BY <3>1
    <3>3. n \in Nat /\ m \in Nat
      BY <1>2
    <3> HIDE DEF x, y
    <3>4. (x < y \/ (x = y /\ n <= m)) \/ (y < x \/ (y = x /\ m <= n))
      BY <3>2, <3>3
    <3> QED BY <2>1, <3>4 DEF x, y
  <2>3. ASSUME NEW k \in fits, NEW m \in fits, NEW n \in fits, <<k, m>> \in R, <<m, n>> \in R
        PROVE  <<k, n>> \in R
    <3>1. Better(m, k) /\ Better(n, m)
      BY <2>1, <2>3
    <3> DEFINE a == use(k)
               b == use(m)
               d == use(n)
               A == cap[k]
               B == cap[m]
               D == cap[n]
    <3>2. /\ a \in Nat \ {0} /\ b \in Nat \ {0} /\ d \in Nat \ {0}
          /\ A \in Nat \ {0} /\ B \in Nat \ {0} /\ D \in Nat \ {0}
          /\ k \in Nat /\ m \in Nat /\ n \in Nat
      BY <1>2
    <3>3. /\ b * A < a * B \/ (b * A = a * B /\ m <= k)
          /\ d * B < b * D \/ (d * B = b * D /\ n <= m)
      BY <3>1
    <3>4. d * A < a * D \/ (d * A = a * D /\ n <= k)
      <4> HIDE DEF a, b, d, A, B, D
      <4>1. /\ (d * A) * B = (d * B) * A /\ (a * D) * B = (a * B) * D
            /\ (b * D) * A = (b * A) * D
        BY <3>2
      <4>2. /\ d * B < b * D => (d * B) * A < (b * D) * A
            /\ b * A < a * B => (b * A) * D < (a * B) * D
            /\ d * A > a * D => (d * A) * B > (a * D) * B
            /\ d * A = a * D => (d * A) * B = (a * D) * B
            /\ d * B = b * D => (d * B) * A = (b * D) * A
            /\ b * A = a * B => (b * A) * D = (a * B) * D
            /\ d * A < a * D \/ d * A = a * D \/ d * A > a * D
        <5>1. \A x, y \in Nat : \A z \in Nat \ {0} : x < y => x * z < y * z
          BY SMTT(30)
        <5>2. /\ d * B \in Nat /\ b * D \in Nat /\ b * A \in Nat /\ a * B \in Nat
              /\ d * A \in Nat /\ a * D \in Nat
          BY <3>2
        <5>3. /\ d * B < b * D => (d * B) * A < (b * D) * A
              /\ b * A < a * B => (b * A) * D < (a * B) * D
              /\ a * D < d * A => (a * D) * B < (d * A) * B
          BY <3>2, <5>1, <5>2
        <5>4. /\ a * D < d * A <=> d * A > a * D
              /\ d * A < a * D \/ d * A = a * D \/ d * A > a * D
          BY <5>2
        <5>5. a * D < d * A => (d * A) * B > (a * D) * B
          <6>1. (a * D) * B \in Nat /\ (d * A) * B \in Nat
            BY <3>2, <5>2
          <6> QED BY <5>3, <6>1
        <5> QED BY <5>3, <5>4, <5>5
      <4> DEFINE dAB == (d * A) * B
                 aDB == (a * D) * B
                 bDA == (b * D) * A
      <4>3. dAB \in Nat /\ aDB \in Nat /\ bDA \in Nat
        BY <3>2
      <4>4. /\ d * B < b * D => dAB < bDA
            /\ d * B = b * D => dAB = bDA
            /\ b * A < a * B => bDA < aDB
            /\ b * A = a * B => bDA = aDB
            /\ d * A > a * D => dAB > aDB
            /\ d * A = a * D => dAB = aDB
        BY <4>1, <4>2
      <4> HIDE DEF dAB, aDB, bDA
      <4>5. \/ dAB < aDB
            \/ dAB = aDB /\ b * A = a * B /\ m <= k /\ d * B = b * D /\ n <= m
        BY <3>3, <4>3, <4>4
      <4>6. n <= m /\ m <= k => n <= k
        BY <3>2
      <4> QED BY <4>2, <4>3, <4>4, <4>5, <4>6
    <3> QED BY <2>1, <3>4
  <2>4. \E n \in fits : \A m \in fits : <<m, n>> \in R
    BY <1>6, <1>7, <2>2, <2>3, TotalHasLast
  <2> QED BY <2>1, <2>4
<1> HIDE DEF Better, fits
<1>8. fits # {} => PickTarget(p, w, ns, health, cap) \in fits
  BY <1>5, <1>7
<1> QED BY <1>3, <1>4, <1>5, <1>8

(* A camera without a node is given one that has room for it. *)
LEMMA PlaceSound ==
    ASSUME NEW weight, NEW ns, NEW health, NEW cap, InputOK(weight, ns, health, cap),
           NEW p, Sound(p, weight, ns, cap),
           NEW c \in DOMAIN weight, p.owner[c] = Null,
           NEW n \in ns, p.load[n] + weight[c] <= cap[n]
    PROVE  LET q == Place(p, c, n, weight[c])
           IN  /\ Sound(q, weight, ns, cap)
               /\ q.owner = [p.owner EXCEPT ![c] = n] /\ q.moved = p.moved
               /\ \A m \in ns : q.load[m] = IF m = n THEN p.load[m] + weight[c] ELSE p.load[m]
<1> DEFINE q == Place(p, c, n, weight[c])
           S == DOMAIN weight
<1>1. /\ IsFiniteSet(S) /\ \A d \in S : weight[d] \in Nat
      /\ Null \notin ns /\ \A m \in ns : cap[m] \in Nat
  BY DEF InputOK
<1>2. p \in Plans(weight, ns)
  BY DEF Sound
<1>3. /\ q.owner = [p.owner EXCEPT ![c] = n] /\ q.moved = p.moved
      /\ q.load = [p.load EXCEPT ![n] = @ + weight[c]]
  BY <1>2 DEF Place, Plans
<1>4. q \in Plans(weight, ns)
  <2>1. p.load[n] + weight[c] \in Nat
    BY <1>1, <1>2 DEF Plans
  <2> QED BY <1>2, <2>1 DEF Place, Plans
<1> HIDE DEF q
<1>5. \A m \in ns : q.load[m] = IF m = n THEN p.load[m] + weight[c] ELSE p.load[m]
  BY <1>2, <1>3 DEF Plans
<1>6. \A U \in SUBSET S : \A d \in S \ U : Weigh(weight, U \cup {d}) = Weigh(weight, U) + weight[d]
  BY <1>1, WeighAdd
<1>7. ASSUME NEW m \in ns
      PROVE  q.load[m] = Weigh(weight, On(q, m, weight)) /\ q.load[m] <= cap[m]
  <2>1. CASE m = n
    <3>1. /\ On(q, n, weight) = On(p, n, weight) \cup {c}
          /\ On(p, n, weight) \in SUBSET S /\ c \in S \ On(p, n, weight)
      BY <1>1, <1>2, <1>3 DEF On, Plans
    <3>2. Weigh(weight, On(q, n, weight)) = Weigh(weight, On(p, n, weight)) + weight[c]
      BY <1>6, <3>1
    <3> QED BY <1>5, <2>1, <3>2 DEF Sound
  <2>2. CASE m # n
    <3>1. On(q, m, weight) = On(p, m, weight)
      BY <1>1, <1>2, <1>3, <2>2 DEF On, Plans
    <3> QED BY <1>5, <2>2, <3>1 DEF Sound
  <2> QED BY <2>1, <2>2
<1>8. Sound(q, weight, ns, cap)
  BY <1>4, <1>7 DEF Sound
<1> QED BY <1>3, <1>5, <1>8 DEF q

(* A camera that leaves a node gives its load back. *)
LEMMA ReleaseSound ==
    ASSUME NEW weight, NEW ns, NEW health, NEW cap, InputOK(weight, ns, health, cap),
           NEW p, Sound(p, weight, ns, cap),
           NEW c \in DOMAIN weight, p.owner[c] \in ns
    PROVE  LET q == Release(p, c, weight[c])
           IN  /\ Sound(q, weight, ns, cap)
               /\ q.owner = [p.owner EXCEPT ![c] = Null] /\ q.moved = p.moved
               /\ \A m \in ns : m # p.owner[c] => q.load[m] = p.load[m]
<1> DEFINE q == Release(p, c, weight[c])
           S == DOMAIN weight
           k == p.owner[c]
<1>1. /\ IsFiniteSet(S) /\ \A d \in S : weight[d] \in Nat
      /\ Null \notin ns /\ \A m \in ns : cap[m] \in Nat
  BY DEF InputOK
<1>2. p \in Plans(weight, ns)
  BY DEF Sound
<1>3. /\ q.owner = [p.owner EXCEPT ![c] = Null] /\ q.moved = p.moved
      /\ q.load = [p.load EXCEPT ![k] = @ - weight[c]]
  BY <1>2 DEF Release, Plans
<1>4. \A U \in SUBSET S : \A d \in S \ U : Weigh(weight, U \cup {d}) = Weigh(weight, U) + weight[d]
  BY <1>1, WeighAdd
<1>5. \A U \in SUBSET S : Weigh(weight, U) \in Nat
  <2> TAKE U \in SUBSET S
  <2>1. IsFiniteSet(U) /\ \A d \in U : weight[d] \in Nat
    BY <1>1, FS_Subset
  <2> QED BY <2>1, WeighIsSum
<1>6. /\ On(p, k, weight) = On(q, k, weight) \cup {c}
      /\ On(q, k, weight) \in SUBSET S /\ c \in S \ On(q, k, weight)
  BY <1>1, <1>2, <1>3 DEF On, Plans
<1>7. p.load[k] = Weigh(weight, On(q, k, weight)) + weight[c] /\ p.load[k] <= cap[k]
  BY <1>4, <1>6 DEF Sound
<1> DEFINE rest == Weigh(weight, On(q, k, weight))
<1>8. rest \in Nat /\ weight[c] \in Nat /\ p.load[k] \in Nat /\ cap[k] \in Nat
  BY <1>1, <1>2, <1>5, <1>6 DEF Plans
<1>9. p.load[k] - weight[c] = rest /\ rest <= cap[k]
  <2> HIDE DEF rest, k
  <2>1. p.load[k] = rest + weight[c]
    BY <1>7 DEF rest
  <2> QED BY <1>7, <1>8, <2>1
<1>10. q \in Plans(weight, ns)
  <2>1. p.load[k] - weight[c] \in Nat
    BY <1>8, <1>9
  <2> QED BY <1>2, <2>1 DEF Release, Plans
<1>11. \A m \in ns : q.load[m] = IF m = k THEN rest ELSE p.load[m]
  BY <1>2, <1>3, <1>9 DEF Plans
<1>12. \A m \in ns : m # k => On(q, m, weight) = On(p, m, weight)
  <2> HIDE DEF q
  <2> QED BY <1>1, <1>2, <1>3 DEF On, Plans
<1>13. Sound(q, weight, ns, cap)
  <2> HIDE DEF q
  <2> QED BY <1>9, <1>10, <1>11, <1>12 DEF Sound
<1> QED BY <1>3, <1>11, <1>13

(* One step of the draining: nothing, because enough have left or no node has
   room for c; or c goes to a node that takes cameras. *)
LEMMA DrainOneMoves ==
    ASSUME NEW weight, NEW ns, NEW health, NEW cap, InputOK(weight, ns, health, cap),
           NEW p, Sound(p, weight, ns, cap),
           NEW c \in DOMAIN weight, p.owner[c] \in ns \ Places(ns, health)
    PROVE  LET q == DrainOne(p, c, weight, ns, health, cap)
           IN  \/ q = p /\ (p.moved >= DrainBatch \/ Full(p, c, weight, ns, health, cap))
               \/ /\ Sound(q, weight, ns, cap)
                  /\ p.moved < DrainBatch /\ q.moved = p.moved + 1
                  /\ \E n \in Places(ns, health) : q.owner = [p.owner EXCEPT ![c] = n]
                  /\ \A m \in Places(ns, health) : q.load[m] >= p.load[m]
<1> DEFINE n == PickTarget(p, weight[c], ns, health, cap)
           r == Release(p, c, weight[c])
           s == Place(r, c, n, weight[c])
           q == DrainOne(p, c, weight, ns, health, cap)
<1>1. p \in Plans(weight, ns)
  BY DEF Sound
<1>2. /\ n = Null => Full(p, c, weight, ns, health, cap)
      /\ n # Null => n \in Places(ns, health) /\ p.load[n] + weight[c] <= cap[n]
  BY <1>1, PickTargetIn
<1>3. q = IF p.moved >= DrainBatch \/ n = Null THEN p ELSE [s EXCEPT !.moved = @ + 1]
  BY DEF DrainOne
<1>4. p.moved \in Nat /\ DrainBatch \in Nat /\ weight[c] \in Nat
      /\ \A m \in ns : p.load[m] \in Nat
  BY <1>1, SchedulerConstants DEF Plans, InputOK
<1>5. /\ Sound(r, weight, ns, cap)
      /\ r.owner = [p.owner EXCEPT ![c] = Null] /\ r.moved = p.moved
      /\ \A m \in ns : m # p.owner[c] => r.load[m] = p.load[m]
  BY ReleaseSound
<1> HIDE DEF n, r, q
<1>6. ASSUME n # Null, ~(p.moved >= DrainBatch)
      PROVE  /\ Sound(q, weight, ns, cap)
             /\ p.moved < DrainBatch /\ q.moved = p.moved + 1
             /\ \E k \in Places(ns, health) : q.owner = [p.owner EXCEPT ![c] = k]
             /\ \A m \in Places(ns, health) : q.load[m] >= p.load[m]
  <2>1. /\ n \in ns /\ n \in Places(ns, health) /\ n # p.owner[c]
        /\ Places(ns, health) \subseteq ns
    BY <1>2, <1>6 DEF Places
  <2>2. r \in Plans(weight, ns) /\ r.owner[c] = Null /\ r.load[n] + weight[c] <= cap[n]
    BY <1>1, <1>2, <1>5, <1>6, <2>1 DEF Sound, Plans
  <2>3. /\ Sound(s, weight, ns, cap)
        /\ s.owner = [r.owner EXCEPT ![c] = n] /\ s.moved = r.moved
        /\ \A m \in ns : s.load[m] = IF m = n THEN r.load[m] + weight[c] ELSE r.load[m]
    <3>1. Sound(r, weight, ns, cap)
      BY <1>5
    <3>2. c \in DOMAIN weight /\ n \in ns /\ r.owner[c] = Null /\ r.load[n] + weight[c] <= cap[n]
      BY <2>1, <2>2
    <3> QED BY <3>1, <3>2, PlaceSound
  <2> HIDE DEF s
  <2>4. q = [s EXCEPT !.moved = @ + 1]
    BY <1>3, <1>6
  <2>5. s \in Plans(weight, ns)
    BY <2>3 DEF Sound
  <2>6. /\ q \in Plans(weight, ns) /\ q.owner = s.owner /\ q.load = s.load
        /\ q.moved = s.moved + 1
    BY <2>4, <2>5 DEF Plans
  <2>7. Sound(q, weight, ns, cap)
    BY <2>3, <2>6 DEF Sound, On
  <2>8. q.owner = [p.owner EXCEPT ![c] = n]
    BY <1>1, <1>5, <2>3, <2>6 DEF Plans
  <2>9. \A m \in Places(ns, health) : q.load[m] >= p.load[m]
    <3> TAKE m \in Places(ns, health)
    <3>1. m \in ns /\ m # p.owner[c]
      BY <2>1
    <3>2. r.load[m] = p.load[m] /\ p.load[m] \in Nat
      BY <1>4, <1>5, <3>1
    <3>3. q.load[m] = p.load[m] + weight[c] \/ q.load[m] = p.load[m]
      BY <2>3, <2>6, <3>1, <3>2
    <3> QED BY <1>4, <3>2, <3>3
  <2> QED BY <1>4, <1>5, <1>6, <2>1, <2>3, <2>6, <2>7, <2>8, <2>9
<1>7. CASE p.moved >= DrainBatch \/ n = Null
  BY <1>2, <1>3, <1>7 DEF q
<1>8. CASE n # Null /\ ~(p.moved >= DrainBatch)
  BY <1>6, <1>8 DEF q
<1> QED BY <1>7, <1>8

-----------------------------------------------------------------------------
(* Phase 1.  The cameras of the request that node n had. *)
Had(n, weight, previous) == {c \in DOMAIN weight \cap DOMAIN previous : previous[c].node = n}

(* Whoever has a node is where it was, on a node that is not dead; a node with
   room for all it had has them all. *)
Kept(p, weight, previous, ns, health, cap) ==
    /\ Sound(p, weight, ns, cap)
    /\ \A n \in ns : On(p, n, weight) \subseteq Had(n, weight, previous)
    /\ \A n \in ns : health[n] # "dead" /\ Weigh(weight, Had(n, weight, previous)) <= cap[n]
                        => Had(n, weight, previous) \subseteq On(p, n, weight)

(* By induction on the cameras seen: those not seen are without a node, and
   what a node has been given is part of what it had, so that it has room. *)
LEMMA RetainKeeps ==
    ASSUME NEW weight, NEW previous, NEW ns, NEW health, NEW cap, InputOK(weight, ns, health, cap)
    PROVE  Kept(RetainAll(Empty(weight, ns), weight, previous, ns, health, cap),
                weight, previous, ns, health, cap)
<1> DEFINE S == DOMAIN weight
           H(n) == Had(n, weight, previous)
           Good(T, q) ==
               /\ Sound(q, weight, ns, cap)
               /\ \A c \in S \ T : q.owner[c] = Null
               /\ \A n \in ns : On(q, n, weight) \subseteq H(n)
               /\ \A n \in ns : health[n] # "dead" /\ Weigh(weight, H(n)) <= cap[n]
                                   => T \cap H(n) \subseteq On(q, n, weight)
           Inv == {z \in (SUBSET S) \X Plans(weight, ns) : Good(z[1], z[2])}
           p == Empty(weight, ns)
<1>1. /\ IsFiniteSet(S) /\ \A d \in S : weight[d] \in Nat
      /\ Null \notin ns /\ \A m \in ns : cap[m] \in Nat
  BY DEF InputOK
<1>2. \A T, q : <<T, q>> \in Inv <=> T \in SUBSET S /\ q \in Plans(weight, ns) /\ Good(T, q)
  OBVIOUS
<1>3. \A n \in ns : H(n) \in SUBSET S
  BY DEF Had
<1>4. \A U \in SUBSET S : \A V \in SUBSET U : Weigh(weight, V) <= Weigh(weight, U)
                                             /\ Weigh(weight, V) \in Nat /\ Weigh(weight, U) \in Nat
  BY <1>1, WeighMonotone
<1>5. \A U \in SUBSET S : \A d \in S \ U : Weigh(weight, U \cup {d}) = Weigh(weight, U) + weight[d]
  BY <1>1, WeighAdd
<1>6. <<{}, p>> \in Inv
  <2>1. \A c \in S : p.owner[c] = Null
    BY DEF Empty
  <2>2. \A n \in ns : On(p, n, weight) = {}
    BY <1>1, <2>1 DEF On
  <2>3. Weigh(weight, {}) = 0
    BY <1>1, WeighIsSum
  <2>4. p \in Plans(weight, ns) /\ \A n \in ns : p.load[n] = 0
    BY DEF Empty, Plans
  <2>5. Sound(p, weight, ns, cap)
    BY <1>1, <2>2, <2>3, <2>4 DEF Sound
  <2> HIDE DEF p
  <2> QED BY <1>2, <2>1, <2>2, <2>4, <2>5
<1>7. ASSUME NEW T \in SUBSET S, NEW q, NEW c \in T, <<T \ {c}, q>> \in Inv
      PROVE  <<T, Retain(q, c, weight, previous, ns, health, cap)>> \in Inv
  <2> DEFINE k == previous[c].node
             w == weight[c]
             stays == /\ c \in DOMAIN previous /\ k \in ns /\ CanRetain(k, health)
                      /\ q.load[k] + w <= cap[k]
             r == Retain(q, c, weight, previous, ns, health, cap)
  <2>1. Good(T \ {c}, q) /\ q \in Plans(weight, ns) /\ q.owner[c] = Null /\ c \in S
    BY <1>2, <1>7
  <2>2. r = IF stays THEN Place(q, c, k, w) ELSE q
    BY DEF Retain
  <2>3. ASSUME NEW n \in ns, health[n] # "dead", Weigh(weight, H(n)) <= cap[n], c \in H(n)
        PROVE  k = n /\ stays
    <3>1. c \in DOMAIN previous /\ k = n /\ CanRetain(k, health)
      BY <2>3 DEF Had, CanRetain
    <3> DEFINE U == On(q, n, weight)
    <3>2. U \in SUBSET S /\ c \in S \ U /\ U \cup {c} \in SUBSET H(n) /\ H(n) \in SUBSET S
      BY <1>1, <1>3, <2>1, <2>3 DEF On
    <3>3. Weigh(weight, U \cup {c}) = Weigh(weight, U) + w
      BY <1>5, <3>2
    <3>4. /\ Weigh(weight, U \cup {c}) <= Weigh(weight, H(n))
          /\ Weigh(weight, U \cup {c}) \in Nat /\ Weigh(weight, H(n)) \in Nat
      BY <1>4, <3>2
    <3>5. q.load[n] = Weigh(weight, U)
      BY <2>1 DEF Sound
    <3> HIDE DEF H, U
    <3>6. q.load[n] + w <= cap[n]
      BY <1>1, <2>3, <3>3, <3>4, <3>5
    <3> QED BY <2>3, <3>1, <3>6
  <2>4. CASE ~stays
    <3>1. r = q
      BY <2>2, <2>4
    <3>2. \A n \in ns : health[n] # "dead" /\ Weigh(weight, H(n)) <= cap[n]
                            => T \cap H(n) \subseteq On(q, n, weight)
      <4> SUFFICES ASSUME NEW n \in ns, health[n] # "dead", Weigh(weight, H(n)) <= cap[n]
                   PROVE  T \cap H(n) \subseteq On(q, n, weight)
        OBVIOUS
      <4>1. c \notin H(n)
        BY <2>3, <2>4
      <4>2. (T \ {c}) \cap H(n) \subseteq On(q, n, weight)
        BY <2>1
      <4> QED BY <4>1, <4>2
    <3>3. Good(T, q)
      BY <2>1, <3>2
    <3> QED BY <1>2, <2>1, <3>1, <3>3
  <2>5. CASE stays
    <3> USE <2>5
    <3>1. k \in ns /\ q.load[k] + w <= cap[k] /\ Sound(q, weight, ns, cap) /\ c \in H(k)
      BY <2>1 DEF Had
    <3>2. /\ Sound(r, weight, ns, cap) /\ r.owner = [q.owner EXCEPT ![c] = k]
      BY <2>1, <2>2, <3>1, PlaceSound
    <3> HIDE DEF k, r, stays
    <3>3. \A n \in ns : On(r, n, weight) = IF n = k THEN On(q, n, weight) \cup {c} ELSE On(q, n, weight)
      BY <1>1, <2>1, <3>2 DEF On, Plans
    <3>4. \A d \in S \ T : r.owner[d] = Null
      BY <2>1, <3>2 DEF Plans
    <3>5. \A n \in ns : On(r, n, weight) \subseteq H(n)
      BY <2>1, <3>1, <3>3
    <3>6. \A n \in ns : health[n] # "dead" /\ Weigh(weight, H(n)) <= cap[n]
                            => T \cap H(n) \subseteq On(r, n, weight)
      <4> SUFFICES ASSUME NEW n \in ns, health[n] # "dead", Weigh(weight, H(n)) <= cap[n]
                   PROVE  T \cap H(n) \subseteq On(r, n, weight)
        OBVIOUS
      <4>1. (T \ {c}) \cap H(n) \subseteq On(q, n, weight)
        BY <2>1
      <4>2. c \in H(n) => k = n
        BY <2>3
      <4> QED BY <3>3, <4>1, <4>2
    <3>7. r \in Plans(weight, ns)
      BY <3>2 DEF Sound
    <3>8. Good(T, r)
      BY <3>2, <3>4, <3>5, <3>6
    <3> HIDE DEF Good
    <3> QED BY <1>2, <3>7, <3>8 DEF r
  <2> QED BY <2>4, <2>5
<1> DEFINE e == RetainAll(p, weight, previous, ns, health, cap)
<1> HIDE DEF Inv, p, Good
<1>8. <<S, e>> \in Inv
  BY <1>6, <1>7, RetainLoop
<1>9. Good(S, e)
  BY <1>2, <1>8
<1>10. \A n \in ns : S \cap H(n) = H(n)
  BY <1>3
<1> QED BY <1>9, <1>10 DEF Good, Kept, p

(* Phase 2.  Whoever has a node keeps it, and whoever is still without one
   would find room nowhere. *)
Placed(p, q, weight, ns, health, cap) ==
    /\ Sound(q, weight, ns, cap)
    /\ \A c \in DOMAIN weight :
          /\ q.owner[c] = p.owner[c] \/ (p.owner[c] = Null /\ q.owner[c] \in Places(ns, health))
          /\ q.owner[c] = Null => Full(q, c, weight, ns, health, cap)

(* By induction on the cameras seen: loads only grow, so a camera that found no
   room finds none later. *)
LEMMA PlacePlaces ==
    ASSUME NEW weight, NEW ns, NEW health, NEW cap, InputOK(weight, ns, health, cap),
           NEW p, Sound(p, weight, ns, cap)
    PROVE  Placed(p, PlaceAll(p, weight, ns, health, cap), weight, ns, health, cap)
<1> DEFINE S == DOMAIN weight
           Good(T, q) ==
               /\ Sound(q, weight, ns, cap)
               /\ \A c \in S : q.owner[c] = p.owner[c]
                               \/ (p.owner[c] = Null /\ q.owner[c] \in Places(ns, health))
               /\ \A c \in T : q.owner[c] = Null => Full(q, c, weight, ns, health, cap)
           Inv == {z \in (SUBSET S) \X Plans(weight, ns) : Good(z[1], z[2])}
<1>1. \A T, q : <<T, q>> \in Inv <=> T \in SUBSET S /\ q \in Plans(weight, ns) /\ Good(T, q)
  OBVIOUS
<1>2. <<{}, p>> \in Inv
  BY <1>1 DEF Sound
<1>3. Null \notin ns /\ Places(ns, health) \subseteq ns /\ \A d \in S : weight[d] \in Nat
      /\ \A m \in ns : cap[m] \in Nat
  BY DEF InputOK, Places
<1>4. ASSUME NEW T \in SUBSET S, NEW q, NEW c \in T, <<T \ {c}, q>> \in Inv
      PROVE  <<T, PlaceDeferred(q, c, weight, ns, health, cap)>> \in Inv
  <2> DEFINE n == PickTarget(q, weight[c], ns, health, cap)
             r == PlaceDeferred(q, c, weight, ns, health, cap)
  <2>1. Good(T \ {c}, q) /\ q \in Plans(weight, ns) /\ c \in S
    BY <1>1, <1>4
  <2>2. r = IF q.owner[c] # Null \/ n = Null THEN q ELSE Place(q, c, n, weight[c])
    BY DEF PlaceDeferred
  <2>3. /\ n = Null => Full(q, c, weight, ns, health, cap)
        /\ n # Null => n \in Places(ns, health) /\ q.load[n] + weight[c] <= cap[n]
    BY <2>1, PickTargetIn
  <2> HIDE DEF n, r
  <2>4. CASE q.owner[c] # Null \/ n = Null
    <3>1. r = q /\ Good(T, q)
      BY <2>1, <2>2, <2>3, <2>4
    <3> HIDE DEF Good
    <3> QED BY <1>1, <2>1, <3>1 DEF r
  <2>5. CASE q.owner[c] = Null /\ n # Null
    <3>1. n \in ns /\ n \in Places(ns, health)
      BY <1>3, <2>3, <2>5
    <3>2. r = Place(q, c, n, weight[c])
      BY <2>2, <2>5
    <3>3. Sound(q, weight, ns, cap) /\ q.load[n] + weight[c] <= cap[n]
      BY <2>1, <2>3, <2>5
    <3>4. /\ Sound(r, weight, ns, cap) /\ r.owner = [q.owner EXCEPT ![c] = n]
          /\ \A m \in ns : r.load[m] = IF m = n THEN q.load[m] + weight[c] ELSE q.load[m]
      BY <2>1, <2>5, <3>1, <3>2, <3>3, PlaceSound
    <3>5. r \in Plans(weight, ns)
      BY <3>4 DEF Sound
    <3>6. \A d \in S : r.owner[d] = IF d = c THEN n ELSE q.owner[d]
      BY <2>1, <3>4 DEF Plans
    <3>7. p.owner[c] = Null
      BY <1>3, <2>1, <2>5
    <3>8. \A d \in S : r.owner[d] = p.owner[d]
                       \/ (p.owner[d] = Null /\ r.owner[d] \in Places(ns, health))
      BY <2>1, <3>1, <3>6, <3>7
    <3>9. \A m \in ns : q.load[m] \in Nat /\ r.load[m] \in Nat /\ r.load[m] >= q.load[m]
      BY <1>3, <2>1, <3>4, <3>5 DEF Plans
    <3>10. ASSUME NEW d \in T, r.owner[d] = Null
           PROVE  Full(r, d, weight, ns, health, cap)
      <4>1. d # c /\ d \in S
        BY <1>3, <3>1, <3>6, <3>10
      <4>2. q.owner[d] = Null
        BY <3>6, <3>10, <4>1
      <4>3. Full(q, d, weight, ns, health, cap)
        BY <2>1, <4>1, <4>2
      <4> QED BY <1>3, <3>9, <4>1, <4>3 DEF Full
    <3>11. Good(T, r)
      BY <3>4, <3>8, <3>10
    <3> HIDE DEF Good
    <3> QED BY <1>1, <3>5, <3>11 DEF r
  <2> QED BY <2>4, <2>5
<1> DEFINE e == PlaceAll(p, weight, ns, health, cap)
<1> HIDE DEF Inv, Good
<1>5. <<S, e>> \in Inv
  BY <1>2, <1>4, PlaceLoop
<1>6. Good(S, e)
  BY <1>1, <1>5
<1> QED BY <1>6 DEF Good, Placed

-----------------------------------------------------------------------------
(* Phase 3, one node.  Nobody who is not on n is touched; of the cameras of n
   at most DrainBatch leave it, each of them for a node that takes cameras, and
   fewer only when none of the others would find room anywhere. *)
Gone(p, q, n, weight) == {c \in On(p, n, weight) : q.owner[c] # n}

Enough(p, q, n, weight, ns, health, cap) ==
    /\ Cardinality(Gone(p, q, n, weight)) <= DrainBatch
    /\ \/ Cardinality(Gone(p, q, n, weight)) = DrainBatch
       \/ \A c \in On(p, n, weight) : q.owner[c] = n => Full(q, c, weight, ns, health, cap)

Grown(p, q, ns, health) == \A m \in Places(ns, health) : q.load[m] >= p.load[m]

Drained(p, q, n, weight, ns, health, cap) ==
    /\ Sound(q, weight, ns, cap)
    /\ \A c \in DOMAIN weight :
          q.owner[c] = p.owner[c] \/ (p.owner[c] = n /\ q.owner[c] \in Places(ns, health))
    /\ Grown(p, q, ns, health)
    /\ Enough(p, q, n, weight, ns, health, cap)

(* By induction on the cameras of n seen: moved counts those that have left. *)
LEMMA DrainEmpties ==
    ASSUME NEW weight, NEW ns, NEW health, NEW cap, InputOK(weight, ns, health, cap),
           NEW p, Sound(p, weight, ns, cap), NEW n \in ns \ Places(ns, health)
    PROVE  Drained(p, Drain(p, n, weight, ns, health, cap), n, weight, ns, health, cap)
<1> DEFINE D == DOMAIN weight
           S == On(p, n, weight)
           start == [p EXCEPT !.moved = 0]
           Good(T, q) ==
               /\ Sound(q, weight, ns, cap)
               /\ \A c \in D : q.owner[c] = p.owner[c] \/ (c \in T /\ q.owner[c] \in Places(ns, health))
               /\ Grown(p, q, ns, health)
               /\ q.moved = Cardinality(Gone(p, q, n, weight)) /\ q.moved <= DrainBatch
               /\ q.moved = DrainBatch
                  \/ \A c \in T : q.owner[c] = n => Full(q, c, weight, ns, health, cap)
           Inv == {z \in (SUBSET S) \X Plans(weight, ns) : Good(z[1], z[2])}
<1>1. \A T, q : <<T, q>> \in Inv <=> T \in SUBSET S /\ q \in Plans(weight, ns) /\ Good(T, q)
  OBVIOUS
<1>2. /\ Null \notin ns /\ Places(ns, health) \subseteq ns /\ n \notin Places(ns, health)
      /\ \A d \in D : weight[d] \in Nat /\ \A m \in ns : cap[m] \in Nat
      /\ DrainBatch \in Nat /\ S \subseteq D /\ IsFiniteSet(S)
  BY SchedulerConstants, FS_Subset DEF InputOK, Places, On
<1>3. p \in Plans(weight, ns) /\ \A m \in ns : p.load[m] \in Nat
  BY DEF Sound, Plans
<1>4. <<{}, start>> \in Inv
  <2>1. /\ start \in Plans(weight, ns) /\ start.owner = p.owner /\ start.load = p.load
        /\ start.moved = 0
    BY <1>3 DEF Plans
  <2> HIDE DEF start
  <2>2. Sound(start, weight, ns, cap)
    BY <2>1 DEF Sound, On
  <2>3. Gone(p, start, n, weight) = {}
    BY <2>1 DEF Gone, On
  <2>4. Grown(p, start, ns, health)
    BY <1>2, <1>3, <2>1 DEF Grown
  <2>5. Cardinality({}) = 0
    BY FS_EmptySet
  <2>6. Good({}, start)
    BY <1>2, <2>1, <2>2, <2>3, <2>4, <2>5
  <2> HIDE DEF Good
  <2> QED BY <1>1, <2>1, <2>6
<1>5. ASSUME NEW T \in SUBSET S, NEW q, NEW c \in T, <<T \ {c}, q>> \in Inv
      PROVE  <<T, DrainOne(q, c, weight, ns, health, cap)>> \in Inv
  <2> DEFINE r == DrainOne(q, c, weight, ns, health, cap)
  <2>1. Good(T \ {c}, q) /\ q \in Plans(weight, ns) /\ c \in D /\ q.owner[c] = n
    BY <1>1, <1>2, <1>5 DEF On
  <2>2. \/ r = q /\ (q.moved >= DrainBatch \/ Full(q, c, weight, ns, health, cap))
        \/ /\ Sound(r, weight, ns, cap)
           /\ q.moved < DrainBatch /\ r.moved = q.moved + 1
           /\ \E m \in Places(ns, health) : r.owner = [q.owner EXCEPT ![c] = m]
           /\ \A m \in Places(ns, health) : r.load[m] >= q.load[m]
    BY <2>1, DrainOneMoves
  <2> HIDE DEF r
  <2>3. q.moved \in Nat /\ \A m \in ns : q.load[m] \in Nat
    BY <2>1 DEF Plans
  <2>4. CASE r = q /\ (q.moved >= DrainBatch \/ Full(q, c, weight, ns, health, cap))
    <3>1. q.moved = DrainBatch
             \/ \A d \in T : q.owner[d] = n => Full(q, d, weight, ns, health, cap)
      BY <1>2, <2>1, <2>3, <2>4
    <3>2. \A d \in D : q.owner[d] = p.owner[d] \/ (d \in T /\ q.owner[d] \in Places(ns, health))
      BY <2>1
    <3>3. Good(T, q)
      BY <2>1, <3>1, <3>2
    <3> HIDE DEF Good
    <3> QED BY <1>1, <2>1, <2>4, <3>3 DEF r
  <2>5. ASSUME Sound(r, weight, ns, cap), q.moved < DrainBatch, r.moved = q.moved + 1,
               NEW k \in Places(ns, health), r.owner = [q.owner EXCEPT ![c] = k],
               \A m \in Places(ns, health) : r.load[m] >= q.load[m]
        PROVE  <<T, r>> \in Inv
    <3>1. r \in Plans(weight, ns) /\ \A m \in ns : r.load[m] \in Nat
      BY <2>5 DEF Sound, Plans
    <3>2. \A d \in D : r.owner[d] = IF d = c THEN k ELSE q.owner[d]
      BY <2>1, <2>5 DEF Plans
    <3>3. k # n /\ k \in ns
      BY <1>2
    <3>4. \A d \in D : r.owner[d] = p.owner[d] \/ (d \in T /\ r.owner[d] \in Places(ns, health))
      BY <2>1, <3>2
    <3>5. Grown(p, r, ns, health)
      BY <1>2, <1>3, <2>1, <2>3, <2>5, <3>1 DEF Grown
    <3>6. /\ Gone(p, r, n, weight) = Gone(p, q, n, weight) \cup {c}
          /\ c \notin Gone(p, q, n, weight) /\ IsFiniteSet(Gone(p, q, n, weight))
      <4>1. Gone(p, q, n, weight) \subseteq S
        BY DEF Gone
      <4>2. Gone(p, r, n, weight) = Gone(p, q, n, weight) \cup {c}
        BY <1>2, <2>1, <3>2, <3>3 DEF Gone
      <4> QED BY <1>2, <2>1, <4>1, <4>2, FS_Subset DEF Gone
    <3>7. r.moved = Cardinality(Gone(p, r, n, weight)) /\ r.moved <= DrainBatch
      <4>1. Cardinality(Gone(p, r, n, weight)) = Cardinality(Gone(p, q, n, weight)) + 1
        BY <3>6, FS_AddElement
      <4> QED BY <1>2, <2>1, <2>3, <2>5, <4>1
    <3>8. r.moved = DrainBatch
             \/ \A d \in T : r.owner[d] = n => Full(r, d, weight, ns, health, cap)
      <4> SUFFICES ASSUME NEW d \in T, r.owner[d] = n, q.moved # DrainBatch
                   PROVE  Full(r, d, weight, ns, health, cap)
        BY <1>2, <2>3, <2>5
      <4>1. d \in D /\ d # c /\ q.owner[d] = n
        BY <1>2, <3>2, <3>3
      <4>2. Full(q, d, weight, ns, health, cap)
        BY <2>1, <4>1
      <4>3. \A m \in Places(ns, health) : r.load[m] >= q.load[m] /\ r.load[m] \in Nat
                /\ q.load[m] \in Nat /\ cap[m] \in Nat /\ weight[d] \in Nat
        BY <1>2, <2>3, <2>5, <3>1, <4>1
      <4> QED BY <4>2, <4>3 DEF Full
    <3>9. Good(T, r)
      BY <2>5, <3>4, <3>5, <3>7, <3>8
    <3> HIDE DEF Good
    <3> QED BY <1>1, <3>1, <3>9
  <2> QED BY <2>2, <2>4, <2>5 DEF r
<1> DEFINE e == Drain(p, n, weight, ns, health, cap)
<1>6. S = {c \in DOMAIN weight : p.owner[c] = n}
  BY DEF On
<1> HIDE DEF Inv, Good, S, e
<1>7. <<S, e>> \in Inv
  BY <1>4, <1>5, <1>6, DrainLoop DEF e
<1>8. Good(S, e)
  BY <1>1, <1>7
<1>9. \A c \in S : p.owner[c] = n
  BY <1>6
<1> QED BY <1>8, <1>9 DEF Good, Drained, Enough, S, e

(* Phase 3, all the nodes.  A later node takes nothing from an earlier one and
   gives no room back to the nodes that take cameras. *)
AllDrained(p, q, T, weight, ns, health, cap) ==
    /\ Sound(q, weight, ns, cap)
    /\ \A c \in DOMAIN weight :
          q.owner[c] = p.owner[c] \/ (p.owner[c] \in T /\ q.owner[c] \in Places(ns, health))
    /\ Grown(p, q, ns, health)
    /\ \A n \in T : Enough(p, q, n, weight, ns, health, cap)

Draining(ns, health) == {n \in ns : health[n] = "draining"}

(* By induction on the draining nodes seen. *)
LEMMA DrainAllEmpties ==
    ASSUME NEW weight, NEW ns, NEW health, NEW cap, InputOK(weight, ns, health, cap),
           NEW p, Sound(p, weight, ns, cap)
    PROVE  AllDrained(p, DrainAll(p, weight, ns, health, cap), Draining(ns, health),
                      weight, ns, health, cap)
<1> DEFINE D == DOMAIN weight
           S == Draining(ns, health)
           Good(T, q) == AllDrained(p, q, T, weight, ns, health, cap)
           Inv == {z \in (SUBSET S) \X Plans(weight, ns) : Good(z[1], z[2])}
<1>1. \A T, q : <<T, q>> \in Inv <=> T \in SUBSET S /\ q \in Plans(weight, ns) /\ Good(T, q)
  OBVIOUS
<1>2. /\ Null \notin ns /\ Places(ns, health) \subseteq ns /\ S \cap Places(ns, health) = {}
      /\ S \subseteq ns
      /\ \A d \in D : weight[d] \in Nat /\ \A m \in ns : cap[m] \in Nat
  BY DEF InputOK, Places, Draining
<1>3. p \in Plans(weight, ns) /\ \A m \in ns : p.load[m] \in Nat
  BY DEF Sound, Plans
<1>4. <<{}, p>> \in Inv
  <2>1. Good({}, p)
    BY <1>2, <1>3 DEF AllDrained, Grown
  <2> HIDE DEF Good
  <2> QED BY <1>1, <1>3, <2>1
<1>5. ASSUME NEW T \in SUBSET S, NEW q, NEW n \in T, <<T \ {n}, q>> \in Inv
      PROVE  <<T, Drain(q, n, weight, ns, health, cap)>> \in Inv
  <2> DEFINE r == Drain(q, n, weight, ns, health, cap)
  <2>1. AllDrained(p, q, T \ {n}, weight, ns, health, cap) /\ q \in Plans(weight, ns)
        /\ n \in ns \ Places(ns, health)
    BY <1>1, <1>2, <1>5
  <2>2. Sound(q, weight, ns, cap)
    BY <2>1 DEF AllDrained
  <2>3. Drained(q, r, n, weight, ns, health, cap)
    BY <2>1, <2>2, DrainEmpties
  <2> HIDE DEF r
  <2>4. Sound(r, weight, ns, cap) /\ r \in Plans(weight, ns)
    BY <2>3 DEF Drained, Sound
  <2>5. \A m \in ns : q.load[m] \in Nat /\ r.load[m] \in Nat
    BY <2>1, <2>4 DEF Plans
  <2>6. \A c \in D : q.owner[c] = p.owner[c]
                     \/ (p.owner[c] \in T \ {n} /\ q.owner[c] \in Places(ns, health))
    BY <2>1 DEF AllDrained
  <2>7. \A c \in D : r.owner[c] = q.owner[c]
                     \/ (q.owner[c] = n /\ r.owner[c] \in Places(ns, health))
    BY <2>3 DEF Drained
  <2>8. \A c \in D : r.owner[c] = p.owner[c]
                     \/ (p.owner[c] \in T /\ r.owner[c] \in Places(ns, health))
    <3> TAKE c \in D
    <3>1. CASE r.owner[c] = q.owner[c]
      BY <2>6, <3>1
    <3>2. CASE q.owner[c] = n /\ r.owner[c] \in Places(ns, health)
      <4>1. q.owner[c] = p.owner[c]
        BY <2>1, <2>6, <3>2
      <4> QED BY <3>2, <4>1
    <3> QED BY <2>7, <3>1, <3>2
  <2>9. Grown(p, r, ns, health)
    BY <1>2, <1>3, <2>1, <2>3, <2>5 DEF AllDrained, Drained, Grown
  <2>11. Enough(p, r, n, weight, ns, health, cap)
    <3>1. On(p, n, weight) = On(q, n, weight)
      BY <2>1, <2>6 DEF On
    <3>2. Gone(p, r, n, weight) = Gone(q, r, n, weight)
      BY <3>1 DEF Gone
    <3> QED BY <2>3, <3>1, <3>2 DEF Drained, Enough
  <2>12. ASSUME NEW k \in T \ {n}
         PROVE  Enough(p, r, k, weight, ns, health, cap)
    <3>1. Enough(p, q, k, weight, ns, health, cap) /\ k \notin Places(ns, health) /\ k # n
      BY <1>2, <2>1 DEF AllDrained
    <3>2. \A c \in On(p, k, weight) : r.owner[c] = q.owner[c] /\ c \in D
      BY <2>1, <2>6, <2>7, <3>1 DEF On
    <3>3. Gone(p, r, k, weight) = Gone(p, q, k, weight)
      BY <3>2 DEF Gone
    <3>4. \A c \in D : Full(q, c, weight, ns, health, cap) => Full(r, c, weight, ns, health, cap)
      <4> TAKE c \in D
      <4>1. \A m \in Places(ns, health) : r.load[m] >= q.load[m]
        BY <2>3 DEF Drained, Grown
      <4> QED BY <1>2, <2>5, <4>1 DEF Full
    <3> QED BY <3>1, <3>2, <3>3, <3>4 DEF Enough
  <2>13. Good(T, r)
    BY <2>4, <2>8, <2>9, <2>11, <2>12 DEF AllDrained
  <2> HIDE DEF Good
  <2> QED BY <1>1, <2>4, <2>13 DEF r
<1> DEFINE e == DrainAll(p, weight, ns, health, cap)
<1>6. S = {n \in ns : health[n] = "draining"}
  BY DEF Draining
<1> HIDE DEF Inv, Good, S, e
<1>7. <<S, e>> \in Inv
  BY <1>4, <1>5, <1>6, DrainAllLoop DEF e
<1> QED BY <1>1, <1>7 DEF Good, S, e

-----------------------------------------------------------------------------
(* The three phases together.                                              *)

(* The node can carry all it had and is in the given health. *)
Bears(n, states, weight, previous, ns, health, cap) ==
    n \in ns /\ health[n] \in states /\ Weigh(weight, Had(n, weight, previous)) <= cap[n]

(* The cameras a node had and has no longer. *)
Leavers(p, n, weight, previous) == {c \in Had(n, weight, previous) : p.owner[c] # n}

(* The cameras draining nodes with room for all they had have given to m. *)
DrainedTo(p, m, weight, previous, ns, health, cap) ==
    {d \in DOMAIN weight : /\ p.owner[d] = m
                           /\ \E k \in ns : /\ Bears(k, {"draining"}, weight, previous, ns, health, cap)
                                            /\ d \in Leavers(p, k, weight, previous)}

(* What planAssignments decides: the plan is sound, a healthy node that can
   carry all it had keeps it, a draining one loses few, and whoever is left
   without a node would find no room even if nothing had been drained. *)
LEMMA Assigned ==
    ASSUME NEW weight, NEW previous, NEW ns, NEW health, NEW cap, InputOK(weight, ns, health, cap)
    PROVE  LET p == Assign(weight, previous, ns, health, cap)
           IN  /\ Sound(p, weight, ns, cap)
               /\ \A n \in ns : Bears(n, {"alive", "unknown"}, weight, previous, ns, health, cap)
                                   => Leavers(p, n, weight, previous) = {}
               /\ \A n \in ns : Bears(n, {"draining"}, weight, previous, ns, health, cap) =>
                     /\ Cardinality(Leavers(p, n, weight, previous)) <= DrainBatch
                     /\ \A c \in Leavers(p, n, weight, previous) : p.owner[c] \in ns
                     /\ \/ Cardinality(Leavers(p, n, weight, previous)) = DrainBatch
                        \/ \A c \in Had(n, weight, previous) \ Leavers(p, n, weight, previous) :
                              Full(p, c, weight, ns, health, cap)
               /\ \A c \in DOMAIN weight : p.owner[c] = Null =>
                     \A m \in Places(ns, health) :
                        p.load[m] - Weigh(weight, DrainedTo(p, m, weight, previous, ns, health, cap))
                           + weight[c] > cap[m]
<1> DEFINE D == DOMAIN weight
           S == Draining(ns, health)
           H(n) == Had(n, weight, previous)
           k == RetainAll(Empty(weight, ns), weight, previous, ns, health, cap)
           q == PlaceAll(k, weight, ns, health, cap)
           p == DrainAll(q, weight, ns, health, cap)
           L(n) == Leavers(p, n, weight, previous)
<1>1. Assign(weight, previous, ns, health, cap) = p
  BY DEF Assign
<1>2. Kept(k, weight, previous, ns, health, cap)
  BY RetainKeeps
<1> HIDE DEF k
<1>3. Placed(k, q, weight, ns, health, cap)
  BY <1>2, PlacePlaces DEF Kept
<1> HIDE DEF q
<1>4. AllDrained(q, p, S, weight, ns, health, cap)
  BY <1>3, DrainAllEmpties DEF Placed
<1> HIDE DEF p
<1>5. /\ Null \notin ns /\ Places(ns, health) \subseteq ns /\ S \cap Places(ns, health) = {}
      /\ S \subseteq ns /\ IsFiniteSet(D)
      /\ \A d \in D : weight[d] \in Nat /\ \A m \in ns : cap[m] \in Nat
  BY DEF InputOK, Places, Draining
<1>6. \A c \in D : q.owner[c] = k.owner[c] \/ (k.owner[c] = Null /\ q.owner[c] \in Places(ns, health))
  BY <1>3 DEF Placed
<1>7. \A c \in D : p.owner[c] = q.owner[c] \/ (q.owner[c] \in S /\ p.owner[c] \in Places(ns, health))
  BY <1>4 DEF AllDrained
<1>8. Sound(k, weight, ns, cap) /\ Sound(q, weight, ns, cap) /\ Sound(p, weight, ns, cap)
  BY <1>2, <1>3, <1>4 DEF Kept, Placed, AllDrained
<1>9. /\ k \in Plans(weight, ns) /\ q \in Plans(weight, ns) /\ p \in Plans(weight, ns)
      /\ \A m \in ns : p.load[m] \in Nat /\ q.load[m] \in Nat
  BY <1>8 DEF Sound, Plans
<1>10. ASSUME NEW n \in ns, Bears(n, {"alive", "unknown", "draining"}, weight, previous, ns, health, cap)
       PROVE  \A c \in H(n) : k.owner[c] = n /\ q.owner[c] = n /\ c \in D
  <2>1. H(n) \subseteq On(k, n, weight)
    BY <1>2, <1>10 DEF Kept, Bears
  <2> QED BY <1>5, <1>6, <2>1 DEF On
<1>11. ASSUME NEW n \in ns, Bears(n, {"alive", "unknown"}, weight, previous, ns, health, cap)
       PROVE  L(n) = {}
  <2>1. n \notin S
    BY <1>11 DEF Bears, Draining
  <2>2. \A c \in H(n) : q.owner[c] = n /\ c \in D
    BY <1>10, <1>11 DEF Bears
  <2> QED BY <1>7, <2>1, <2>2 DEF Leavers
<1>12. ASSUME NEW n \in ns, Bears(n, {"draining"}, weight, previous, ns, health, cap)
       PROVE  /\ Cardinality(L(n)) <= DrainBatch
              /\ \A c \in L(n) : p.owner[c] \in ns
              /\ \/ Cardinality(L(n)) = DrainBatch
                 \/ \A c \in H(n) \ L(n) : Full(p, c, weight, ns, health, cap)
  <2>1. n \in S /\ n \notin Places(ns, health)
    BY <1>5, <1>12 DEF Bears, Draining
  <2>2. \A c \in H(n) : k.owner[c] = n /\ q.owner[c] = n /\ c \in D
    BY <1>10, <1>12 DEF Bears
  <2>3. \A c \in D : q.owner[c] = n => c \in H(n)
    <3> TAKE c \in D
    <3> HAVE q.owner[c] = n
    <3>1. k.owner[c] = n
      BY <1>6, <2>1
    <3> QED BY <1>2, <3>1 DEF Kept, On
  <2>4. On(q, n, weight) = H(n)
    BY <2>2, <2>3 DEF On
  <2>5. Gone(q, p, n, weight) = L(n)
    BY <2>4 DEF Gone, Leavers
  <2>6. Enough(q, p, n, weight, ns, health, cap)
    BY <1>4, <2>1 DEF AllDrained
  <2>7. \A c \in L(n) : p.owner[c] \in ns
    BY <1>5, <1>7, <2>2 DEF Leavers
  <2>8. \A c \in H(n) \ L(n) : p.owner[c] = n
    BY DEF Leavers
  <2> HIDE DEF L, H
  <2> QED BY <2>4, <2>5, <2>6, <2>7, <2>8 DEF Enough
<1>13. ASSUME NEW c \in D, p.owner[c] = Null, NEW m \in Places(ns, health)
       PROVE  p.load[m] - Weigh(weight, DrainedTo(p, m, weight, previous, ns, health, cap))
                 + weight[c] > cap[m]
  <2> DEFINE E == DrainedTo(p, m, weight, previous, ns, health, cap)
             Q == On(q, m, weight)
             A == On(p, m, weight)
  <2>1. m \in ns /\ m \notin S
    BY <1>5
  <2>2. q.load[m] + weight[c] > cap[m]
    <3>1. q.owner[c] = Null
      BY <1>5, <1>7, <1>13
    <3> QED BY <1>3, <3>1 DEF Placed, Full
  <2>3. Q \subseteq A
    BY <1>7, <2>1 DEF On
  <2>4. E \subseteq A
    BY DEF DrainedTo, On
  <2>5. Q \cap E = {}
    <3> SUFFICES ASSUME NEW d \in Q, d \in E  PROVE FALSE
      OBVIOUS
    <3>1. PICK j \in ns : /\ Bears(j, {"draining"}, weight, previous, ns, health, cap)
                          /\ d \in Leavers(p, j, weight, previous)
      BY DEF DrainedTo
    <3>2. d \in H(j) /\ j \in S
      BY <3>1 DEF Leavers, Bears, Draining
    <3>3. Bears(j, {"alive", "unknown", "draining"}, weight, previous, ns, health, cap)
      BY <3>1 DEF Bears
    <3>4. q.owner[d] = j
      BY <1>10, <3>2, <3>3
    <3> QED BY <2>1, <3>2, <3>4 DEF On
  <2>6. Q \in SUBSET D /\ E \in SUBSET D /\ A \in SUBSET D /\ Q \cup E \in SUBSET A
    BY <2>3, <2>4 DEF On
  <2>7. \A X \in SUBSET D : \A Y \in SUBSET D : X \cap Y = {} =>
           /\ Weigh(weight, X) \in Nat /\ Weigh(weight, Y) \in Nat
           /\ Weigh(weight, X \cup Y) = Weigh(weight, X) + Weigh(weight, Y)
    BY <1>5, WeighUnion
  <2>8. \A X \in SUBSET D : \A Y \in SUBSET X : Weigh(weight, Y) <= Weigh(weight, X)
    BY <1>5, WeighMonotone
  <2>9. q.load[m] = Weigh(weight, Q) /\ p.load[m] = Weigh(weight, A)
    BY <1>8, <2>1 DEF Sound
  <2> HIDE DEF E, Q, A
  <2>10. /\ Weigh(weight, Q) \in Nat /\ Weigh(weight, E) \in Nat
         /\ Weigh(weight, Q \cup E) = Weigh(weight, Q) + Weigh(weight, E)
    BY <2>5, <2>6, <2>7
  <2>11. Weigh(weight, Q \cup E) <= Weigh(weight, A)
    BY <2>6, <2>8
  <2>12. p.load[m] \in Nat /\ weight[c] \in Nat /\ cap[m] \in Nat
    BY <1>5, <1>9, <2>1
  <2>13. p.load[m] - Weigh(weight, E) + weight[c] > cap[m]
    BY <2>2, <2>9, <2>10, <2>11, <2>12
  <2> QED BY <2>13 DEF E
<1> QED BY <1>1, <1>8, <1>11, <1>12, <1>13

(* nodeHealth has four answers. *)
LEMMA HealthTyped == \A r : NodeHealth(r) \in Healths
  BY DEF NodeHealth, Healths

(* What a replan computes from an invariant state. *)
Built(weight, health, cap, p, new) ==
    /\ InputOK(weight, RegistryIds, health, cap)
    /\ DOMAIN weight \subseteq Cameras /\ RegistryIds \subseteq Nodes
    /\ DOMAIN health = RegistryIds
    /\ new.saved /\ new.weight = weight /\ new.health = health
    /\ new.capacity = cap /\ new.load = p.load
    /\ DOMAIN new.lease = {c \in DOMAIN weight : p.owner[c] # Null}
    /\ new.unassigned = {c \in DOMAIN weight : p.owner[c] = Null}
    /\ \A c \in DOMAIN new.lease :
          /\ new.lease[c].node = p.owner[c]
          /\ (/\ c \in DOMAIN PreviousLeases /\ PreviousLeases[c].node = p.owner[c]
              /\ PreviousLeases[c].token # Null)
                => new.lease[c].token = PreviousLeases[c].token

LEMMA PlanBuilt ==
    ASSUME FenceInv, NEW w \in Workloads \cup {Null}, NEW report
    PROVE  LET weight == IF w = Null THEN RegistryWorkloads ELSE w
               health == [n \in RegistryIds |-> NodeHealth(report[n])]
               cap    == [n \in RegistryIds |-> Capacity(n)]
               p      == Assign(weight, PreviousLeases, RegistryIds, health, cap)
           IN  Built(weight, health, cap, p, MakePlan(weight, report))
<1> DEFINE weight == IF w = Null THEN RegistryWorkloads ELSE w
           health == [n \in RegistryIds |-> NodeHealth(report[n])]
           cap    == [n \in RegistryIds |-> Capacity(n)]
           prev   == PreviousLeases
           p      == Assign(weight, prev, RegistryIds, health, cap)
           new    == MakePlan(weight, report)
           first  == FirstToken(prev, PreviousNextToken)
           owned  == {c \in DOMAIN weight : p.owner[c] # Null}
           owner  == [c \in DOMAIN weight |-> p.owner[c]]
<1>1. /\ IsFiniteSet(DOMAIN weight) /\ DOMAIN weight \subseteq Nat
      /\ DOMAIN weight \subseteq Cameras
      /\ weight \in [DOMAIN weight -> Nat \ {0}]
  BY WeightFinite DEF FenceInv
<1>2. /\ IsFiniteSet(RegistryIds) /\ RegistryIds \subseteq Nodes
      /\ \A n \in RegistryIds : Capacity(n) \in Nat
  BY RegistryTyped DEF FenceInv
<1>3. RegistryIds \subseteq Nat /\ Null \notin RegistryIds
  BY <1>2, SchedulerConstants
<1>4. health \in [RegistryIds -> Healths]
  BY HealthTyped
<1>11. DOMAIN health = RegistryIds
  OBVIOUS
<1>5. cap \in [RegistryIds -> Nat]
  BY <1>2
<1> HIDE DEF weight, health, cap
<1>6. InputOK(weight, RegistryIds, health, cap)
  BY <1>1, <1>2, <1>3, <1>4, <1>5 DEF InputOK
<1>7. new = [saved      |-> TRUE,
             lease      |-> [c \in owned |-> [node |-> owner[c],
                                token |-> TokenOf(c, owner, prev, first)]],
             nextToken  |-> first + Cardinality(Fresh(owner, prev)),
             expires    |-> now + LeaseTtl,
             weight     |-> weight,
             health     |-> health, capacity |-> cap, load |-> p.load,
             unassigned |-> DOMAIN weight \ owned,
             revoked    |-> Revoked(owner, prev)]
  BY DEF MakePlan, health, cap
<1> HIDE DEF p, new, first, prev
<1>8. /\ new.saved /\ new.weight = weight /\ new.health = health
      /\ new.capacity = cap /\ new.load = p.load
      /\ DOMAIN new.lease = owned /\ new.unassigned = DOMAIN weight \ owned
  BY <1>7
<1>9. ASSUME NEW c \in DOMAIN new.lease
      PROVE  /\ new.lease[c].node = p.owner[c]
             /\ (c \in DOMAIN prev /\ prev[c].node = p.owner[c] /\ prev[c].token # Null)
                   => new.lease[c].token = prev[c].token
  <2>1. new.lease[c] = [node |-> owner[c], token |-> TokenOf(c, owner, prev, first)]
    BY <1>7, <1>8
  <2>2. owner[c] = p.owner[c]
    BY <1>8
  <2> QED BY <2>1, <2>2 DEF TokenOf, SameOwner
<1>10. new.unassigned = {c \in DOMAIN weight : p.owner[c] = Null}
  BY <1>8
<1>12. Built(weight, health, cap, p, new)
  BY <1>1, <1>2, <1>6, <1>8, <1>9, <1>10, <1>11 DEF Built, prev
<1> QED BY <1>12 DEF weight, health, cap, p, new, prev

-----------------------------------------------------------------------------
(* The state of the scheduler between two requests. *)
SchedulerInv == FenceInv /\ TypeOK /\ LoadFits

(* A replan keeps the types and the loads. *)
LEMMA ReplanTyped ==
    ASSUME SchedulerInv, NEW w \in Workloads \cup {Null}, NEW report, Replan(w, report)
    PROVE  TypeOK' /\ LoadFits'
<1> DEFINE weight == IF w = Null THEN RegistryWorkloads ELSE w
           health == [n \in RegistryIds |-> NodeHealth(report[n])]
           cap    == [n \in RegistryIds |-> Capacity(n)]
           p      == Assign(weight, PreviousLeases, RegistryIds, health, cap)
           new    == MakePlan(weight, report)
<1>1. Built(weight, health, cap, p, new)
  BY PlanBuilt DEF SchedulerInv
<1>2. plan' = new /\ registry' = registry /\ now' = now
      /\ withdrawn' = withdrawn \cup (LeasesOf(plan) \ LeasesOf(new))
  BY DEF Replan
<1>3. FenceInv'
  BY ReplanFences DEF SchedulerInv
<1> HIDE DEF weight, health, cap, new
<1>4. Sound(p, weight, RegistryIds, cap)
  BY <1>1, Assigned DEF Built
<1> HIDE DEF p
<1>5. p \in Plans(weight, RegistryIds) /\ Null \notin RegistryIds
  BY <1>1, <1>4 DEF Sound, InputOK, Built
<1>6. LeasesOf(new) \subseteq LeaseRec
  <2> SUFFICES ASSUME NEW c \in DOMAIN new.lease
               PROVE  c \in Cameras /\ new.lease[c].node \in Nodes
                      /\ new.lease[c].token \in Nat \ {0}
    BY DEF LeasesOf, LeaseRec
  <2>1. new.lease[c].token \in Nat \ {0}
    BY <1>1, <1>2, <1>3 DEF FenceInv, PlanOK, Built
  <2>2. c \in DOMAIN weight /\ p.owner[c] # Null /\ new.lease[c].node = p.owner[c]
    BY <1>1 DEF Built
  <2>3. p.owner[c] \in RegistryIds
    BY <1>5, <2>2 DEF Plans
  <2> QED BY <1>1, <2>1, <2>2, <2>3 DEF Built
<1>7. TypeOK'
  BY <1>2, <1>3, <1>6 DEF TypeOK, SchedulerInv, FenceInv, PlanOK, LeasesOf
<1>8. LoadFits'
  <2>1. DOMAIN new.load = RegistryIds
    BY <1>1, <1>5 DEF Plans, Built
  <2>2. \A n \in RegistryIds :
           {c \in DOMAIN new.lease : new.lease[c].node = n} = On(p, n, weight)
    BY <1>1, <1>5 DEF On, Built
  <2>3. \A n \in DOMAIN new.load :
           /\ new.load[n] = Weigh(new.weight, {c \in DOMAIN new.lease : new.lease[c].node = n})
           /\ new.load[n] <= new.capacity[n]
    <3> TAKE n \in DOMAIN new.load
    <3>1. new.load = p.load /\ new.weight = weight /\ new.capacity = cap
      BY <1>1 DEF Built
    <3>2. p.load[n] = Weigh(weight, On(p, n, weight)) /\ p.load[n] <= cap[n]
      BY <1>4, <2>1 DEF Sound
    <3> QED BY <2>1, <2>2, <3>1, <3>2
  <2> QED BY <1>2, <2>3 DEF LoadFits
<1> QED BY <1>7, <1>8

LEMMA SchedulerStep == SchedulerInv /\ [Next]_vars => SchedulerInv'
<1> SUFFICES ASSUME SchedulerInv, [Next]_vars
             PROVE  SchedulerInv'
  OBVIOUS
<1>1. FenceInv'
  BY FenceStep DEF SchedulerInv
<1>2. ASSUME NEW r \in Registries, PatchComputeNodes(r)
      PROVE  TypeOK' /\ LoadFits'
  BY <1>2 DEF PatchComputeNodes, SchedulerInv, TypeOK, LoadFits, LeasesOf
<1>3. ASSUME NEW w \in Workloads \cup {Null}, NEW report, Replan(w, report)
      PROVE  TypeOK' /\ LoadFits'
  BY <1>3, ReplanTyped
<1>4. CASE now < MaxNow /\ Tick
  <2>1. now' \in 0 .. MaxNow
    BY <1>4, SchedulerConstants DEF Tick, SchedulerInv, TypeOK
  <2>2. TypeOK'
    BY <1>4, <2>1 DEF Tick, SchedulerInv, TypeOK, LeasesOf
  <2>3. LoadFits'
    BY <1>4 DEF Tick, SchedulerInv, LoadFits
  <2> QED BY <1>1, <2>2, <2>3 DEF SchedulerInv
<1>5. CASE UNCHANGED vars
  <2>1. TypeOK'
    BY <1>5 DEF vars, SchedulerInv, TypeOK, LeasesOf
  <2>2. LoadFits'
    BY <1>5 DEF vars, SchedulerInv, LoadFits
  <2> QED BY <1>1, <2>1, <2>2 DEF SchedulerInv
<1> QED BY <1>1, <1>2, <1>3, <1>4, <1>5 DEF Next, SchedulerInv

LEMMA SchedulerAlways == Spec => []SchedulerInv
<1>1. Init => SchedulerInv
  <2>1. Init => TypeOK /\ LoadFits
    BY SchedulerConstants DEF Init, TypeOK, LoadFits, NoPlan, LeasesOf
  <2> QED BY <2>1, FenceInit DEF SchedulerInv
<1>2. SchedulerInv /\ [Next]_vars => SchedulerInv'
  BY SchedulerStep
<1> QED BY <1>1, <1>2, PTL DEF Spec

(* Every lease, past or present, is of a camera, on a node, with a token. *)
THEOREM SchedulerTyped == Spec => []TypeOK
<1>1. SchedulerInv => TypeOK
  BY DEF SchedulerInv
<1> QED BY <1>1, SchedulerAlways, PTL

(* No replan gives a node more than it can carry, and the load it counts with
   through placing, releasing and moving is the weight of the node's cameras. *)
THEOREM LoadsFit == Spec => []LoadFits
<1>1. SchedulerInv => LoadFits
  BY DEF SchedulerInv
<1> QED BY <1>1, SchedulerAlways, PTL

-----------------------------------------------------------------------------
(* Only a replan changes the plan. *)
LEMMA OnlyReplan ==
    ASSUME [Next]_vars, plan' # plan
    PROVE  \E w \in Workloads \cup {Null} : \E report : Replan(w, report)
  BY DEF Next, vars, PatchComputeNodes, Tick

(* What the properties say of a replan, in terms of the planner. *)
Moves(weight, health, cap, p) ==
    /\ \A n : Held(n) = Had(n, weight, PreviousLeases)
    /\ \A n \in RegistryIds : Left(n) = Leavers(p, n, weight, PreviousLeases)
    /\ \A n, states : Carries(n, states)
                         <=> Bears(n, states, weight, PreviousLeases, RegistryIds, health, cap)
    /\ \A m, c, x : m \in RegistryIds /\ Room(m, c, x) =>
          m \in Places(RegistryIds, health) /\ p.load[m] - x + weight[c] <= cap[m]

LEMMA ReplanMoves ==
    ASSUME FenceInv, NEW w \in Workloads \cup {Null}, NEW report, Replan(w, report)
    PROVE  LET weight == IF w = Null THEN RegistryWorkloads ELSE w
               health == [n \in RegistryIds |-> NodeHealth(report[n])]
               cap    == [n \in RegistryIds |-> Capacity(n)]
           IN  Moves(weight, health, cap, Assign(weight, PreviousLeases, RegistryIds, health, cap))
<1> DEFINE weight == IF w = Null THEN RegistryWorkloads ELSE w
           health == [n \in RegistryIds |-> NodeHealth(report[n])]
           cap    == [n \in RegistryIds |-> Capacity(n)]
           prev   == PreviousLeases
           p      == Assign(weight, prev, RegistryIds, health, cap)
           new    == MakePlan(weight, report)
<1>1. Built(weight, health, cap, p, new)
  BY PlanBuilt
<1>2. plan' = new
  BY DEF Replan
<1> HIDE DEF weight, health, cap, prev, p, new
<1>4. \A n : Held(n) = Had(n, weight, prev)
  BY <1>1, <1>2 DEF Held, Had, prev, Built
<1>5. ASSUME NEW n \in RegistryIds
      PROVE  Left(n) = Leavers(p, n, weight, prev)
  <2>1. n # Null
    BY <1>1 DEF InputOK, Built
  <2>2. \A c \in Had(n, weight, prev) : c \in DOMAIN weight
    BY DEF Had
  <2> QED BY <1>1, <1>2, <1>4, <2>1, <2>2 DEF Left, Leavers, Built
<1>6. \A n, states : Carries(n, states)
                        <=> Bears(n, states, weight, prev, RegistryIds, health, cap)
  BY <1>1, <1>2, <1>4 DEF Carries, Bears, Built
<1>7. \A m, c, x : m \in RegistryIds /\ Room(m, c, x) =>
          m \in Places(RegistryIds, health) /\ p.load[m] - x + weight[c] <= cap[m]
  BY <1>1, <1>2 DEF Room, Places, Built
<1>8. Moves(weight, health, cap, p)
  BY <1>4, <1>5, <1>6, <1>7 DEF Moves, prev
<1> QED BY <1>8 DEF weight, health, cap, prev, p

(* Stability: a replan leaves every camera of a node that is heard of, or was
   never heard of, and can carry all it had, on that node and with its token. *)
THEOREM CamerasStayPut == Spec => StaysPut
<1>1. ASSUME FenceInv, [Next]_vars
      PROVE  [plan' # plan => \A n \in Nodes : Carries(n, {"alive", "unknown"}) =>
                /\ Left(n) = {}
                /\ \A c \in Held(n) : PreviousLeases[c].token \in {Null, plan'.lease[c].token}]_vars
  <2> SUFFICES ASSUME plan' # plan, NEW n \in Nodes, Carries(n, {"alive", "unknown"})
               PROVE  /\ Left(n) = {}
                      /\ \A c \in Held(n) :
                            PreviousLeases[c].token \in {Null, plan'.lease[c].token}
    OBVIOUS
  <2>1. PICK w \in Workloads \cup {Null} : \E report : Replan(w, report)
    BY <1>1, OnlyReplan
  <2>2. PICK report : Replan(w, report)
    BY <2>1
  <2> DEFINE weight == IF w = Null THEN RegistryWorkloads ELSE w
             health == [k \in RegistryIds |-> NodeHealth(report[k])]
             cap    == [k \in RegistryIds |-> Capacity(k)]
             prev   == PreviousLeases
             p      == Assign(weight, prev, RegistryIds, health, cap)
             new    == MakePlan(weight, report)
  <2>3. Built(weight, health, cap, p, new)
    BY <1>1, PlanBuilt
  <2>4. Moves(weight, health, cap, p)
    BY <1>1, <2>2, ReplanMoves
  <2>5. plan' = new
    BY <2>2 DEF Replan
  <2> HIDE DEF weight, health, cap, prev, new
  <2>6. /\ n \in RegistryIds
        /\ Bears(n, {"alive", "unknown"}, weight, prev, RegistryIds, health, cap)
    BY <2>4 DEF Moves, Bears, prev
  <2>7. Leavers(p, n, weight, prev) = {}
    BY <2>3, <2>6, Assigned DEF Built
  <2> HIDE DEF p
  <2>8. Left(n) = {}
    BY <2>4, <2>6, <2>7 DEF Moves, prev
  <2>9. ASSUME NEW c \in Held(n)
        PROVE  prev[c].token \in {Null, new.lease[c].token}
    <3>1. c \in DOMAIN prev /\ prev[c].node = n /\ c \in DOMAIN new.lease /\ new.lease[c].node = n
      BY <2>5, <2>8, <2>9 DEF Held, Left, prev
    <3> QED BY <2>3, <3>1 DEF Built, prev
  <2> QED BY <2>5, <2>8, <2>9 DEF prev
<1> QED BY <1>1, FenceAlways, PTL DEF Spec, StaysPut

(* Draining takes at most DrainBatch cameras from a node in one replan, none of
   them for nowhere, and stops short only when no node has room for any of the
   others. *)
THEOREM DrainIsGentle == Spec => DrainsGently
<1>1. ASSUME FenceInv, [Next]_vars
      PROVE  [plan' # plan => \A n \in Nodes : Carries(n, {"draining"}) =>
                /\ Cardinality(Left(n)) <= DrainBatch
                /\ Left(n) \subseteq DOMAIN plan'.lease
                /\ \/ Cardinality(Left(n)) = DrainBatch
                   \/ \A c \in Held(n) \ Left(n), m \in DOMAIN plan'.health : ~Room(m, c, 0)]_vars
  <2> SUFFICES ASSUME plan' # plan, NEW n \in Nodes, Carries(n, {"draining"})
               PROVE  /\ Cardinality(Left(n)) <= DrainBatch
                      /\ Left(n) \subseteq DOMAIN plan'.lease
                      /\ \/ Cardinality(Left(n)) = DrainBatch
                         \/ \A c \in Held(n) \ Left(n), m \in DOMAIN plan'.health : ~Room(m, c, 0)
    OBVIOUS
  <2>1. PICK w \in Workloads \cup {Null} : \E report : Replan(w, report)
    BY <1>1, OnlyReplan
  <2>2. PICK report : Replan(w, report)
    BY <2>1
  <2> DEFINE weight == IF w = Null THEN RegistryWorkloads ELSE w
             health == [k \in RegistryIds |-> NodeHealth(report[k])]
             cap    == [k \in RegistryIds |-> Capacity(k)]
             prev   == PreviousLeases
             p      == Assign(weight, prev, RegistryIds, health, cap)
             new    == MakePlan(weight, report)
  <2>3. Built(weight, health, cap, p, new)
    BY <1>1, PlanBuilt
  <2>4. Moves(weight, health, cap, p)
    BY <1>1, <2>2, ReplanMoves
  <2>5. plan' = new
    BY <2>2 DEF Replan
  <2> HIDE DEF weight, health, cap, prev, new
  <2>6. n \in RegistryIds /\ Bears(n, {"draining"}, weight, prev, RegistryIds, health, cap)
    BY <2>4 DEF Moves, Bears, prev
  <2>7. /\ Sound(p, weight, RegistryIds, cap)
        /\ Cardinality(Leavers(p, n, weight, prev)) <= DrainBatch
        /\ \A c \in Leavers(p, n, weight, prev) : p.owner[c] \in RegistryIds
        /\ \/ Cardinality(Leavers(p, n, weight, prev)) = DrainBatch
           \/ \A c \in Had(n, weight, prev) \ Leavers(p, n, weight, prev) :
                 Full(p, c, weight, RegistryIds, health, cap)
    BY <2>3, <2>6, Assigned DEF Built
  <2> HIDE DEF p
  <2>8. Left(n) = Leavers(p, n, weight, prev) /\ Held(n) = Had(n, weight, prev)
    BY <2>4, <2>6 DEF Moves, prev
  <2>9. Left(n) \subseteq DOMAIN new.lease
    <3>1. Null \notin RegistryIds
      BY <2>3 DEF Built, InputOK
    <3>2. \A c \in Left(n) : c \in DOMAIN weight /\ p.owner[c] \in RegistryIds
      BY <2>7, <2>8 DEF Leavers, Had
    <3> QED BY <2>3, <3>1, <3>2 DEF Built
  <2>10. ASSUME NEW c \in Held(n), Full(p, c, weight, RegistryIds, health, cap),
                NEW m \in DOMAIN new.health, Room(m, c, 0)
         PROVE  FALSE
    <3>1. m \in RegistryIds
      BY <2>3 DEF Built
    <3>2. m \in Places(RegistryIds, health) /\ p.load[m] - 0 + weight[c] <= cap[m]
      BY <2>4, <2>10, <3>1 DEF Moves
    <3>3. p.load[m] + weight[c] > cap[m]
      BY <2>10, <3>2 DEF Full
    <3>4. p.load[m] \in Nat /\ weight[c] \in Nat /\ cap[m] \in Nat
      <4>1. c \in DOMAIN weight
        BY <2>8 DEF Had
      <4> QED BY <2>3, <2>7, <3>1, <4>1 DEF Built, InputOK, Sound, Plans
    <3> QED BY <3>2, <3>3, <3>4
  <2> QED BY <2>5, <2>7, <2>8, <2>9, <2>10
<1> QED BY <1>1, FenceAlways, PTL DEF Spec, DrainsGently

(* A camera is left without a node only if every node would be too full for it
   even without the cameras that were drained into it. *)
THEOREM FailoverComesFirst == Spec => FailoverFirst
<1>1. ASSUME FenceInv, [Next]_vars
      PROVE  [plan' # plan => \A c \in plan'.unassigned, m \in DOMAIN plan'.health :
                LET drained == {d \in UNION {Left(n) : n \in {k \in Nodes : Carries(k, {"draining"})}} :
                                   d \in DOMAIN plan'.lease /\ plan'.lease[d].node = m}
                IN  ~Room(m, c, Weigh(plan'.weight, drained))]_vars
  <2> DEFINE drained(m) == {d \in UNION {Left(n) : n \in {k \in Nodes : Carries(k, {"draining"})}} :
                               d \in DOMAIN plan'.lease /\ plan'.lease[d].node = m}
  <2> SUFFICES ASSUME plan' # plan, NEW c \in plan'.unassigned, NEW m \in DOMAIN plan'.health,
                      Room(m, c, Weigh(plan'.weight, drained(m)))
               PROVE  FALSE
    OBVIOUS
  <2>1. PICK w \in Workloads \cup {Null} : \E report : Replan(w, report)
    BY <1>1, OnlyReplan
  <2>2. PICK report : Replan(w, report)
    BY <2>1
  <2> DEFINE weight == IF w = Null THEN RegistryWorkloads ELSE w
             health == [k \in RegistryIds |-> NodeHealth(report[k])]
             cap    == [k \in RegistryIds |-> Capacity(k)]
             prev   == PreviousLeases
             p      == Assign(weight, prev, RegistryIds, health, cap)
             new    == MakePlan(weight, report)
             E      == DrainedTo(p, m, weight, prev, RegistryIds, health, cap)
  <2>3. Built(weight, health, cap, p, new)
    BY <1>1, PlanBuilt
  <2>4. Moves(weight, health, cap, p)
    BY <1>1, <2>2, ReplanMoves
  <2>5. plan' = new
    BY <2>2 DEF Replan
  <2> HIDE DEF weight, health, cap, prev, new
  <2>6. c \in DOMAIN weight /\ p.owner[c] = Null /\ m \in RegistryIds /\ m # Null
    BY <2>3, <2>5 DEF Built, InputOK
  <2>7. \A k \in Places(RegistryIds, health) :
           p.load[k] - Weigh(weight, DrainedTo(p, k, weight, prev, RegistryIds, health, cap))
              + weight[c] > cap[k]
    BY <2>3, <2>6, Assigned DEF Built
  <2>8. Sound(p, weight, RegistryIds, cap)
    BY <2>3, Assigned DEF Built
  <2> HIDE DEF p
  <2>9. drained(m) = E
    <3>1. ASSUME NEW d \in drained(m)
          PROVE  d \in E
      <4>1. PICK n \in Nodes : Carries(n, {"draining"}) /\ d \in Left(n)
        BY <3>1
      <4>2. n \in RegistryIds /\ Bears(n, {"draining"}, weight, prev, RegistryIds, health, cap)
            /\ d \in Leavers(p, n, weight, prev)
        BY <2>4, <4>1 DEF Moves, Bears, prev
      <4>3. d \in DOMAIN weight /\ p.owner[d] = m
        BY <2>3, <2>5, <3>1 DEF Built
      <4> QED BY <4>2, <4>3 DEF DrainedTo
    <3>2. ASSUME NEW d \in E
          PROVE  d \in drained(m)
      <4>1. PICK n \in RegistryIds : Bears(n, {"draining"}, weight, prev, RegistryIds, health, cap)
                                     /\ d \in Leavers(p, n, weight, prev)
        BY DEF DrainedTo
      <4>2. n \in Nodes /\ Carries(n, {"draining"}) /\ d \in Left(n)
        BY <2>3, <2>4, <4>1 DEF Moves, Built, prev
      <4>3. d \in DOMAIN new.lease /\ new.lease[d].node = m
        BY <2>3, <2>6 DEF Built, DrainedTo
      <4> QED BY <2>5, <4>2, <4>3
    <3> QED BY <3>1, <3>2
  <2> HIDE DEF drained, E
  <2>10. /\ m \in Places(RegistryIds, health)
         /\ p.load[m] - Weigh(weight, E) + weight[c] <= cap[m]
    BY <2>3, <2>4, <2>5, <2>6, <2>9 DEF Moves, Built
  <2>11. p.load[m] - Weigh(weight, E) + weight[c] > cap[m]
    BY <2>7, <2>10 DEF E
  <2>12. /\ p.load[m] \in Nat /\ weight[c] \in Nat /\ cap[m] \in Nat
         /\ Weigh(weight, E) \in Nat
    <3>1. /\ IsFiniteSet(DOMAIN weight) /\ \A d \in DOMAIN weight : weight[d] \in Nat
          /\ E \subseteq DOMAIN weight
      BY <2>3 DEF Built, InputOK, E, DrainedTo
    <3>2. IsFiniteSet(E) /\ \A d \in E : weight[d] \in Nat
      BY <3>1, FS_Subset
    <3> QED BY <2>3, <2>6, <2>8, <3>2, WeighIsSum DEF Built, InputOK, Sound, Plans
  <2> QED BY <2>10, <2>11, <2>12
<1> QED BY <1>1, FenceAlways, PTL DEF Spec, FailoverFirst
=============================================================================
