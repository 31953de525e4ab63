---------------------------- MODULE RetentionProofs ----------------------------
(***************************************************************************)
(* The retention, for any number of recordings, clips, cameras and holds,  *)
(* any sizes of page and batch, and any policies: what is held survives,   *)
(* the guardian's brake holds, the counters of the pages stay in their     *)
(* bounds, and a pass that nobody disturbs misses no expired recording.    *)
(*                                                                         *)
(* The orders of the queries are total, so that a page has a first row and *)
(* no more rows than were asked for: the lemmas about pages say so of any  *)
(* total order, given as a relation.  A hold protects through the sets     *)
(* that were read at the start; a clip that is exported meanwhile is held  *)
(* by nobody yet, and one that is held exists, or is gone for good.  A     *)
(* pass counts the rows it leaves behind and skips as many: what it has    *)
(* skipped is the beginning of the result, and is settled (Thorough).      *)
(***************************************************************************)
EXTENDS Retention, FiniteSetTheorems, WellFoundedInduction, TLAPS

Pcs == {"idle", "clips", "clip", "recs", "rec", "recTx", "events",
        "check", "guard", "guardRec", "guardTx", "measure"}

AtClips == {"clip"}
AtRecs  == {"rec", "recTx", "guardRec", "guardTx"}
InPass  == {"clip", "rec", "recTx"}
InBatch == {"guardRec", "guardTx", "measure"}

Items == Item("rec", Recordings) \cup Item("clip", Clips) \cup Item("event", Events)

Protections == [rec : SUBSET Recordings, clip : SUBSET Clips, event : SUBSET Events]

HoldRec == [investigation : Nat, enabled : BOOLEAN, items : SUBSET Items]

ProcRec ==
    [pc : Pcs, now : Int, prot : Protections, groups : SUBSET RetentionGroups,
     skip : Nat, budget : Nat, full : BOOLEAN, page : SUBSET Nat, clips : SUBSET Clips,
     current : Int, iteration : Nat, noProgress : Nat, batchDeleted : Nat,
     covered : SUBSET Items, failed : SUBSET Recordings, disturbed : BOOLEAN, wasted : Nat]

TypeInv ==
    /\ rows \subseteq Recordings /\ pending \cap Item("rec", rows) = {}
    /\ clipRows \subseteq clipFiles /\ clipFiles \subseteq Clips
    /\ pending \cap Item("clip", clipFiles) = {}
    /\ \A k \in clipRows : Source[k] \in rows
    /\ events \subseteq Events
    /\ holds \in Seq(HoldRec) /\ policy \in Policies
    /\ today \in 0..MaxToday /\ failures \in 0..MaxFailures /\ outside \in Nat
    /\ st \in [Procs -> ProcRec]

Total == Cardinality(Recordings) + Cardinality(Clips)

(* The counters of a page: the rows that are left of it fit into the budget,
   and with those that were skipped into the table. *)
PageOK(s) ==
    /\ s.pc \in AtClips \cup AtRecs => s.page # {}
    /\ s.pc \in AtClips => s.page \subseteq Clips
    /\ s.pc \in AtRecs => s.page \subseteq Recordings
    /\ s.budget <= MaxPerCycle /\ s.skip <= Total
    /\ s.pc \in InPass => /\ Cardinality(s.page) <= s.budget
                          /\ s.skip + Cardinality(s.page) <= Total

(* The guardian's counters: every batch that did not help is counted, and a
   batch deletes no more than its rows. *)
BrakeOK(s) ==
    /\ s.noProgress < MaxNoProgress
    /\ s.pc \in InBatch => /\ s.pc = "measure" => s.page = {}
                           /\ s.batchDeleted + Cardinality(s.page) <= GuardBatch
                           /\ s.wasted <= s.noProgress * GuardBatch + s.batchDeleted
    /\ s.pc \notin InBatch => s.wasted <= s.noProgress * GuardBatch

(* A clip that can never have a row again. *)
Gone(k) ==
    /\ [kind |-> "clip", id |-> k] \notin pending
    /\ \/ k \notin clipFiles
       \/ Source[k] \notin rows /\ [kind |-> "rec", id |-> Source[k]] \notin pending

EverHeld == Evidence \cup UNION {holds[i].items : i \in {j \in DOMAIN holds : holds[j].enabled}}

(* What is held was there when it was held. *)
HeldExist == \A k \in Clips : [kind |-> "clip", id |-> k] \in EverHeld => k \in clipRows \/ Gone(k)

(* What a process spares covers what has been held since it looked; the
   recording it is about to delete is spared by nobody, and no clip that is
   held can appear under it. *)
SparesHeld(s) ==
    /\ s.covered \subseteq EverHeld
    /\ \A x \in s.covered : /\ x.kind = "rec" => x.id \in s.prot.rec
                            /\ x.kind = "clip" => x.id \in s.prot.clip
                            /\ x.kind = "event" => x.id \in s.prot.event
    /\ s.pc \in {"recTx", "guardTx"} =>
          LET r == First(s.page, Older)
          IN  /\ r \notin s.prot.rec /\ \A k \in s.clips : Source[k] = r
              /\ \A k \in Clips : [kind |-> "clip", id |-> k] \in s.covered /\ Source[k] = r => Gone(k)

(* The inductive invariant. *)
RetentionInv ==
    /\ TypeInv /\ HeldExist
    /\ \A p \in Procs : PageOK(st[p]) /\ BrakeOK(st[p]) /\ SparesHeld(st[p])

-----------------------------------------------------------------------------
(* Pages, in any total order.                                              *)

StrictTotal(R, X) ==
    /\ \A x \in X : <<x, x>> \notin R
    /\ \A x, y, z \in X : <<x, y>> \in R /\ <<y, z>> \in R => <<x, z>> \in R
    /\ \A x, y \in X : x = y \/ <<x, y>> \in R \/ <<y, x>> \in R

Below(R, X, x) == {y \in X : <<y, x>> \in R}

(* Sizes of sets and subsets, as the lemmas below need them. *)
LEMMA Sizes ==
    ASSUME NEW X, IsFiniteSet(X), NEW A \in SUBSET X, NEW B \in SUBSET X
    PROVE  /\ IsFiniteSet(A) /\ Cardinality(A) \in Nat /\ Cardinality(X) \in Nat
           /\ Cardinality(A) <= Cardinality(X)
           /\ A \subseteq B => Cardinality(A) <= Cardinality(B)
           /\ A \subseteq B /\ A # B => Cardinality(A) < Cardinality(B)
           /\ A \cap B = {} => Cardinality(A) + Cardinality(B) <= Cardinality(X)
           /\ A # {} => Cardinality(A) > 0
<1>1. /\ IsFiniteSet(A) /\ Cardinality(A) <= Cardinality(X)
      /\ IsFiniteSet(B)
  BY FS_Subset
<1>2. Cardinality(A) \in Nat /\ Cardinality(B) \in Nat /\ Cardinality(X) \in Nat
  BY <1>1, FS_CardinalityType
<1>3. A \subseteq B => /\ Cardinality(A) <= Cardinality(B)
                       /\ Cardinality(B) = Cardinality(A) => B = A
  BY <1>1, FS_Subset
<1>4. /\ IsFiniteSet(A \cup B)
      /\ Cardinality(A \cup B) = Cardinality(A) + Cardinality(B) - Cardinality(A \cap B)
  BY <1>1, FS_Union
<1>5. Cardinality(A \cup B) <= Cardinality(X)
  <2>1. A \cup B \in SUBSET X OBVIOUS
  <2> QED BY <2>1, FS_Subset
<1>6. A \cap B = {} => Cardinality(A \cap B) = 0
  BY FS_EmptySet
<1>7. A # {} => Cardinality(A) # 0
  BY <1>1, FS_EmptySet
<1>8. A \cap B = {} => Cardinality(A) + Cardinality(B) <= Cardinality(X)
  BY <1>2, <1>4, <1>5, <1>6
<1>9. A \subseteq B /\ A # B => Cardinality(A) < Cardinality(B)
  BY <1>2, <1>3
<1> QED BY <1>1, <1>2, <1>3, <1>7, <1>8, <1>9

(* What is below an element has less below it. *)
LEMMA BelowGrows ==
    ASSUME NEW X, IsFiniteSet(X), NEW R, StrictTotal(R, X),
           NEW x \in X, NEW y \in X, <<y, x>> \in R
    PROVE  Cardinality(Below(R, X, y)) < Cardinality(Below(R, X, x))
<1>1. Below(R, X, y) \subseteq Below(R, X, x)
  BY DEF Below, StrictTotal
<1>2. y \in Below(R, X, x) /\ y \notin Below(R, X, y)
  BY DEF Below, StrictTotal
<1>3. Below(R, X, x) \in SUBSET X /\ Below(R, X, y) \in SUBSET X
  BY DEF Below
<1> QED BY <1>1, <1>2, <1>3, Sizes

(* A set of rows that is not empty has a first one. *)
LEMMA LeastOf ==
    ASSUME NEW X, IsFiniteSet(X), X # {}, NEW R, StrictTotal(R, X)
    PROVE  \E x \in X : \A y \in X : y = x \/ <<x, y>> \in R
<1> DEFINE T == {Cardinality(Below(R, X, x)) : x \in X}
           Less == OpToRel(<, Nat)
<1>1. \A x \in X : Cardinality(Below(R, X, x)) \in Nat
  <2> TAKE x \in X
  <2>1. Below(R, X, x) \in SUBSET X
    BY DEF Below
  <2> QED BY <2>1, Sizes
<1>2. T \subseteq Nat /\ T # {}
  BY <1>1
<1>3. IsWellFoundedOn(Less, Nat)
  BY NatLessThanWellFounded
<1>4. \A m, n \in Nat : m < n => <<m, n>> \in Less
  BY DEF OpToRel
<1> HIDE DEF Less, T
<1>5. PICK n \in T : \A m \in T : ~(<<m, n>> \in Less)
  BY <1>2, <1>3, WFMin
<1>6. PICK x \in X : n = Cardinality(Below(R, X, x))
  BY <1>5 DEF T
<1>7. ASSUME NEW y \in X, <<y, x>> \in R
      PROVE  FALSE
  <2>1. PICK m : m = Cardinality(Below(R, X, y))
    OBVIOUS
  <2>2. m < n
    BY <1>6, <1>7, <2>1, BelowGrows
  <2>3. m \in T /\ m \in Nat /\ n \in Nat
    BY <1>1, <1>6, <2>1 DEF T
  <2> QED BY <1>4, <1>5, <2>2, <2>3
<1> QED BY <1>7 DEF StrictTotal

(* A page has no more rows than were asked for, and with the rows before it no
   more than there are. *)
LEMMA PageFits ==
    ASSUME NEW X, IsFiniteSet(X), NEW R, StrictTotal(R, X), NEW skip \in Nat, NEW take \in Nat,
           NEW P, P \subseteq X,
           \A x \in X : x \in P <=> /\ skip <= Cardinality(Below(R, X, x))
                                   /\ Cardinality(Below(R, X, x)) < skip + take
    PROVE  /\ P \subseteq X /\ IsFiniteSet(P) /\ Cardinality(P) \in Nat
           /\ Cardinality(P) <= take
           /\ P # {} => skip + Cardinality(P) <= Cardinality(X)
<1>1. P \subseteq X /\ P \in SUBSET X
  OBVIOUS
<1>2. IsFiniteSet(P) /\ Cardinality(P) \in Nat /\ Cardinality(X) \in Nat
  BY <1>1, Sizes
<1>3. CASE P = {}
  BY <1>1, <1>2, <1>3, FS_EmptySet
<1>4. CASE P # {}
  <2>1. StrictTotal(R, P)
    BY <1>1 DEF StrictTotal
  <2>2. PICK f \in P : \A y \in P : y = f \/ <<f, y>> \in R
    BY <1>2, <1>4, <2>1, LeastOf
  <2>3. PICK l \in P : \A y \in P : y = l \/ <<y, l>> \in R
    <3> DEFINE Q == {ab \in P \X P : <<ab[2], ab[1]>> \in R}
    <3>1. \A a, b \in P : <<a, b>> \in Q <=> <<b, a>> \in R
      OBVIOUS
    <3> HIDE DEF Q
    <3>2. StrictTotal(Q, P)
      <4>1. ASSUME NEW x \in P, NEW y \in P, NEW z \in P, <<x, y>> \in Q, <<y, z>> \in Q
            PROVE  <<x, z>> \in Q
        <5>1. <<y, x>> \in R /\ <<z, y>> \in R
          BY <3>1, <4>1
        <5>2. <<z, x>> \in R
          BY <2>1, <5>1 DEF StrictTotal
        <5> QED BY <3>1, <5>2
      <4>2. ASSUME NEW x \in P, NEW y \in P
            PROVE  /\ <<x, x>> \notin Q
                   /\ x = y \/ <<x, y>> \in Q \/ <<y, x>> \in Q
        <5>1. <<x, x>> \notin R /\ (x = y \/ <<x, y>> \in R \/ <<y, x>> \in R)
          BY <2>1 DEF StrictTotal
        <5> QED BY <3>1, <5>1
      <4>3. \A x, y, z \in P : <<x, y>> \in Q /\ <<y, z>> \in Q => <<x, z>> \in Q
        BY <4>1
      <4>4. /\ \A x \in P : <<x, x>> \notin Q
            /\ \A x, y \in P : x = y \/ <<x, y>> \in Q \/ <<y, x>> \in Q
        BY <4>2
      <4> QED BY <4>3, <4>4, Zenon DEF StrictTotal
    <3>3. PICK l \in P : \A y \in P : y = l \/ <<l, y>> \in Q
      BY <1>2, <1>4, <3>2, LeastOf
    <3> QED BY <3>1, <3>3
  <2>4. f \in X /\ l \in X /\ skip <= Cardinality(Below(R, X, f))
        /\ Cardinality(Below(R, X, l)) < skip + take
    BY <1>1
  <2> DEFINE B == Below(R, X, f)
             L == Below(R, X, l)
             Q == P \ {l}
  <2>5. B \cap P = {} /\ B \in SUBSET X /\ L \in SUBSET X
    BY <1>1, <2>2 DEF Below, StrictTotal
  <2>6. B \subseteq L /\ Q \subseteq L /\ B \cap Q = {}
    BY <1>1, <2>2, <2>3, <2>5 DEF Below, StrictTotal
  <2>7. /\ Cardinality(B) \in Nat /\ Cardinality(L) \in Nat /\ IsFiniteSet(L)
        /\ Cardinality(B) + Cardinality(P) <= Cardinality(X)
    BY <1>1, <2>5, Sizes
  <2>8. Cardinality(Q) = Cardinality(P) - 1
    BY <1>2, FS_RemoveElement
  <2>9. Cardinality(B) + Cardinality(Q) <= Cardinality(L)
    <3>1. B \in SUBSET L /\ Q \in SUBSET L
      BY <2>6
    <3> QED BY <2>6, <2>7, <3>1, Sizes
  <2>10. skip <= Cardinality(B) /\ Cardinality(L) < skip + take
    BY <2>4
  <2> HIDE DEF B, L, Q
  <2> QED BY <1>1, <1>2, <2>7, <2>8, <2>9, <2>10
<1> QED BY <1>3, <1>4

OlderRel == {ab \in Recordings \X Recordings : Older(ab[1], ab[2])}

(* Recordings are ordered totally: by age, and by their ids among equals. *)
LEMMA RecOrdered ==
    /\ \A a, b \in Recordings : <<a, b>> \in OlderRel <=> Older(a, b)
    /\ \A X \in SUBSET Recordings : StrictTotal(OlderRel, X)
<1>1. \A a, b \in Recordings : <<a, b>> \in OlderRel <=> Older(a, b)
  BY DEF OlderRel
<1>2. \A a \in Recordings : a \in Int /\ StartedAt[a] \in Int
  BY RetentionConstants
<1>3. \A a, b, c \in Recordings :
         /\ ~Older(a, a)
         /\ Older(a, b) /\ Older(b, c) => Older(a, c)
         /\ a = b \/ Older(a, b) \/ Older(b, a)
  BY <1>2 DEF Older
<1> HIDE DEF Older
<1>4. StrictTotal(OlderRel, Recordings)
  BY <1>1, <1>3 DEF StrictTotal
<1> QED BY <1>1, <1>4 DEF StrictTotal

(* A page of recordings keeps within skip and take. *)
LEMMA RecPage ==
    ASSUME NEW X \in SUBSET Recordings, NEW skip \in Nat, NEW take \in Nat,
           NEW P, P = Page(X, Older, skip, take)
    PROVE  /\ P \subseteq X /\ IsFiniteSet(P) /\ Cardinality(P) \in Nat
           /\ Cardinality(P) <= take
           /\ P # {} => skip + Cardinality(P) <= Cardinality(Recordings)
<1>1. IsFiniteSet(X) /\ Cardinality(X) <= Cardinality(Recordings) /\ Cardinality(X) \in Nat
      /\ Cardinality(Recordings) \in Nat
  BY RetentionConstants, Sizes
<1>2. StrictTotal(OlderRel, X)
  BY RecOrdered
<1>3. \A x \in X : {y \in X : Older(y, x)} = Below(OlderRel, X, x)
  BY RecOrdered DEF Below
<1>4. /\ P \subseteq X
      /\ \A x \in X : x \in P <=> /\ skip <= Cardinality(Below(OlderRel, X, x))
                                /\ Cardinality(Below(OlderRel, X, x)) < skip + take
  BY <1>3 DEF Page
<1>5. /\ P \subseteq X /\ IsFiniteSet(P) /\ Cardinality(P) \in Nat
      /\ Cardinality(P) <= take
      /\ P # {} => skip + Cardinality(P) <= Cardinality(X)
  BY <1>1, <1>2, <1>4, PageFits
<1> QED BY <1>1, <1>5

(* The next row of a page is one of the page, which has one less without it. *)
LEMMA RecFirst ==
    ASSUME NEW P \in SUBSET Recordings, P # {}
    PROVE  /\ First(P, Older) \in P
           /\ Cardinality(P) \in Nat /\ Cardinality(P) > 0 /\ IsFiniteSet(P)
           /\ Cardinality(P \ {First(P, Older)}) = Cardinality(P) - 1
<1>1. IsFiniteSet(P) /\ Cardinality(P) \in Nat /\ Cardinality(P) > 0
  BY RetentionConstants, Sizes
<1>2. \E x \in P : \A y \in P : y = x \/ <<x, y>> \in OlderRel
  BY <1>1, RecOrdered, LeastOf
<1>3. \E x \in P : \A y \in P : y = x \/ Older(x, y)
  BY <1>2, RecOrdered
<1>4. First(P, Older) \in P
  BY <1>3 DEF First
<1> QED BY <1>1, <1>4, FS_RemoveElement

OlderClipRel == {ab \in Clips \X Clips : OlderClip(ab[1], ab[2])}

(* Clips are ordered totally: by age, and by their ids among equals. *)
LEMMA ClipOrdered ==
    /\ \A a, b \in Clips : <<a, b>> \in OlderClipRel <=> OlderClip(a, b)
    /\ \A X \in SUBSET Clips : StrictTotal(OlderClipRel, X)
<1>1. \A a, b \in Clips : <<a, b>> \in OlderClipRel <=> OlderClip(a, b)
  BY DEF OlderClipRel
<1>2. \A a \in Clips : a \in Int /\ StartedAt[Source[a]] \in Int
  BY RetentionConstants
<1>3. \A a, b, c \in Clips :
         /\ ~OlderClip(a, a)
         /\ OlderClip(a, b) /\ OlderClip(b, c) => OlderClip(a, c)
         /\ a = b \/ OlderClip(a, b) \/ OlderClip(b, a)
  BY <1>2 DEF OlderClip
<1> HIDE DEF OlderClip
<1>4. StrictTotal(OlderClipRel, Clips)
  BY <1>1, <1>3 DEF StrictTotal
<1> QED BY <1>1, <1>4 DEF StrictTotal

(* A page of clips keeps within skip and take. *)
LEMMA ClipPage ==
    ASSUME NEW X \in SUBSET Clips, NEW skip \in Nat, NEW take \in Nat,
           NEW P, P = Page(X, OlderClip, skip, take)
    PROVE  /\ P \subseteq X /\ IsFiniteSet(P) /\ Cardinality(P) \in Nat
           /\ Cardinality(P) <= take
           /\ P # {} => skip + Cardinality(P) <= Cardinality(Clips)
<1>1. IsFiniteSet(X) /\ Cardinality(X) <= Cardinality(Clips) /\ Cardinality(X) \in Nat
      /\ Cardinality(Clips) \in Nat
  BY RetentionConstants, Sizes
<1>2. StrictTotal(OlderClipRel, X)
  BY ClipOrdered
<1>3. \A x \in X : {y \in X : OlderClip(y, x)} = Below(OlderClipRel, X, x)
  BY ClipOrdered DEF Below
<1>4. /\ P \subseteq X
      /\ \A x \in X : x \in P <=> /\ skip <= Cardinality(Below(OlderClipRel, X, x))
                                /\ Cardinality(Below(OlderClipRel, X, x)) < skip + take
  BY <1>3 DEF Page
<1>5. /\ P \subseteq X /\ IsFiniteSet(P) /\ Cardinality(P) \in Nat
      /\ Cardinality(P) <= take
      /\ P # {} => skip + Cardinality(P) <= Cardinality(X)
  BY <1>1, <1>2, <1>4, PageFits
<1> QED BY <1>1, <1>5

(* The next row of a page is one of the page, which has one less without it. *)
LEMMA ClipFirst ==
    ASSUME NEW P \in SUBSET Clips, P # {}
    PROVE  /\ First(P, OlderClip) \in P
           /\ Cardinality(P) \in Nat /\ Cardinality(P) > 0 /\ IsFiniteSet(P)
           /\ Cardinality(P \ {First(P, OlderClip)}) = Cardinality(P) - 1
<1>1. IsFiniteSet(P) /\ Cardinality(P) \in Nat /\ Cardinality(P) > 0
  BY RetentionConstants, Sizes
<1>2. \E x \in P : \A y \in P : y = x \/ <<x, y>> \in OlderClipRel
  BY <1>1, ClipOrdered, LeastOf
<1>3. \E x \in P : \A y \in P : y = x \/ OlderClip(x, y)
  BY <1>2, ClipOrdered
<1>4. First(P, OlderClip) \in P
  BY <1>3 DEF First
<1> QED BY <1>1, <1>4, FS_RemoveElement

-----------------------------------------------------------------------------
(* The windows: the one for recordings with movement is never the shorter. *)
LEMMA WindowTyped ==
    ASSUME TypeInv, NEW d \in Int
    PROVE  Window(d).all \in Int /\ Window(d).motion \in Int /\ Window(d).all <= Window(d).motion
<1>1. policy.all \in Int /\ policy.motion \in Int /\ policy.enabled \in BOOLEAN
  BY RetentionConstants DEF TypeInv
<1>2. PICK w : w = Configured(d)
  OBVIOUS
<1>3. /\ w = [all |-> w.all, motion |-> w.motion]
      /\ w.all \in Int /\ w.motion \in Int
  BY <1>1, <1>2 DEF Configured
<1>4. \E x \in {w.all, w.motion} : \A y \in {w.all, w.motion} : x >= y
  BY <1>3
<1>5. /\ Max({w.all, w.motion}) \in {w.all, w.motion}
      /\ \A y \in {w.all, w.motion} : Max({w.all, w.motion}) >= y
  BY <1>4 DEF Max
<1>6. Window(d) = [w EXCEPT !.motion = Max({w.all, w.motion})]
  BY <1>2 DEF Window
<1>7. Window(d).all = w.all /\ Window(d).motion = Max({w.all, w.motion})
  BY <1>3, <1>6
<1> QED BY <1>3, <1>5, <1>7

(* Days of groups are numbers. *)
LEMMA GroupsTyped ==
    \A g \in RetentionGroups : g.days \in Int /\ g.recs \subseteq Recordings
BY RetentionConstants DEF RetentionGroups, CameraGroups, GroupOf, Orphans, DaysOf

(* Filter and rule agree on every recording, in every group and at any time. *)
LEMMA FilterAndRule ==
    ASSUME TypeInv, NEW g \in RetentionGroups, NEW r \in Recordings, NEW now \in Int
    PROVE  ExpiryWhere(r, Window(g.days), now) <=> IsExpiredByAge(r, Window(g.days), now)
<1>1. PICK w : w = Window(g.days)
  OBVIOUS
<1>2. w.all \in Int /\ w.motion \in Int /\ w.all <= w.motion
  BY <1>1, WindowTyped, GroupsTyped
<1>3. StartedAt[r] \in Int /\ MotionScore[r] \in Int
  BY RetentionConstants
<1>4. ExpiryWhere(r, w, now) <=> IsExpiredByAge(r, w, now)
  BY <1>2, <1>3 DEF ExpiryWhere, IsExpiredByAge
<1> QED BY <1>1, <1>4

-----------------------------------------------------------------------------
(* Where a process may go.                                                 *)

(* A process at rest. *)
LEMMA IdleOK ==
    /\ Idle \in ProcRec /\ PageOK(Idle) /\ BrakeOK(Idle) /\ SparesHeld(Idle)
    /\ Idle.pc = "idle" /\ Idle.covered = {} /\ Idle.page = {}
<1>1. Idle \in ProcRec
  BY DEF Idle, ProcRec, Pcs, Protections
<1>2. Total \in Nat
  BY RetentionConstants, FS_CardinalityType DEF Total
<1>3. PageOK(Idle)
  BY <1>2, RetentionConstants DEF Idle, PageOK, AtClips, AtRecs, InPass
<1>4. BrakeOK(Idle)
  BY RetentionConstants DEF Idle, BrakeOK, InBatch
<1> QED BY <1>1, <1>3, <1>4 DEF Idle, SparesHeld

(* A step that only moves one process on. *)
LEMMA ProcGoesOn ==
    ASSUME RetentionInv, NEW p \in Procs, NEW t \in ProcRec, Set(p, t),
           PageOK(t), BrakeOK(t), SparesHeld(t),
           UNCHANGED <<db, holds, today, policy, outside>>, failures' \in 0..MaxFailures
    PROVE  RetentionInv'
<1>1. st' \in [Procs -> ProcRec] /\ \A q \in Procs : st'[q] = IF q = p THEN t ELSE st[q]
  BY DEF RetentionInv, TypeInv, Set
<1>2. TypeInv'
  BY <1>1 DEF RetentionInv, TypeInv, db
<1>3. HeldExist'
  BY DEF RetentionInv, HeldExist, EverHeld, Gone, db
<1>4. ASSUME NEW q \in Procs
      PROVE  (PageOK(st[q]) /\ BrakeOK(st[q]) /\ SparesHeld(st[q]))'
  <2>1. PICK u : u = st'[q] /\ PageOK(u) /\ BrakeOK(u) /\ SparesHeld(u)
    BY <1>1 DEF RetentionInv
  <2>2. SparesHeld(u)'
    BY <2>1 DEF SparesHeld, EverHeld, Gone, db
  <2> QED BY <2>1, <2>2 DEF PageOK, BrakeOK, SparesHeld
<1> QED BY <1>2, <1>3, <1>4 DEF RetentionInv

Phase(pc) == IF pc = "clip" THEN "clips" ELSE "recs"

(* To go on within a page, after one of its rows was deleted (the budget is one
   less) or skipped (skip is one more), is safe. *)
LEMMA GoOnInPage ==
    ASSUME RetentionConstants, NEW u \in ProcRec, u.pc \in {"clip", "rec"}, NEW x,
           IsFiniteSet(u.page), x \in u.page,
           u.pc = "clip" => u.page \subseteq Clips,
           u.pc = "rec" => u.page \subseteq Recordings,
           u.budget <= MaxPerCycle, u.skip <= Total,
           Cardinality(u.page) <= u.budget + 1, u.skip + Cardinality(u.page) <= Total + 1,
           BrakeOK(u), SparesHeld(u)
    PROVE  LET t == NextInPage(u, x, Phase(u.pc))
           IN  t \in ProcRec /\ PageOK(t) /\ BrakeOK(t) /\ SparesHeld(t)
<1> DEFINE left == u.page \ {x}
           t == NextInPage(u, x, Phase(u.pc))
<1>1. /\ IsFiniteSet(left) /\ Cardinality(left) = Cardinality(u.page) - 1
      /\ Cardinality(u.page) \in Nat /\ Cardinality(left) \in Nat
  BY FS_RemoveElement, FS_CardinalityType
<1>2. Total \in Nat
  BY RetentionConstants, FS_CardinalityType DEF Total
<1>3. CASE left # {}
  <2>1. t = [u EXCEPT !.page = left]
    BY <1>3 DEF NextInPage
  <2>2. /\ t \in ProcRec /\ t.page = left /\ t.pc = u.pc /\ t.skip = u.skip /\ t.budget = u.budget
        /\ t.noProgress = u.noProgress /\ t.wasted = u.wasted
        /\ t.covered = u.covered /\ t.prot = u.prot
    BY <2>1 DEF ProcRec
  <2> HIDE DEF t
  <2>3. PageOK(t)
    <3>1. u.skip \in Nat /\ u.budget \in Nat
      BY DEF ProcRec
    <3> HIDE DEF left
    <3>2. left \subseteq u.page BY DEF left
    <3> QED BY <1>1, <1>2, <1>3, <2>2, <3>1, <3>2 DEF PageOK, AtClips, AtRecs, InPass
  <2>4. BrakeOK(t) /\ SparesHeld(t)
    BY <2>2 DEF BrakeOK, SparesHeld, InBatch
  <2> QED BY <2>2, <2>3, <2>4 DEF t
<1>4. CASE left = {}
  <2>1. \/ t = [u EXCEPT !.pc = Phase(u.pc), !.page = {}]
        \/ t = [u EXCEPT !.pc = Phase(u.pc), !.groups = @ \ {Group(@)}, !.skip = 0, !.page = {}]
    BY <1>4 DEF NextInPage, NextGroup
  <2>2. /\ t \in ProcRec /\ t.page = {} /\ t.pc \in {"clips", "recs"} /\ t.skip \in {u.skip, 0}
        /\ t.budget = u.budget /\ t.noProgress = u.noProgress /\ t.wasted = u.wasted
        /\ t.covered = u.covered /\ t.prot = u.prot
    <3>1. Phase(u.pc) \in Pcs /\ Phase(u.pc) \in {"clips", "recs"}
      BY DEF Phase, Pcs
    <3>2. CASE t = [u EXCEPT !.pc = Phase(u.pc), !.page = {}]
      BY <3>1, <3>2 DEF ProcRec
    <3>3. CASE t = [u EXCEPT !.pc = Phase(u.pc), !.groups = @ \ {Group(@)}, !.skip = 0, !.page = {}]
      <4>1. PICK gs \in SUBSET RetentionGroups : gs = u.groups \ {Group(u.groups)}
        BY DEF ProcRec
      <4>2. t = [u EXCEPT !.pc = Phase(u.pc), !.groups = gs, !.skip = 0, !.page = {}]
        BY <3>3, <4>1
      <4> HIDE DEF t
      <4> QED BY <3>1, <4>2 DEF ProcRec
    <3> QED BY <2>1, <3>2, <3>3
  <2> HIDE DEF t
  <2>3. PageOK(t)
    BY <1>2, <2>2 DEF PageOK, AtClips, AtRecs, InPass
  <2>4. BrakeOK(t) /\ SparesHeld(t)
    BY <2>2 DEF BrakeOK, SparesHeld, InBatch
  <2> QED BY <2>2, <2>3, <2>4 DEF t
<1> QED BY <1>3, <1>4

-----------------------------------------------------------------------------
(* The protection sets.                                                    *)

(* Whoever looks now spares everything that is held now. *)
LEMMA LookSpares ==
    ASSUME RetentionInv
    PROVE  /\ ProtectionSets \in Protections /\ [ProtectionSets EXCEPT !.event = {}] \in Protections
           /\ HeldItems \subseteq Items /\ HeldItems \subseteq EverHeld
           /\ HeldVideo \subseteq HeldItems /\ \A x \in HeldVideo : x.kind # "event"
           /\ \A x \in HeldItems : /\ x.kind = "rec" => x.id \in ProtectionSets.rec
                                   /\ x.kind = "clip" => x.id \in ProtectionSets.clip
                                   /\ x.kind = "event" => x.id \in ProtectionSets.event
<1>1. holds \in Seq(HoldRec) /\ clipRows \subseteq Clips
  BY DEF RetentionInv, TypeInv
<1>2. \A i \in DOMAIN holds : holds[i] \in HoldRec
  BY <1>1
<1>3. HeldItems \subseteq EverHeld
  <2>1. ASSUME NEW h \in LatestHolds, h.enabled
        PROVE  h.items \subseteq EverHeld
    <3>1. PICK i \in DOMAIN holds : holds[i] = h
      BY DEF LatestHolds
    <3> QED BY <2>1, <3>1 DEF EverHeld
  <2>2. Evidence \subseteq EverHeld
    BY DEF EverHeld
  <2>3. ASSUME NEW x \in HeldItems
        PROVE  x \in EverHeld
    <3>1. x \in Evidence \/ \E h \in LatestHolds : h.enabled /\ x \in h.items
      BY DEF HeldItems
    <3> QED BY <2>1, <2>2, <3>1
  <2> QED BY <2>3
<1>4. Evidence \subseteq Items
  BY HoldsAtStart DEF Items
<1>5. EverHeld \subseteq Items
  BY <1>2, <1>4 DEF EverHeld, HoldRec
<1>6. \A x \in Items : /\ x.kind = "rec" => x.id \in Recordings
                       /\ x.kind = "clip" => x.id \in Clips
                       /\ x.kind = "event" => x.id \in Events
  BY DEF Items, Item
<1>7. Held("rec") \subseteq Recordings /\ Held("clip") \subseteq Clips /\ Held("event") \subseteq Events
  BY <1>3, <1>5, <1>6 DEF Held
<1>8. \A k \in Clips : Source[k] \in Recordings
  BY RetentionConstants
<1>9. ProtectionSets \in Protections
  BY <1>7, <1>8 DEF ProtectionSets, Protections
<1>10. \A x \in HeldItems : x.id \in Held(x.kind)
  BY DEF Held
<1>11. \A x \in HeldItems : /\ x.kind = "rec" => x.id \in ProtectionSets.rec
                            /\ x.kind = "clip" => x.id \in ProtectionSets.clip
                            /\ x.kind = "event" => x.id \in ProtectionSets.event
  BY <1>10 DEF ProtectionSets
<1>12. [ProtectionSets EXCEPT !.event = {}] \in Protections
  BY <1>9 DEF Protections
<1> QED BY <1>3, <1>5, <1>9, <1>11, <1>12 DEF HeldVideo

-----------------------------------------------------------------------------
(* The actions of the pass that change no row.                             *)

(* What is known of a process in an invariant state. *)
LEMMA ProcFacts ==
    ASSUME RetentionInv, NEW p \in Procs
    PROVE  /\ st[p] \in ProcRec /\ PageOK(st[p]) /\ BrakeOK(st[p]) /\ SparesHeld(st[p])
           /\ Total \in Nat /\ failures \in 0..MaxFailures
           /\ Cardinality(Recordings) \in Nat /\ Cardinality(Clips) \in Nat
<1>1. st[p] \in ProcRec /\ failures \in 0..MaxFailures
  BY DEF RetentionInv, TypeInv
<1>2. PageOK(st[p]) /\ BrakeOK(st[p]) /\ SparesHeld(st[p])
  BY DEF RetentionInv
<1>3. Cardinality(Recordings) \in Nat /\ Cardinality(Clips) \in Nat
  BY RetentionConstants, FS_CardinalityType
<1> QED BY <1>1, <1>2, <1>3 DEF Total

(* A pass begins with what is held now. *)
LEMMA PassStartKeeps ==
    ASSUME RetentionInv, PassStart
    PROVE  RetentionInv'
<1>1. PICK t : t = [Idle EXCEPT !.pc = "clips", !.now = today, !.prot = ProtectionSets,
                                !.groups = RetentionGroups, !.budget = MaxPerCycle,
                                !.covered = HeldItems]
  OBVIOUS
<1>2. today \in Int /\ MaxPerCycle \in Nat /\ Idle \in ProcRec
  BY RetentionConstants, IdleOK DEF RetentionInv, TypeInv
<1>3. /\ t \in ProcRec /\ t.pc = "clips" /\ t.prot = ProtectionSets /\ t.covered = HeldItems
      /\ t.budget = MaxPerCycle /\ t.skip = Idle.skip /\ t.page = {}
      /\ t.noProgress = Idle.noProgress /\ t.wasted = Idle.wasted
  BY <1>1, <1>2, LookSpares, IdleOK DEF ProcRec, Pcs
<1>4. PageOK(t) /\ BrakeOK(t)
  BY <1>2, <1>3, IdleOK DEF PageOK, BrakeOK, AtClips, AtRecs, InPass, InBatch
<1>5. SparesHeld(t)
  BY <1>3, LookSpares DEF SparesHeld
<1>6. "pass" \in Procs
  BY DEF Procs
<1> QED BY <1>1, <1>3, <1>4, <1>5, <1>6, ProcGoesOn, ProcFacts DEF PassStart

(* The step from a query to its page, for both tables. *)
LEMMA PageRead ==
    ASSUME RetentionInv, NEW s \in ProcRec, PageOK(s), BrakeOK(s), SparesHeld(s), s.pc \in {"clips", "recs"},
           NEW pc \in {"clip", "rec"}, NEW page, page # {},
           NEW take \in Nat, take <= s.budget, NEW full \in BOOLEAN,
           IsFiniteSet(page), Cardinality(page) \in Nat, Cardinality(page) <= take,
           pc = "clip" => page \subseteq Clips /\ s.skip + Cardinality(page) <= Cardinality(Clips),
           pc = "rec" => page \subseteq Recordings
                            /\ s.skip + Cardinality(page) <= Cardinality(Recordings)
    PROVE  LET t == [s EXCEPT !.pc = pc, !.page = page, !.full = full]
           IN  t \in ProcRec /\ PageOK(t) /\ BrakeOK(t) /\ SparesHeld(t)
<1>1. PICK t : t = [s EXCEPT !.pc = pc, !.page = page, !.full = full]
  OBVIOUS
<1>2. page \subseteq Nat /\ Total = Cardinality(Recordings) + Cardinality(Clips)
      /\ Cardinality(Recordings) \in Nat /\ Cardinality(Clips) \in Nat
  BY RetentionConstants, FS_CardinalityType DEF Total
<1>3. /\ t \in ProcRec /\ t.pc = pc /\ t.page = page /\ t.skip = s.skip /\ t.budget = s.budget
      /\ t.noProgress = s.noProgress /\ t.wasted = s.wasted
      /\ t.covered = s.covered /\ t.prot = s.prot
  BY <1>1, <1>2 DEF ProcRec, Pcs
<1>4. s.skip \in Nat /\ s.budget \in Nat
  BY DEF ProcRec
<1>5. PageOK(t)
  BY <1>2, <1>3, <1>4 DEF PageOK, AtClips, AtRecs, InPass
<1>6. BrakeOK(t) /\ SparesHeld(t)
  BY <1>3 DEF BrakeOK, SparesHeld, InBatch
<1> QED BY <1>1, <1>3, <1>5, <1>6

(* Between two pages: the next group, or the next phase. *)
LEMMA PassPhase ==
    ASSUME RetentionInv, NEW s \in ProcRec, PageOK(s), BrakeOK(s), SparesHeld(s), s.pc \in {"clips", "recs"},
           NEW pc \in {"clips", "recs"}, NEW t,
           \/ t = NextGroup(s, pc)
           \/ t = [s EXCEPT !.pc = pc, !.groups = RetentionGroups, !.skip = 0, !.budget = MaxPerCycle]
           \/ t = [Idle EXCEPT !.pc = "events", !.now = s.now, !.prot = s.prot, !.covered = s.covered]
    PROVE  t \in ProcRec /\ PageOK(t) /\ BrakeOK(t) /\ SparesHeld(t)
<1>1. Total \in Nat /\ MaxPerCycle \in Nat
  BY RetentionConstants, FS_CardinalityType DEF Total
<1>2. /\ t \in ProcRec /\ t.pc \in {"clips", "recs", "events"} /\ t.skip = 0
      /\ t.budget \in {s.budget, MaxPerCycle, Idle.budget}
      /\ \/ t.noProgress = s.noProgress /\ t.wasted = s.wasted
         \/ t.noProgress = Idle.noProgress /\ t.wasted = Idle.wasted
      /\ t.covered = s.covered /\ t.prot = s.prot
  <2>1. CASE t = NextGroup(s, pc)
    <3>1. PICK gs \in SUBSET RetentionGroups : gs = s.groups \ {Group(s.groups)}
      BY DEF ProcRec
    <3>2. t = [s EXCEPT !.pc = pc, !.groups = gs, !.skip = 0, !.page = {}]
      BY <2>1, <3>1 DEF NextGroup
    <3> QED BY <3>2 DEF ProcRec, Pcs
  <2>2. CASE t = [s EXCEPT !.pc = pc, !.groups = RetentionGroups, !.skip = 0, !.budget = MaxPerCycle]
    BY <1>1, <2>2 DEF ProcRec, Pcs
  <2>3. CASE t = [Idle EXCEPT !.pc = "events", !.now = s.now, !.prot = s.prot, !.covered = s.covered]
    <3>1. Idle \in ProcRec /\ Idle.skip = 0
      BY IdleOK DEF Idle
    <3> QED BY <2>3, <3>1 DEF ProcRec, Pcs
  <2> QED BY <2>1, <2>2, <2>3
<1>3. PageOK(t)
  BY <1>1, <1>2, IdleOK DEF PageOK, AtClips, AtRecs, InPass
<1>4. BrakeOK(t) /\ SparesHeld(t)
  BY <1>2, IdleOK DEF BrakeOK, SparesHeld, InBatch, Idle
<1> QED BY <1>2, <1>3, <1>4

(* A page of clips is read, or the phase goes on. *)
LEMMA FetchClipsKeeps ==
    ASSUME RetentionInv, FetchClips
    PROVE  RetentionInv'
<1>1. PICK s : s = st["pass"] /\ s \in ProcRec /\ PageOK(s) /\ BrakeOK(s) /\ SparesHeld(s)
  BY ProcFacts DEF Procs
<1>2. PICK take : take = Least(BatchSize, s.budget)
  OBVIOUS
<1>3. PICK X : X = {k \in clipRows : /\ StartedAt[Source[k]] < s.now - Group(s.groups).days
                                     /\ Source[k] \in Group(s.groups).recs}
  OBVIOUS
<1>4. PICK page : page = Page(X, OlderClip, s.skip, take)
  OBVIOUS
<1>5. PICK full \in BOOLEAN : full = (Cardinality(page) = take)
  OBVIOUS
<1>6. /\ s.pc = "clips" /\ UNCHANGED <<db, holds, today, policy, outside, failures>>
      /\ \/ Set("pass", [s EXCEPT !.pc = "recs", !.groups = RetentionGroups, !.skip = 0,
                                  !.budget = MaxPerCycle])
         \/ Set("pass", NextGroup(s, "clips"))
         \/ page # {} /\ Set("pass", [s EXCEPT !.pc = "clip", !.page = page, !.full = full])
  BY <1>1, <1>2, <1>3, <1>4, <1>5 DEF FetchClips
<1>7. take \in Nat /\ take <= s.budget /\ s.skip \in Nat
  BY <1>1, <1>2, RetentionConstants DEF Least, ProcRec
<1>8. X \in SUBSET Clips
  BY <1>3 DEF RetentionInv, TypeInv
<1>9. /\ page \subseteq X /\ IsFiniteSet(page) /\ Cardinality(page) \in Nat
      /\ Cardinality(page) <= take
      /\ page # {} => s.skip + Cardinality(page) <= Cardinality(Clips)
  BY <1>4, <1>7, <1>8, ClipPage
<1>10. "pass" \in Procs /\ failures \in 0..MaxFailures
  BY ProcFacts DEF Procs
<1>11. page # {} => LET t == [s EXCEPT !.pc = "clip", !.page = page, !.full = full]
                    IN  t \in ProcRec /\ PageOK(t) /\ BrakeOK(t) /\ SparesHeld(t)
  BY <1>1, <1>6, <1>7, <1>8, <1>9, PageRead
<1>12. \A t : \/ t = NextGroup(s, "clips")
              \/ t = [s EXCEPT !.pc = "recs", !.groups = RetentionGroups, !.skip = 0, !.budget = MaxPerCycle]
              => t \in ProcRec /\ PageOK(t) /\ BrakeOK(t) /\ SparesHeld(t)
  BY <1>1, <1>6, PassPhase
<1>13. \E t \in ProcRec : Set("pass", t) /\ PageOK(t) /\ BrakeOK(t) /\ SparesHeld(t)
  BY <1>6, <1>11, <1>12
<1> QED BY <1>6, <1>10, <1>13, ProcGoesOn

(* A page of recordings is read, or the phase goes on. *)
LEMMA FetchRecsKeeps ==
    ASSUME RetentionInv, FetchRecs
    PROVE  RetentionInv'
<1>1. PICK s : s = st["pass"] /\ s \in ProcRec /\ PageOK(s) /\ BrakeOK(s) /\ SparesHeld(s)
  BY ProcFacts DEF Procs
<1>2. PICK take : take = Least(BatchSize, s.budget)
  OBVIOUS
<1>3. PICK X : X = {r \in rows \cap Group(s.groups).recs :
                       ExpiryWhere(r, Window(Group(s.groups).days), s.now)}
  OBVIOUS
<1>4. PICK page : page = Page(X, Older, s.skip, take)
  OBVIOUS
<1>5. PICK full \in BOOLEAN : full = (Cardinality(page) = take)
  OBVIOUS
<1>6. /\ s.pc = "recs" /\ UNCHANGED <<db, holds, today, policy, outside, failures>>
      /\ \/ Set("pass", [Idle EXCEPT !.pc = "events", !.now = s.now, !.prot = s.prot,
                                     !.covered = s.covered])
         \/ Set("pass", NextGroup(s, "recs"))
         \/ page # {} /\ Set("pass", [s EXCEPT !.pc = "rec", !.page = page, !.full = full])
  BY <1>1, <1>2, <1>3, <1>4, <1>5 DEF FetchRecs
<1>7. take \in Nat /\ take <= s.budget /\ s.skip \in Nat
  BY <1>1, <1>2, RetentionConstants DEF Least, ProcRec
<1>8. X \in SUBSET Recordings
  BY <1>3 DEF RetentionInv, TypeInv
<1>9. /\ page \subseteq X /\ IsFiniteSet(page) /\ Cardinality(page) \in Nat
      /\ Cardinality(page) <= take
      /\ page # {} => s.skip + Cardinality(page) <= Cardinality(Recordings)
  BY <1>4, <1>7, <1>8, RecPage
<1>10. "pass" \in Procs /\ failures \in 0..MaxFailures
  BY ProcFacts DEF Procs
<1>11. page # {} => LET t == [s EXCEPT !.pc = "rec", !.page = page, !.full = full]
                    IN  t \in ProcRec /\ PageOK(t) /\ BrakeOK(t) /\ SparesHeld(t)
  BY <1>1, <1>6, <1>7, <1>8, <1>9, PageRead
<1>12. \A t : \/ t = NextGroup(s, "recs")
              \/ t = [Idle EXCEPT !.pc = "events", !.now = s.now, !.prot = s.prot, !.covered = s.covered]
              => t \in ProcRec /\ PageOK(t) /\ BrakeOK(t) /\ SparesHeld(t)
  BY <1>1, <1>6, PassPhase
<1>13. \E t \in ProcRec : Set("pass", t) /\ PageOK(t) /\ BrakeOK(t) /\ SparesHeld(t)
  BY <1>6, <1>11, <1>12
<1> QED BY <1>6, <1>10, <1>13, ProcGoesOn

(* The row a pass is at is one of its page. *)
LEMMA RowOfPage ==
    ASSUME NEW s \in ProcRec, PageOK(s), s.pc \in AtClips \cup AtRecs
    PROVE  LET x == IF s.pc = "clip" THEN First(s.page, OlderClip) ELSE First(s.page, Older)
           IN  /\ x \in s.page /\ IsFiniteSet(s.page) /\ Cardinality(s.page) \in Nat
               /\ Cardinality(s.page) > 0 /\ Cardinality(s.page \ {x}) = Cardinality(s.page) - 1
<1>1. CASE s.pc = "clip"
  BY <1>1, ClipFirst DEF PageOK, AtClips
<1>2. CASE s.pc # "clip"
  BY <1>2, RecFirst DEF PageOK, AtClips, AtRecs
<1> QED BY <1>1, <1>2

(* A row of the page has been dealt with: it was deleted (the budget is one
   less), skipped (skip is one more), or counted and left (both: dry run). *)
LEMMA RowDone ==
    ASSUME RetentionInv, NEW s \in ProcRec, PageOK(s), BrakeOK(s), SparesHeld(s),
           s.pc \in InPass, NEW u \in ProcRec,
           u.page = s.page, u.pc = (IF s.pc = "clip" THEN "clip" ELSE "rec"),
           \/ u.skip = s.skip + 1 /\ u.budget \in {s.budget, s.budget - 1}
           \/ u.skip = s.skip /\ u.budget = s.budget - 1,
           u.noProgress = s.noProgress, u.wasted = s.wasted,
           u.covered = s.covered, u.prot = s.prot,
           NEW x, x = (IF s.pc = "clip" THEN First(s.page, OlderClip) ELSE First(s.page, Older)),
           NEW t, t = NextInPage(u, x, Phase(u.pc))
    PROVE  t \in ProcRec /\ PageOK(t) /\ BrakeOK(t) /\ SparesHeld(t)
<1>1. x \in s.page /\ IsFiniteSet(s.page) /\ Cardinality(s.page) \in Nat /\ Cardinality(s.page) > 0
  BY RowOfPage DEF InPass, AtClips, AtRecs
<1>2. Total \in Nat /\ MaxPerCycle \in Nat
  BY RetentionConstants, FS_CardinalityType DEF Total
<1>3. s.skip \in Nat /\ s.budget \in Nat
  BY DEF ProcRec
<1>4. /\ Cardinality(s.page) <= s.budget /\ s.skip + Cardinality(s.page) <= Total
      /\ s.budget <= MaxPerCycle
  BY DEF PageOK
<1>5. BrakeOK(u) /\ SparesHeld(u)
  BY DEF BrakeOK, SparesHeld, InBatch, InPass
<1>6. /\ u.pc \in {"clip", "rec"}
      /\ u.pc = "clip" => u.page \subseteq Clips
      /\ u.pc = "rec" => u.page \subseteq Recordings
  BY DEF PageOK, AtClips, AtRecs, InPass
<1>7. /\ u.budget <= MaxPerCycle /\ u.skip <= Total
      /\ Cardinality(u.page) <= u.budget + 1 /\ u.skip + Cardinality(u.page) <= Total + 1
  BY <1>1, <1>2, <1>3, <1>4
<1> QED BY <1>1, <1>5, <1>6, <1>7, RetentionConstants, GoOnInPage

(* What the first half of deleteRecording has established when the transaction
   begins. *)
LEMMA BeforeTx ==
    ASSUME RetentionInv, NEW s \in ProcRec, SparesHeld(s), NEW r, r = First(s.page, Older),
           MayDelete(s, r), NEW t, t.page = s.page, t.clips = ClipsOf(r),
           t.covered = s.covered, t.prot = s.prot
    PROVE  SparesHeld(t) /\ ClipsOf(r) \in SUBSET Clips
<1>1. ClipsOf(r) \in SUBSET Clips /\ \A k \in ClipsOf(r) : Source[k] = r
  BY DEF ClipsOf, RetentionInv, TypeInv
<1>2. ASSUME NEW k \in Clips, [kind |-> "clip", id |-> k] \in s.covered, Source[k] = r
      PROVE  Gone(k)
  <2>1. k \in s.prot.clip
    BY <1>2 DEF SparesHeld
  <2>2. k \notin clipRows
    BY <1>2, <2>1 DEF MayDelete, ClipsOf
  <2> QED BY <1>2, <2>2 DEF SparesHeld, RetentionInv, HeldExist
<1>3. r \notin s.prot.rec
  BY DEF MayDelete
<1> QED BY <1>1, <1>2, <1>3 DEF SparesHeld

(* A recording of the page is skipped, counted, or goes to the transaction. *)
LEMMA ExpireRecKeeps ==
    ASSUME RetentionInv, ExpireRec
    PROVE  RetentionInv'
<1>1. PICK s : s = st["pass"] /\ s \in ProcRec /\ PageOK(s) /\ BrakeOK(s) /\ SparesHeld(s)
  BY ProcFacts DEF Procs
<1>2. PICK r : r = First(s.page, Older)
  OBVIOUS
<1>3. /\ s.pc = "rec" /\ UNCHANGED <<db, holds, today, policy, outside, failures>>
      /\ \/ Set("pass", NextInPage(Skip(s), r, "recs"))
         \/ Set("pass", NextInPage([Skip(s) EXCEPT !.budget = @ - 1], r, "recs"))
         \/ MayDelete(s, r) /\ Set("pass", [s EXCEPT !.pc = "recTx", !.clips = ClipsOf(r)])
  BY <1>1, <1>2 DEF ExpireRec
<1>4. r \in s.page /\ Cardinality(s.page) \in Nat /\ Cardinality(s.page) > 0
  BY <1>1, <1>2, <1>3, RowOfPage DEF AtClips, AtRecs
<1>5. s.skip \in Nat /\ s.budget \in Nat /\ Cardinality(s.page) <= s.budget
  BY <1>1, <1>3 DEF ProcRec, PageOK, InPass
<1>6. "pass" \in Procs /\ failures \in 0..MaxFailures
  BY ProcFacts DEF Procs
<1>7. ASSUME NEW n \in Nat, n \in {s.budget, s.budget - 1}, NEW t,
             t = NextInPage([s EXCEPT !.skip = @ + 1, !.budget = n], r, "recs")
      PROVE  t \in ProcRec /\ PageOK(t) /\ BrakeOK(t) /\ SparesHeld(t)
  <2>1. PICK u : u = [s EXCEPT !.skip = @ + 1, !.budget = n]
    OBVIOUS
  <2>2. s.skip + 1 \in Nat
    BY <1>5
  <2>3. /\ u \in ProcRec /\ u.page = s.page /\ u.pc = s.pc /\ u.skip = s.skip + 1 /\ u.budget = n
        /\ u.noProgress = s.noProgress /\ u.wasted = s.wasted
        /\ u.covered = s.covered /\ u.prot = s.prot
    BY <1>1, <2>1, <2>2 DEF ProcRec
  <2>4. t = NextInPage(u, r, Phase(u.pc))
    BY <1>3, <1>7, <2>1, <2>3 DEF Phase
  <2> QED BY <1>1, <1>2, <1>3, <1>7, <2>3, <2>4, RowDone DEF InPass
<1>8. Skip(s) = [s EXCEPT !.skip = @ + 1, !.budget = s.budget]
  BY <1>1 DEF Skip, ProcRec
<1>9. [Skip(s) EXCEPT !.budget = @ - 1] = [s EXCEPT !.skip = @ + 1, !.budget = s.budget - 1]
  BY <1>1 DEF Skip, ProcRec
<1>10. s.budget - 1 \in Nat
  BY <1>4, <1>5
<1>11. ASSUME MayDelete(s, r), NEW t, t = [s EXCEPT !.pc = "recTx", !.clips = ClipsOf(r)]
       PROVE  t \in ProcRec /\ PageOK(t) /\ BrakeOK(t) /\ SparesHeld(t)
  <2>1. ClipsOf(r) \in SUBSET Clips
    BY DEF ClipsOf, RetentionInv, TypeInv
  <2>2. PICK c \in SUBSET Clips : c = ClipsOf(r)
    BY <2>1
  <2>3. /\ t \in ProcRec /\ t.pc = "recTx" /\ t.clips = c /\ t.page = s.page
        /\ t.skip = s.skip /\ t.budget = s.budget
        /\ t.noProgress = s.noProgress /\ t.wasted = s.wasted
        /\ t.covered = s.covered /\ t.prot = s.prot
    BY <1>1, <1>11, <2>2 DEF ProcRec, Pcs
  <2>4. PageOK(t) /\ BrakeOK(t)
    BY <1>1, <1>3, <2>3 DEF PageOK, BrakeOK, AtClips, AtRecs, InPass, InBatch
  <2>5. t.page = s.page /\ t.clips = ClipsOf(r) /\ t.covered = s.covered /\ t.prot = s.prot
    BY <2>2, <2>3
  <2>6. SparesHeld(t)
    BY <1>1, <1>2, <1>11, <2>5, BeforeTx
  <2> QED BY <2>3, <2>4, <2>6
<1>12. \E t \in ProcRec : Set("pass", t) /\ PageOK(t) /\ BrakeOK(t) /\ SparesHeld(t)
  <2>1. CASE Set("pass", NextInPage(Skip(s), r, "recs"))
    BY <1>5, <1>7, <1>8, <2>1
  <2>2. CASE Set("pass", NextInPage([Skip(s) EXCEPT !.budget = @ - 1], r, "recs"))
    BY <1>7, <1>9, <1>10, <2>2
  <2> QED BY <1>3, <1>11, <2>1, <2>2
<1> QED BY <1>3, <1>6, <1>12, ProcGoesOn

-----------------------------------------------------------------------------
(* The actions that change rows.                                           *)

(* Any step that keeps the tables in order, brings no clip back that is gone,
   and leaves every process in a state that was sound before it. *)
LEMMA DataStep ==
    ASSUME RetentionInv, TypeInv', HeldExist', EverHeld \subseteq EverHeld',
           \A k \in Clips : Gone(k) => Gone(k)',
           \A q \in Procs : \E u \in ProcRec : /\ st'[q] = u
                                               /\ PageOK(u) /\ BrakeOK(u) /\ SparesHeld(u)
    PROVE  RetentionInv'
<1>1. ASSUME NEW q \in Procs
      PROVE  (PageOK(st[q]) /\ BrakeOK(st[q]) /\ SparesHeld(st[q]))'
  <2>1. PICK u \in ProcRec : st'[q] = u /\ PageOK(u) /\ BrakeOK(u) /\ SparesHeld(u)
    OBVIOUS
  <2>2. PICK E : E = EverHeld' /\ EverHeld \subseteq E
    OBVIOUS
  <2>3. SparesHeld(u)'
    <3>1. u.covered \subseteq EverHeld'
      BY <2>1 DEF SparesHeld
    <3>2. u.pc \in {"recTx", "guardTx"} =>
             \A k \in Clips : [kind |-> "clip", id |-> k] \in u.covered /\ Source[k] = First(u.page, Older)
                              => Gone(k)'
      BY <2>1 DEF SparesHeld
    <3> QED BY <2>1, <3>1, <3>2 DEF SparesHeld
  <2> QED BY <2>1, <2>3 DEF PageOK, BrakeOK, SparesHeld
<1> QED BY <1>1 DEF RetentionInv

(* The history of the pass is all that a change of the rows alters in it. *)
LEMMA DisturbedOK ==
    ASSUME RetentionInv
    PROVE  /\ Disturbed \in [Procs -> ProcRec]
           /\ \A q \in Procs :
                 /\ PageOK(Disturbed[q]) /\ BrakeOK(Disturbed[q]) /\ SparesHeld(Disturbed[q])
                 /\ Disturbed[q].pc = st[q].pc /\ Disturbed[q].page = st[q].page
<1>1. Procs = {"pass", "guard"} /\ st \in [Procs -> ProcRec]
  BY DEF Procs, RetentionInv, TypeInv
<1>2. PICK b \in BOOLEAN : b = (st["pass"].disturbed \/ Expiring)
  BY <1>1 DEF Expiring, ProcRec
<1>3. PICK s \in ProcRec : s = st["pass"] /\ PageOK(s) /\ BrakeOK(s) /\ SparesHeld(s)
  BY <1>1 DEF RetentionInv
<1>4. PICK t : t = [s EXCEPT !.disturbed = b]
  OBVIOUS
<1>5. Disturbed = [st EXCEPT !["pass"] = t]
  BY <1>1, <1>2, <1>3, <1>4 DEF Disturbed
<1>6. /\ t \in ProcRec /\ t.pc = s.pc /\ t.page = s.page /\ t.skip = s.skip /\ t.budget = s.budget
      /\ t.clips = s.clips /\ t.noProgress = s.noProgress /\ t.wasted = s.wasted
      /\ t.batchDeleted = s.batchDeleted /\ t.covered = s.covered /\ t.prot = s.prot
  BY <1>4 DEF ProcRec
<1>7. PageOK(t) /\ BrakeOK(t) /\ SparesHeld(t)
  BY <1>3, <1>6 DEF PageOK, BrakeOK, SparesHeld
<1>8. \A q \in Procs : Disturbed[q] = IF q = "pass" THEN t ELSE st[q]
  BY <1>1, <1>5
<1> QED BY <1>1, <1>3, <1>5, <1>6, <1>7, <1>8 DEF RetentionInv

(* A deleted clip: its row and its file go, and it never comes back. *)
LEMMA ExpireClipKeeps ==
    ASSUME RetentionInv, NEW ok \in BOOLEAN, ExpireClip(ok)
    PROVE  RetentionInv'
<1>1. PICK s : s = st["pass"] /\ s \in ProcRec /\ PageOK(s) /\ BrakeOK(s) /\ SparesHeld(s)
  BY ProcFacts DEF Procs
<1>2. PICK k : k = First(s.page, OlderClip)
  OBVIOUS
<1>3. /\ s.pc = "clip" /\ UNCHANGED <<rows, events, pending, holds, today, policy, outside>>
      /\ \/ /\ clipRows' = clipRows \ {k} /\ clipFiles' = clipFiles \ {k} /\ UNCHANGED failures
            /\ Set("pass", NextInPage([s EXCEPT !.budget = @ - 1], k, "clips"))
         \/ /\ \E e \in BOOLEAN : Fault(e)
            /\ UNCHANGED <<clipRows, clipFiles>>
            /\ Set("pass", NextInPage([s EXCEPT !.skip = @ + 1], k, "clips"))
  BY <1>1, <1>2 DEF ExpireClip, Skip
<1>4. k \in s.page /\ Cardinality(s.page) \in Nat /\ Cardinality(s.page) > 0
  BY <1>1, <1>2, <1>3, RowOfPage DEF AtClips, AtRecs
<1>5. s.skip \in Nat /\ s.budget \in Nat /\ Cardinality(s.page) <= s.budget
  BY <1>1, <1>3 DEF ProcRec, PageOK, InPass
<1>6. "pass" \in Procs /\ failures \in 0..MaxFailures /\ MaxFailures \in Nat
  BY ProcFacts, RetentionConstants DEF Procs
<1>7. ASSUME NEW n \in Nat, NEW m \in Nat,
             <<n, m>> \in {<<s.skip + 1, s.budget>>, <<s.skip, s.budget - 1>>},
             NEW u, u = [s EXCEPT !.skip = n, !.budget = m],
             NEW t, t = NextInPage(u, k, "clips")
      PROVE  t \in ProcRec /\ PageOK(t) /\ BrakeOK(t) /\ SparesHeld(t)
  <2>1. /\ u \in ProcRec /\ u.page = s.page /\ u.pc = s.pc /\ u.skip = n /\ u.budget = m
        /\ u.noProgress = s.noProgress /\ u.wasted = s.wasted
        /\ u.covered = s.covered /\ u.prot = s.prot
    BY <1>1, <1>7 DEF ProcRec
  <2>2. t = NextInPage(u, k, Phase(u.pc))
    BY <1>3, <1>7, <2>1 DEF Phase
  <2>3. /\ s.pc \in InPass /\ u.pc = (IF s.pc = "clip" THEN "clip" ELSE "rec")
        /\ k = (IF s.pc = "clip" THEN First(s.page, OlderClip) ELSE First(s.page, Older))
    BY <1>2, <1>3, <2>1 DEF InPass
  <2>4. \/ u.skip = s.skip + 1 /\ u.budget \in {s.budget, s.budget - 1}
        \/ u.skip = s.skip /\ u.budget = s.budget - 1
    BY <1>7, <2>1
  <2> QED BY <1>1, <2>1, <2>2, <2>3, <2>4, RowDone
<1>8. /\ [s EXCEPT !.budget = @ - 1] = [s EXCEPT !.skip = s.skip, !.budget = s.budget - 1]
      /\ [s EXCEPT !.skip = @ + 1] = [s EXCEPT !.skip = s.skip + 1, !.budget = s.budget]
  BY <1>1 DEF ProcRec
<1>9. s.budget - 1 \in Nat /\ s.skip + 1 \in Nat
  BY <1>4, <1>5
<1>10. CASE /\ \E e \in BOOLEAN : Fault(e)
            /\ UNCHANGED <<clipRows, clipFiles>>
            /\ Set("pass", NextInPage([s EXCEPT !.skip = @ + 1], k, "clips"))
  <2>1. \E t \in ProcRec : Set("pass", t) /\ PageOK(t) /\ BrakeOK(t) /\ SparesHeld(t)
    BY <1>5, <1>7, <1>8, <1>9, <1>10
  <2>2. failures' \in 0..MaxFailures
    BY <1>6, <1>10 DEF Fault
  <2> QED BY <1>3, <1>6, <1>10, <2>1, <2>2, ProcGoesOn DEF db
<1>11. CASE /\ clipRows' = clipRows \ {k} /\ clipFiles' = clipFiles \ {k} /\ UNCHANGED failures
            /\ Set("pass", NextInPage([s EXCEPT !.budget = @ - 1], k, "clips"))
  <2>1. PICK t \in ProcRec : Set("pass", t) /\ PageOK(t) /\ BrakeOK(t) /\ SparesHeld(t)
    BY <1>5, <1>7, <1>8, <1>9, <1>11
  <2>2. st' \in [Procs -> ProcRec] /\ \A q \in Procs : st'[q] = IF q = "pass" THEN t ELSE st[q]
    BY <1>6, <2>1 DEF RetentionInv, TypeInv, Set
  <2>3. TypeInv'
    BY <1>3, <1>11, <2>2 DEF RetentionInv, TypeInv, Item
  <2>4. EverHeld' = EverHeld
    BY <1>3 DEF EverHeld
  <2>5. \A c \in Clips : Gone(c) => Gone(c)'
    BY <1>3, <1>11 DEF Gone
  <2>6. ASSUME NEW c \in Clips, c \in clipRows, c \notin clipRows'
        PROVE  Gone(c)'
    <3>1. c = k /\ c \in clipFiles
      BY <1>11, <2>6 DEF RetentionInv, TypeInv
    <3>2. [kind |-> "clip", id |-> c] \notin pending
      BY <3>1 DEF RetentionInv, TypeInv, Item
    <3> QED BY <1>3, <1>11, <3>1, <3>2 DEF Gone
  <2>7. HeldExist'
    BY <2>4, <2>5, <2>6 DEF RetentionInv, HeldExist
  <2>8. \A q \in Procs : \E u \in ProcRec : /\ st'[q] = u
                                            /\ PageOK(u) /\ BrakeOK(u) /\ SparesHeld(u)
    BY <2>1, <2>2 DEF RetentionInv, TypeInv
  <2> QED BY <2>3, <2>4, <2>5, <2>7, <2>8, DataStep
<1> QED BY <1>3, <1>10, <1>11

(* The transaction of deleteRecording: the clips of the recording go with it,
   and none of them comes back. *)
LEMMA RowRemoved ==
    ASSUME RetentionInv, NEW p \in Procs, SparesHeld(st[p]), st[p].pc \in {"recTx", "guardTx"},
           RemoveRow(First(st[p].page, Older), st[p].clips), First(st[p].page, Older) \in rows,
           NEW t \in ProcRec, SetRows(p, t), PageOK(t), BrakeOK(t), SparesHeld(t),
           UNCHANGED <<events, pending, holds, today, policy, outside, failures>>
    PROVE  RetentionInv'
<1>1. PICK r \in rows : r = First(st[p].page, Older)
  OBVIOUS
<1>2. PICK read : read = st[p].clips /\ \A k \in read : Source[k] = r
  BY <1>1 DEF SparesHeld
<1>3. /\ rows' = rows \ {r} /\ clipFiles' = clipFiles \ read
      /\ clipRows' = clipRows \ {k \in clipRows : Source[k] = r}
  BY <1>1, <1>2 DEF RemoveRow, ClipsOf
<1>4. /\ st' \in [Procs -> ProcRec]
      /\ \A q \in Procs : st'[q] = IF q = p THEN t ELSE Disturbed[q]
  BY DisturbedOK DEF SetRows
<1>5. TypeInv'
  <2>1. clipRows' \subseteq clipFiles' /\ clipFiles' \subseteq Clips
    BY <1>2, <1>3 DEF RetentionInv, TypeInv
  <2>2. pending' \cap Item("rec", rows') = {} /\ pending' \cap Item("clip", clipFiles') = {}
    BY <1>3 DEF RetentionInv, TypeInv, Item
  <2>3. rows' \subseteq Recordings /\ \A k \in clipRows' : Source[k] \in rows'
    BY <1>3 DEF RetentionInv, TypeInv
  <2> QED BY <1>4, <2>1, <2>2, <2>3 DEF RetentionInv, TypeInv
<1>6. EverHeld' = EverHeld
  BY DEF EverHeld
<1>7. \A c \in Clips : Gone(c) => Gone(c)'
  BY <1>3 DEF Gone
<1>8. ASSUME NEW c \in Clips, c \in clipRows, c \notin clipRows'
      PROVE  Gone(c)'
  <2>1. Source[c] = r /\ c \in clipFiles
    BY <1>3, <1>8 DEF RetentionInv, TypeInv
  <2>2. [kind |-> "clip", id |-> c] \notin pending /\ [kind |-> "rec", id |-> r] \notin pending
    BY <1>1, <2>1 DEF RetentionInv, TypeInv, Item
  <2> QED BY <1>3, <2>1, <2>2 DEF Gone
<1>9. HeldExist'
  BY <1>6, <1>7, <1>8 DEF RetentionInv, HeldExist
<1>10. \A q \in Procs : \E u \in ProcRec : /\ st'[q] = u
                                           /\ PageOK(u) /\ BrakeOK(u) /\ SparesHeld(u)
  BY <1>4, DisturbedOK
<1> QED BY <1>5, <1>6, <1>7, <1>9, <1>10, DataStep

(* The recording is deleted, or it is skipped and noted. *)
LEMMA ExpireRecTxKeeps ==
    ASSUME RetentionInv, NEW ok \in BOOLEAN, ExpireRecTx(ok)
    PROVE  RetentionInv'
<1>1. PICK s : s = st["pass"] /\ s \in ProcRec /\ PageOK(s) /\ BrakeOK(s) /\ SparesHeld(s)
  BY ProcFacts DEF Procs
<1>2. PICK r : r = First(s.page, Older)
  OBVIOUS
<1>3. /\ s.pc = "recTx" /\ UNCHANGED <<events, pending, holds, today, policy, outside>>
      /\ \/ /\ r \in rows /\ RemoveRow(r, s.clips) /\ UNCHANGED failures
            /\ SetRows("pass", NextInPage([s EXCEPT !.pc = "rec", !.clips = {},
                                                    !.budget = @ - 1], r, "recs"))
         \/ /\ \E e \in BOOLEAN : Fault(e)
            /\ UNCHANGED <<rows, clipRows, clipFiles>>
            /\ Set("pass", NextInPage([Skip(s) EXCEPT !.pc = "rec", !.clips = {},
                                                      !.failed = @ \cup {r}], r, "recs"))
  BY <1>1, <1>2 DEF ExpireRecTx
<1>4. /\ r \in s.page /\ Cardinality(s.page) \in Nat /\ Cardinality(s.page) > 0
  BY <1>1, <1>2, <1>3, RowOfPage DEF AtClips, AtRecs
<1>5. s.skip \in Nat /\ s.budget \in Nat /\ Cardinality(s.page) <= s.budget /\ r \in Recordings
  BY <1>1, <1>3, <1>4 DEF ProcRec, PageOK, InPass, AtRecs
<1>6. "pass" \in Procs /\ failures \in 0..MaxFailures /\ MaxFailures \in Nat
  BY ProcFacts, RetentionConstants DEF Procs
<1>7. ASSUME NEW n \in Nat, NEW m \in Nat, NEW f \in SUBSET Recordings,
             <<n, m>> \in {<<s.skip + 1, s.budget>>, <<s.skip, s.budget - 1>>},
             NEW u, u = [s EXCEPT !.pc = "rec", !.clips = {}, !.skip = n, !.budget = m, !.failed = f],
             NEW t, t = NextInPage(u, r, "recs")
      PROVE  t \in ProcRec /\ PageOK(t) /\ BrakeOK(t) /\ SparesHeld(t)
  <2>1. /\ u \in ProcRec /\ u.page = s.page /\ u.pc = "rec" /\ u.skip = n /\ u.budget = m
        /\ u.noProgress = s.noProgress /\ u.wasted = s.wasted
        /\ u.covered = s.covered /\ u.prot = s.prot
    BY <1>1, <1>7 DEF ProcRec, Pcs
  <2>2. t = NextInPage(u, r, Phase(u.pc))
    BY <1>7, <2>1 DEF Phase
  <2>3. /\ s.pc \in InPass /\ u.pc = (IF s.pc = "clip" THEN "clip" ELSE "rec")
        /\ r = (IF s.pc = "clip" THEN First(s.page, OlderClip) ELSE First(s.page, Older))
    BY <1>2, <1>3, <2>1 DEF InPass
  <2>4. \/ u.skip = s.skip + 1 /\ u.budget \in {s.budget, s.budget - 1}
        \/ u.skip = s.skip /\ u.budget = s.budget - 1
    BY <1>7, <2>1
  <2> QED BY <1>1, <2>1, <2>2, <2>3, <2>4, RowDone
<1>8. s.budget - 1 \in Nat /\ s.skip + 1 \in Nat
      /\ s.failed \in SUBSET Recordings /\ s.failed \cup {r} \in SUBSET Recordings
  BY <1>1, <1>4, <1>5 DEF ProcRec
<1>9. /\ [s EXCEPT !.pc = "rec", !.clips = {}, !.budget = @ - 1]
         = [s EXCEPT !.pc = "rec", !.clips = {}, !.skip = s.skip, !.budget = s.budget - 1,
                     !.failed = s.failed]
      /\ [Skip(s) EXCEPT !.pc = "rec", !.clips = {}, !.failed = @ \cup {r}]
         = [s EXCEPT !.pc = "rec", !.clips = {}, !.skip = s.skip + 1, !.budget = s.budget,
                     !.failed = s.failed \cup {r}]
  BY <1>1 DEF ProcRec, Skip
<1>10. CASE /\ \E e \in BOOLEAN : Fault(e)
            /\ UNCHANGED <<rows, clipRows, clipFiles>>
            /\ Set("pass", NextInPage([Skip(s) EXCEPT !.pc = "rec", !.clips = {},
                                                      !.failed = @ \cup {r}], r, "recs"))
  <2> DEFINE u == [s EXCEPT !.pc = "rec", !.clips = {}, !.skip = s.skip + 1, !.budget = s.budget,
                            !.failed = s.failed \cup {r}]
             t == NextInPage(u, r, "recs")
  <2>1. Set("pass", t)
    BY <1>9, <1>10
  <2>2. t \in ProcRec /\ PageOK(t) /\ BrakeOK(t) /\ SparesHeld(t)
    BY <1>5, <1>7, <1>8
  <2> HIDE DEF t
  <2>3. failures' \in 0..MaxFailures
    BY <1>6, <1>10 DEF Fault
  <2> QED BY <1>3, <1>6, <1>10, <2>1, <2>2, <2>3, ProcGoesOn DEF db
<1>11. CASE /\ r \in rows /\ RemoveRow(r, s.clips) /\ UNCHANGED failures
            /\ SetRows("pass", NextInPage([s EXCEPT !.pc = "rec", !.clips = {},
                                                    !.budget = @ - 1], r, "recs"))
  <2> DEFINE u == [s EXCEPT !.pc = "rec", !.clips = {}, !.skip = s.skip, !.budget = s.budget - 1,
                            !.failed = s.failed]
             t == NextInPage(u, r, "recs")
  <2>1. SetRows("pass", t)
    BY <1>9, <1>11
  <2>2. t \in ProcRec /\ PageOK(t) /\ BrakeOK(t) /\ SparesHeld(t)
    BY <1>5, <1>7, <1>8
  <2> HIDE DEF t
  <2> QED BY <1>1, <1>2, <1>3, <1>6, <1>11, <2>1, <2>2, RowRemoved
<1> QED BY <1>3, <1>10, <1>11

(* The events that are held stay. *)
LEMMA ExpireEventsKeeps ==
    ASSUME RetentionInv, ExpireEvents
    PROVE  RetentionInv'
<1>1. PICK s : s = st["pass"] /\ s \in ProcRec /\ PageOK(s) /\ BrakeOK(s) /\ SparesHeld(s)
  BY ProcFacts DEF Procs
<1>2. PICK c : c = s.covered \cap HeldVideo
  OBVIOUS
<1>3. /\ s.pc = "events" /\ events' \subseteq events
      /\ UNCHANGED <<rows, clipRows, clipFiles, pending, holds, today, policy, outside, failures>>
      /\ Set("pass", [s EXCEPT !.pc = "check", !.now = 0, !.prot.event = {}, !.covered = c])
  BY <1>1, <1>2 DEF ExpireEvents
<1>4. PICK q : q = [s.prot EXCEPT !.event = {}]
  OBVIOUS
<1>5. q \in Protections /\ q.rec = s.prot.rec /\ q.clip = s.prot.clip
  BY <1>1, <1>4 DEF ProcRec, Protections
<1>6. PICK t : t = [s EXCEPT !.pc = "check", !.now = 0, !.prot = q, !.covered = c]
  OBVIOUS
<1>7. t = [s EXCEPT !.pc = "check", !.now = 0, !.prot.event = {}, !.covered = c]
  BY <1>1, <1>4, <1>6 DEF ProcRec
<1>8. c \in SUBSET Items /\ 0 \in Int /\ "check" \in Pcs
  BY <1>1, <1>2 DEF ProcRec, Pcs
<1>9. /\ t \in ProcRec /\ t.pc = "check" /\ t.prot = q /\ t.covered = c
      /\ t.skip = s.skip /\ t.budget = s.budget
      /\ t.noProgress = s.noProgress /\ t.wasted = s.wasted
  BY <1>1, <1>5, <1>6, <1>8 DEF ProcRec
<1>10. PageOK(t) /\ BrakeOK(t)
  BY <1>1, <1>3, <1>9 DEF PageOK, BrakeOK, AtClips, AtRecs, InPass, InBatch
<1>11. \A x \in c : x \in s.covered /\ x.kind # "event"
  BY <1>2 DEF HeldVideo
<1>12. SparesHeld(t)
  BY <1>1, <1>5, <1>9, <1>11 DEF SparesHeld
<1>13. "pass" \in Procs
  BY DEF Procs
<1>14. st' \in [Procs -> ProcRec] /\ \A p \in Procs : st'[p] = IF p = "pass" THEN t ELSE st[p]
  BY <1>3, <1>7, <1>9, <1>13 DEF RetentionInv, TypeInv, Set
<1>15. TypeInv'
  BY <1>3, <1>14 DEF RetentionInv, TypeInv
<1>16. EverHeld' = EverHeld /\ \A k \in Clips : Gone(k)' = Gone(k)
  BY <1>3 DEF EverHeld, Gone
<1>17. HeldExist'
  BY <1>3, <1>16 DEF RetentionInv, HeldExist
<1>18. \A p \in Procs : \E u \in ProcRec : /\ st'[p] = u
                                           /\ PageOK(u) /\ BrakeOK(u) /\ SparesHeld(u)
  BY <1>9, <1>10, <1>12, <1>14 DEF RetentionInv, TypeInv
<1> QED BY <1>15, <1>16, <1>17, <1>18, DataStep

-----------------------------------------------------------------------------
(* The guardian.                                                           *)

(* The usage is a number. *)
LEMMA PercentTyped ==
    ASSUME RetentionInv
    PROVE  Percent \in Int
<1>1. rows \ CloudOnly \in SUBSET Recordings /\ outside \in Nat
  BY DEF RetentionInv, TypeInv
<1>2. Cardinality(rows \ CloudOnly) \in Nat
  BY <1>1, RetentionConstants, Sizes
<1> QED BY <1>1, <1>2, RetentionConstants DEF Percent

(* A guardian of its own reads the holds; the one of a pass goes on with those
   of the pass. *)
LEMMA GuardStartKeeps ==
    ASSUME RetentionInv, NEW p \in Procs, NEW auto \in BOOLEAN, GuardStart(p, auto)
    PROVE  RetentionInv'
<1>1. PICK s : s = st[p] /\ s \in ProcRec /\ PageOK(s) /\ BrakeOK(s) /\ SparesHeld(s)
  BY ProcFacts
<1>2. PICK prot : prot = IF p = "pass" THEN s.prot ELSE [ProtectionSets EXCEPT !.event = {}]
  OBVIOUS
<1>3. PICK cov : cov = IF p = "pass" THEN s.covered ELSE HeldVideo
  OBVIOUS
<1>4. PICK n : n = Percent
  OBVIOUS
<1>5. /\ s.pc \in {"check", "idle"} /\ UNCHANGED <<db, holds, today, policy, outside, failures>>
      /\ \/ Set(p, [s EXCEPT !.pc = "guard", !.current = n, !.prot = prot, !.covered = cov])
         \/ Set(p, Idle)
  BY <1>1, <1>2, <1>3, <1>4 DEF GuardStart
<1>6. /\ prot \in Protections /\ cov \in SUBSET Items /\ n \in Int /\ "guard" \in Pcs
  BY <1>1, <1>2, <1>3, <1>4, LookSpares, PercentTyped DEF ProcRec, Pcs
<1>7. /\ cov \subseteq EverHeld
      /\ \A x \in cov : /\ x.kind = "rec" => x.id \in prot.rec
                        /\ x.kind = "clip" => x.id \in prot.clip
                        /\ x.kind = "event" => x.id \in prot.event
  <2>1. CASE p = "pass"
    BY <1>1, <1>2, <1>3, <2>1 DEF SparesHeld
  <2>2. CASE p # "pass"
    <3>1. prot.rec = ProtectionSets.rec /\ prot.clip = ProtectionSets.clip
      BY <1>2, <2>2, LookSpares DEF Protections
    <3> QED BY <1>3, <2>2, <3>1, LookSpares
  <2> QED BY <2>1, <2>2
<1>8. PICK t : t = [s EXCEPT !.pc = "guard", !.current = n, !.prot = prot, !.covered = cov]
  OBVIOUS
<1>9. /\ t \in ProcRec /\ t.pc = "guard" /\ t.prot = prot /\ t.covered = cov
      /\ t.skip = s.skip /\ t.budget = s.budget
      /\ t.noProgress = s.noProgress /\ t.wasted = s.wasted
  BY <1>1, <1>6, <1>8 DEF ProcRec
<1>10. PageOK(t) /\ BrakeOK(t)
  BY <1>1, <1>5, <1>9 DEF PageOK, BrakeOK, AtClips, AtRecs, InPass, InBatch
<1>11. SparesHeld(t)
  BY <1>7, <1>9 DEF SparesHeld
<1>12. failures \in 0..MaxFailures
  BY ProcFacts
<1>13. \E u \in ProcRec : Set(p, u) /\ PageOK(u) /\ BrakeOK(u) /\ SparesHeld(u)
  BY <1>5, <1>8, <1>9, <1>10, <1>11, IdleOK
<1> QED BY <1>5, <1>12, <1>13, ProcGoesOn

(* A batch has no more rows than the guardian asked for. *)
LEMMA GuardFetchKeeps ==
    ASSUME RetentionInv, NEW p \in Procs, GuardFetch(p)
    PROVE  RetentionInv'
<1>1. PICK s : s = st[p] /\ s \in ProcRec /\ PageOK(s) /\ BrakeOK(s) /\ SparesHeld(s)
  BY ProcFacts
<1>2. PICK page : page = Page(rows \ s.prot.rec, Older, 0, GuardBatch)
  OBVIOUS
<1>3. /\ s.pc = "guard" /\ UNCHANGED <<db, holds, today, policy, outside, failures>>
      /\ \/ page # {} /\ Set(p, [s EXCEPT !.pc = "guardRec", !.page = page, !.batchDeleted = 0])
         \/ Set(p, Idle)
  BY <1>1, <1>2 DEF GuardFetch
<1>4. rows \ s.prot.rec \in SUBSET Recordings /\ GuardBatch \in Nat
  BY RetentionConstants DEF RetentionInv, TypeInv
<1>5. page \subseteq Recordings /\ Cardinality(page) \in Nat /\ Cardinality(page) <= GuardBatch
  BY <1>2, <1>4, RecPage
<1>6. page \subseteq Nat /\ "guardRec" \in Pcs
  BY <1>5, RetentionConstants DEF Pcs
<1>7. PICK t : t = [s EXCEPT !.pc = "guardRec", !.page = page, !.batchDeleted = 0]
  OBVIOUS
<1>8. /\ t \in ProcRec /\ t.pc = "guardRec" /\ t.page = page /\ t.batchDeleted = 0
      /\ t.skip = s.skip /\ t.budget = s.budget
      /\ t.noProgress = s.noProgress /\ t.wasted = s.wasted
      /\ t.covered = s.covered /\ t.prot = s.prot
  BY <1>1, <1>6, <1>7 DEF ProcRec
<1>9. page # {} => PageOK(t)
  BY <1>1, <1>5, <1>8 DEF PageOK, AtClips, AtRecs, InPass
<1>10. BrakeOK(t)
  <2>1. PICK w : w = s.noProgress * GuardBatch
    OBVIOUS
  <2>2. w \in Nat /\ s.wasted \in Nat /\ s.wasted <= w
    BY <1>1, <1>3, <1>4, <2>1 DEF ProcRec, BrakeOK, InBatch
  <2>3. t.wasted <= w + t.batchDeleted /\ t.batchDeleted + Cardinality(t.page) <= GuardBatch
    BY <1>5, <1>8, <2>2
  <2> QED BY <1>1, <1>8, <2>1, <2>3 DEF BrakeOK, InBatch
<1>11. SparesHeld(t)
  BY <1>1, <1>8 DEF SparesHeld
<1>12. failures \in 0..MaxFailures
  BY ProcFacts
<1>13. \E u \in ProcRec : Set(p, u) /\ PageOK(u) /\ BrakeOK(u) /\ SparesHeld(u)
  BY <1>3, <1>7, <1>8, <1>9, <1>10, <1>11, IdleOK
<1> QED BY <1>3, <1>12, <1>13, ProcGoesOn

(* A recording of a batch has been dealt with: d of them were deleted. *)
LEMMA BatchRow ==
    ASSUME RetentionInv, NEW s \in ProcRec, PageOK(s), BrakeOK(s), SparesHeld(s),
           s.pc \in {"guardRec", "guardTx"}, NEW d \in {0, 1},
           NEW t, t = [NextInBatch(s) EXCEPT !.batchDeleted = @ + d, !.wasted = @ + d]
    PROVE  t \in ProcRec /\ PageOK(t) /\ BrakeOK(t) /\ SparesHeld(t)
<1>1. PICK left : left = s.page \ {First(s.page, Older)}
  OBVIOUS
<1>2. /\ Cardinality(left) = Cardinality(s.page) - 1
      /\ Cardinality(s.page) \in Nat /\ Cardinality(s.page) > 0
      /\ s.page \subseteq Recordings
  <2>1. s.page \in SUBSET Recordings /\ s.page # {}
    BY DEF PageOK, AtClips, AtRecs
  <2> QED BY <1>1, <2>1, RecFirst
<1>3. PICK pc \in {"guardRec", "measure"} : pc = IF left # {} THEN "guardRec" ELSE "measure"
  OBVIOUS
<1>4. s.batchDeleted \in Nat /\ s.wasted \in Nat /\ s.noProgress \in Nat /\ left \in SUBSET Nat
  BY <1>1 DEF ProcRec
<1>5. NextInBatch(s) = [s EXCEPT !.pc = pc, !.page = left, !.clips = {}]
  BY <1>1, <1>3 DEF NextInBatch
<1>6. PICK bd \in Nat, wa \in Nat : bd = s.batchDeleted + d /\ wa = s.wasted + d
  BY <1>4
<1>7. t = [s EXCEPT !.pc = pc, !.page = left, !.clips = {}, !.batchDeleted = bd, !.wasted = wa]
      /\ pc \in Pcs
  BY <1>5, <1>6 DEF ProcRec, Pcs
<1>8. /\ t \in ProcRec /\ t.pc = pc /\ t.page = left
      /\ t.batchDeleted = bd /\ t.wasted = wa
      /\ t.skip = s.skip /\ t.budget = s.budget /\ t.noProgress = s.noProgress
      /\ t.covered = s.covered /\ t.prot = s.prot
  <2>1. t \in ProcRec
    <3>1. PICK u : u = [s EXCEPT !.pc = pc, !.page = left, !.clips = {}]
      OBVIOUS
    <3>2. u \in ProcRec
      BY <1>4, <1>7, <3>1 DEF ProcRec
    <3>3. t = [u EXCEPT !.batchDeleted = bd, !.wasted = wa]
      BY <1>7, <3>1 DEF ProcRec
    <3> QED BY <3>2, <3>3 DEF ProcRec
  <2>2. /\ t.pc = pc /\ t.page = left /\ t.batchDeleted = bd /\ t.wasted = wa
        /\ t.skip = s.skip /\ t.budget = s.budget /\ t.noProgress = s.noProgress
        /\ t.covered = s.covered /\ t.prot = s.prot
    BY <1>7 DEF ProcRec
  <2> QED BY <2>1, <2>2
<1>9. PageOK(t)
  BY <1>1, <1>2, <1>3, <1>8 DEF PageOK, AtClips, AtRecs, InPass
<1>10. BrakeOK(t)
  <2>1. PICK w : w = s.noProgress * GuardBatch
    OBVIOUS
  <2>2. w \in Nat /\ GuardBatch \in Nat
    BY <1>4, <2>1, RetentionConstants
  <2>3. /\ s.batchDeleted + Cardinality(s.page) <= GuardBatch
        /\ s.wasted <= w + s.batchDeleted /\ s.noProgress < MaxNoProgress
    BY <2>1 DEF BrakeOK, InBatch
  <2>4. /\ t.batchDeleted + Cardinality(t.page) <= GuardBatch
        /\ t.wasted <= w + t.batchDeleted
    BY <1>2, <1>4, <1>6, <1>8, <2>2, <2>3
  <2>5. t.pc = "measure" => t.page = {}
    BY <1>3, <1>8
  <2>6. t.pc \in InBatch
    BY <1>8 DEF InBatch
  <2> QED BY <1>8, <2>1, <2>3, <2>4, <2>5, <2>6 DEF BrakeOK
<1>11. SparesHeld(t)
  BY <1>8 DEF SparesHeld
<1> QED BY <1>8, <1>9, <1>10, <1>11

(* A recording of the batch is skipped, or goes to the transaction. *)
LEMMA GuardRecKeeps ==
    ASSUME RetentionInv, NEW p \in Procs, GuardRec(p)
    PROVE  RetentionInv'
<1>1. PICK s : s = st[p] /\ s \in ProcRec /\ PageOK(s) /\ BrakeOK(s) /\ SparesHeld(s)
  BY ProcFacts
<1>2. PICK r : r = First(s.page, Older)
  OBVIOUS
<1>3. /\ s.pc = "guardRec" /\ UNCHANGED <<db, holds, today, policy, outside, failures>>
      /\ \/ MayDelete(s, r) /\ Set(p, [s EXCEPT !.pc = "guardTx", !.clips = ClipsOf(r)])
         \/ Set(p, NextInBatch(s))
  BY <1>1, <1>2 DEF GuardRec
<1>4. ASSUME NEW t, t = NextInBatch(s)
      PROVE  t \in ProcRec /\ PageOK(t) /\ BrakeOK(t) /\ SparesHeld(t)
  <2>1. t = [NextInBatch(s) EXCEPT !.batchDeleted = @ + 0, !.wasted = @ + 0]
    <3>1. s.batchDeleted + 0 = s.batchDeleted /\ s.wasted + 0 = s.wasted
      BY <1>1 DEF ProcRec
    <3> QED BY <1>1, <1>4, <3>1 DEF NextInBatch, ProcRec
  <2> QED BY <1>1, <1>3, <2>1, BatchRow
<1>5. ASSUME MayDelete(s, r), NEW t, t = [s EXCEPT !.pc = "guardTx", !.clips = ClipsOf(r)]
      PROVE  t \in ProcRec /\ PageOK(t) /\ BrakeOK(t) /\ SparesHeld(t)
  <2>1. PICK c \in SUBSET Clips : c = ClipsOf(r)
    BY DEF ClipsOf, RetentionInv, TypeInv
  <2>2. /\ t \in ProcRec /\ t.pc = "guardTx" /\ t.clips = c /\ t.page = s.page
        /\ t.skip = s.skip /\ t.budget = s.budget /\ t.batchDeleted = s.batchDeleted
        /\ t.noProgress = s.noProgress /\ t.wasted = s.wasted
        /\ t.covered = s.covered /\ t.prot = s.prot
    BY <1>1, <1>5, <2>1 DEF ProcRec, Pcs
  <2>3. PageOK(t) /\ BrakeOK(t)
    BY <1>1, <1>3, <2>2 DEF PageOK, BrakeOK, AtClips, AtRecs, InPass, InBatch
  <2>4. t.clips = ClipsOf(r)
    BY <2>1, <2>2
  <2>5. t.page = s.page /\ t.covered = s.covered /\ t.prot = s.prot
    BY <2>2
  <2>6. SparesHeld(t)
    <3> HIDE <1>3, <2>1, <2>2, <2>3
    <3> QED BY <1>1, <1>2, <1>5, <2>4, <2>5, BeforeTx
  <2> QED BY <2>2, <2>3, <2>6
<1>6. failures \in 0..MaxFailures
  BY ProcFacts
<1>7. \E t \in ProcRec : Set(p, t) /\ PageOK(t) /\ BrakeOK(t) /\ SparesHeld(t)
  BY <1>3, <1>4, <1>5
<1> QED BY <1>3, <1>6, <1>7, ProcGoesOn

(* The recording is deleted and counted, or the guardian goes on without it. *)
LEMMA GuardTxKeeps ==
    ASSUME RetentionInv, NEW p \in Procs, NEW ok \in BOOLEAN, GuardTx(p, ok)
    PROVE  RetentionInv'
<1>1. PICK s : s = st[p] /\ s \in ProcRec /\ PageOK(s) /\ BrakeOK(s) /\ SparesHeld(s)
  BY ProcFacts
<1>2. PICK r : r = First(s.page, Older)
  OBVIOUS
<1>3. /\ s.pc = "guardTx" /\ UNCHANGED <<events, pending, holds, today, policy, outside>>
      /\ \/ /\ r \in rows /\ RemoveRow(r, s.clips) /\ UNCHANGED failures
            /\ SetRows(p, [NextInBatch(s) EXCEPT !.batchDeleted = @ + 1, !.wasted = @ + 1])
         \/ /\ \E e \in BOOLEAN : Fault(e)
            /\ UNCHANGED <<rows, clipRows, clipFiles>>
            /\ Set(p, NextInBatch(s))
  BY <1>1, <1>2 DEF GuardTx
<1>4. failures \in 0..MaxFailures /\ MaxFailures \in Nat
  BY ProcFacts, RetentionConstants
<1>5. CASE /\ \E e \in BOOLEAN : Fault(e)
           /\ UNCHANGED <<rows, clipRows, clipFiles>>
           /\ Set(p, NextInBatch(s))
  <2>1. PICK t : t = NextInBatch(s)
    OBVIOUS
  <2>2. t = [NextInBatch(s) EXCEPT !.batchDeleted = @ + 0, !.wasted = @ + 0]
    <3>1. s.batchDeleted + 0 = s.batchDeleted /\ s.wasted + 0 = s.wasted
      BY <1>1 DEF ProcRec
    <3> QED BY <1>1, <2>1, <3>1 DEF NextInBatch, ProcRec
  <2>3. t \in ProcRec /\ PageOK(t) /\ BrakeOK(t) /\ SparesHeld(t)
    BY <1>1, <1>3, <2>2, BatchRow
  <2>4. failures' \in 0..MaxFailures
    BY <1>4, <1>5 DEF Fault
  <2> QED BY <1>3, <1>5, <2>1, <2>3, <2>4, ProcGoesOn DEF db
<1>6. CASE /\ r \in rows /\ RemoveRow(r, s.clips) /\ UNCHANGED failures
           /\ SetRows(p, [NextInBatch(s) EXCEPT !.batchDeleted = @ + 1, !.wasted = @ + 1])
  <2>1. PICK t : t = [NextInBatch(s) EXCEPT !.batchDeleted = @ + 1, !.wasted = @ + 1]
    OBVIOUS
  <2>2. t \in ProcRec /\ PageOK(t) /\ BrakeOK(t) /\ SparesHeld(t)
    BY <1>1, <1>3, <2>1, BatchRow
  <2> QED BY <1>1, <1>2, <1>3, <1>6, <2>1, <2>2, RowRemoved
<1> QED BY <1>3, <1>5, <1>6

(* The brake: another batch begins only when the usage fell, or when there are
   batches left that may fail to lower it. *)
LEMMA GuardMeasureKeeps ==
    ASSUME RetentionInv, NEW p \in Procs, GuardMeasure(p)
    PROVE  RetentionInv'
<1>1. PICK s : s = st[p] /\ s \in ProcRec /\ PageOK(s) /\ BrakeOK(s) /\ SparesHeld(s)
  BY ProcFacts
<1>2. PICK n \in Int : n = Percent
  BY PercentTyped
<1>3. s.noProgress \in Nat /\ s.wasted \in Nat /\ s.batchDeleted \in Nat /\ s.iteration \in Nat
  BY <1>1 DEF ProcRec
<1>4. PICK stuck \in Nat : stuck = IF n < s.current THEN 0 ELSE s.noProgress + 1
  BY <1>3
<1>5. PICK left \in Nat : left = IF stuck = 0 THEN 0 ELSE s.wasted
  BY <1>3
<1>6. /\ s.pc = "measure" /\ UNCHANGED <<db, holds, today, policy, outside, failures>>
      /\ \/ Set(p, Idle)
         \/ /\ stuck < MaxNoProgress
            /\ Set(p, [s EXCEPT !.pc = "guard", !.current = n, !.iteration = @ + 1,
                                !.noProgress = stuck, !.wasted = left])
  <2>1. s.pc = "measure" /\ Set(p, AfterBatch(s, n))
        /\ UNCHANGED <<db, holds, today, policy, outside, failures>>
    BY <1>1, <1>2 DEF GuardMeasure
  <2>2. \/ AfterBatch(s, n) = Idle
        \/ /\ ~(stuck >= MaxNoProgress)
           /\ AfterBatch(s, n) = [s EXCEPT !.pc = "guard", !.current = n, !.iteration = @ + 1,
                                           !.noProgress = stuck, !.wasted = left]
    BY <1>4, <1>5 DEF AfterBatch
  <2>3. MaxNoProgress \in Nat
    BY RetentionConstants
  <2> QED BY <2>1, <2>2, <2>3
<1>7. PICK t : t = [s EXCEPT !.pc = "guard", !.current = n, !.iteration = @ + 1,
                             !.noProgress = stuck, !.wasted = left]
  OBVIOUS
<1>8. s.iteration + 1 \in Nat /\ "guard" \in Pcs
  BY <1>3 DEF Pcs
<1>9. /\ t \in ProcRec /\ t.pc = "guard" /\ t.noProgress = stuck /\ t.wasted = left
      /\ t.skip = s.skip /\ t.budget = s.budget
      /\ t.covered = s.covered /\ t.prot = s.prot
  BY <1>1, <1>7, <1>8 DEF ProcRec
<1>10. PageOK(t) /\ SparesHeld(t)
  BY <1>1, <1>9 DEF PageOK, SparesHeld, AtClips, AtRecs, InPass
<1>11. left <= stuck * GuardBatch
  <2>1. GuardBatch \in Nat /\ 0 * GuardBatch = 0
    BY RetentionConstants
  <2>2. CASE stuck = 0
    BY <1>5, <2>1, <2>2
  <2>3. CASE stuck # 0
    <3>1. stuck = s.noProgress + 1 /\ left = s.wasted
      BY <1>4, <1>5, <2>3
    <3>2. PICK w : w = s.noProgress * GuardBatch
      OBVIOUS
    <3>3. w \in Nat /\ stuck * GuardBatch = w + GuardBatch
      BY <1>3, <2>1, <3>1, <3>2
    <3>4. s.batchDeleted + 0 <= GuardBatch /\ s.wasted <= w + s.batchDeleted
      BY <1>1, <1>6, <3>2, FS_EmptySet DEF BrakeOK, InBatch
    <3> QED BY <1>3, <2>1, <3>1, <3>3, <3>4
  <2> QED BY <2>2, <2>3
<1>12. stuck < MaxNoProgress => BrakeOK(t)
  BY <1>9, <1>11 DEF BrakeOK, InBatch
<1>13. failures \in 0..MaxFailures
  BY ProcFacts
<1>14. \E u \in ProcRec : Set(p, u) /\ PageOK(u) /\ BrakeOK(u) /\ SparesHeld(u)
  BY <1>6, <1>7, <1>9, <1>10, <1>12, IdleOK
<1> QED BY <1>6, <1>13, <1>14, ProcGoesOn

-----------------------------------------------------------------------------
(* What happens meanwhile.                                                 *)

(* A recording that is registered is not one whose clips are gone. *)
LEMMA RegisterKeeps ==
    ASSUME RetentionInv, NEW r \in Late, Register(r)
    PROVE  RetentionInv'
<1>1. /\ [kind |-> "rec", id |-> r] \in pending /\ r \in Recordings
      /\ rows' = rows \cup {r} /\ st' = Disturbed
      /\ pending' \subseteq pending
      /\ [kind |-> "rec", id |-> r] \notin pending'
      /\ UNCHANGED <<clipRows, clipFiles, events, holds, today, policy, outside, failures>>
  BY RetentionConstants DEF Register, Item, proc
<1>2. TypeInv'
  <2>1. pending' \cap Item("rec", rows') = {} /\ pending' \cap Item("clip", clipFiles') = {}
    BY <1>1 DEF RetentionInv, TypeInv, Item
  <2> QED BY <1>1, <2>1, DisturbedOK DEF RetentionInv, TypeInv
<1>3. EverHeld' = EverHeld
  BY <1>1 DEF EverHeld
<1>4. \A k \in Clips : Gone(k) => Gone(k)'
  BY <1>1 DEF Gone
<1>5. HeldExist'
  BY <1>1, <1>3, <1>4 DEF RetentionInv, HeldExist
<1>6. \A q \in Procs : \E u \in ProcRec : /\ st'[q] = u
                                          /\ PageOK(u) /\ BrakeOK(u) /\ SparesHeld(u)
  BY <1>1, DisturbedOK
<1> QED BY <1>2, <1>3, <1>4, <1>5, <1>6, DataStep

(* A step that leaves the processes alone. *)
LEMMA ProcsStay ==
    ASSUME RetentionInv, st' = st
    PROVE  \A q \in Procs : \E u \in ProcRec : /\ st'[q] = u
                                               /\ PageOK(u) /\ BrakeOK(u) /\ SparesHeld(u)
BY DEF RetentionInv, TypeInv

(* A clip's file is new, and so is none of those that are gone. *)
LEMMA ExportFileKeeps ==
    ASSUME RetentionInv, NEW k \in Clips, ExportFile(k)
    PROVE  RetentionInv'
<1>1. /\ [kind |-> "clip", id |-> k] \in pending /\ st' = st
      /\ clipFiles' = clipFiles \cup {k}
      /\ pending' \subseteq pending /\ [kind |-> "clip", id |-> k] \notin pending'
      /\ UNCHANGED <<rows, clipRows, events, holds, today, policy, outside, failures>>
  BY DEF ExportFile, Item, proc
<1>2. TypeInv'
  <2>1. pending' \cap Item("rec", rows') = {} /\ pending' \cap Item("clip", clipFiles') = {}
    BY <1>1 DEF RetentionInv, TypeInv, Item
  <2> QED BY <1>1, <2>1 DEF RetentionInv, TypeInv
<1>3. EverHeld' = EverHeld
  BY <1>1 DEF EverHeld
<1>4. \A c \in Clips : Gone(c) => Gone(c)'
  BY <1>1 DEF Gone
<1>5. HeldExist'
  BY <1>1, <1>3, <1>4 DEF RetentionInv, HeldExist
<1> QED BY <1>1, <1>2, <1>3, <1>4, <1>5, ProcsStay, DataStep

(* A clip's row: nobody holds it yet, or it has been held before. *)
LEMMA ExportRowKeeps ==
    ASSUME RetentionInv, NEW k \in Clips, ExportRow(k)
    PROVE  RetentionInv'
<1>1. /\ k \in clipFiles /\ Source[k] \in rows /\ clipRows' = clipRows \cup {k} /\ st' = st
      /\ UNCHANGED <<rows, clipFiles, events, pending, holds, today, policy, outside, failures>>
  BY DEF ExportRow, proc
<1>2. TypeInv'
  BY <1>1 DEF RetentionInv, TypeInv
<1>3. EverHeld' = EverHeld
  BY <1>1 DEF EverHeld
<1>4. \A c \in Clips : Gone(c) => Gone(c)'
  BY <1>1 DEF Gone
<1>5. HeldExist'
  BY <1>1, <1>3, <1>4 DEF RetentionInv, HeldExist
<1> QED BY <1>1, <1>2, <1>3, <1>4, <1>5, ProcsStay, DataStep

(* A hold row names what there is; who has read the holds before it does not
   answer for it. *)
LEMMA WriteHoldKeeps ==
    ASSUME RetentionInv, NEW h \in HoldRows, WriteHold(h)
    PROVE  RetentionInv'
<1>1. /\ holds' = Append(holds, h) /\ (h.enabled => h.items \subseteq Existing) /\ st' = Covered
      /\ UNCHANGED <<rows, clipRows, clipFiles, events, pending, today, policy, outside, failures>>
  BY DEF WriteHold, db, proc
<1>2. h \in HoldRec /\ holds \in Seq(HoldRec)
  <2>1. h \in [investigation : Nat, enabled : BOOLEAN,
               items : SUBSET (Item("rec", Recordings) \cup Item("clip", Clips)
                                  \cup Item("event", Events))]
    BY HoldsAtStart
  <2> QED BY <2>1 DEF HoldRec, Items, RetentionInv, TypeInv
<1>3. holds' \in Seq(HoldRec) /\ DOMAIN holds' = DOMAIN holds \cup {Len(holds) + 1}
      /\ holds'[Len(holds) + 1] = h /\ \A i \in DOMAIN holds : holds'[i] = holds[i]
  BY <1>1, <1>2
<1>4. PICK K : K = HeldItems'
  OBVIOUS
<1>5. \A q \in Procs : \E u \in ProcRec : /\ st'[q] = u
                                          /\ PageOK(u) /\ BrakeOK(u) /\ SparesHeld(u)
  <2> TAKE q \in Procs
  <2>1. PICK s : s = st[q] /\ s \in ProcRec /\ PageOK(s) /\ BrakeOK(s) /\ SparesHeld(s)
    BY ProcFacts
  <2>2. PICK c \in SUBSET Items : c = s.covered \cap K
    BY <2>1 DEF ProcRec
  <2>3. PICK u : u = [s EXCEPT !.covered = c]
    OBVIOUS
  <2>4. st'[q] = u
    BY <1>1, <1>4, <2>1, <2>2, <2>3 DEF Covered
  <2>5. /\ u \in ProcRec /\ u.pc = s.pc /\ u.page = s.page /\ u.skip = s.skip /\ u.budget = s.budget
        /\ u.clips = s.clips /\ u.noProgress = s.noProgress /\ u.wasted = s.wasted
        /\ u.batchDeleted = s.batchDeleted /\ u.covered = c /\ u.prot = s.prot
    BY <2>1, <2>3 DEF ProcRec
  <2>6. c \subseteq s.covered
    BY <2>2
  <2>7. PageOK(u) /\ BrakeOK(u)
    BY <2>1, <2>5 DEF PageOK, BrakeOK
  <2>8. SparesHeld(u)
    BY <2>1, <2>5, <2>6 DEF SparesHeld
  <2> QED BY <2>4, <2>5, <2>7, <2>8
<1>6. st' \in [Procs -> ProcRec]
  BY <1>1, <1>5 DEF Covered
<1>7. TypeInv'
  BY <1>1, <1>3, <1>6 DEF RetentionInv, TypeInv
<1>8. EverHeld' = EverHeld \cup (IF h.enabled THEN h.items ELSE {})
  <2>1. ASSUME NEW x
        PROVE  x \in EverHeld' <=> x \in EverHeld \/ (h.enabled /\ x \in h.items)
    <3>1. x \in EverHeld' <=> \/ x \in Evidence
                              \/ \E i \in DOMAIN holds' : holds'[i].enabled /\ x \in holds'[i].items
      BY DEF EverHeld
    <3>2. x \in EverHeld <=> \/ x \in Evidence
                             \/ \E i \in DOMAIN holds : holds[i].enabled /\ x \in holds[i].items
      BY DEF EverHeld
    <3> QED BY <1>3, <3>1, <3>2
  <2> QED BY <2>1
<1>9. \A k \in Clips : Gone(k)' = Gone(k)
  BY <1>1 DEF Gone
<1>10. ASSUME NEW k \in Clips, h.enabled, [kind |-> "clip", id |-> k] \in h.items
       PROVE  k \in clipRows
  <2>1. [kind |-> "clip", id |-> k] \in Existing
    BY <1>1, <1>10
  <2> QED BY <2>1 DEF Existing, Item
<1>11. HeldExist'
  BY <1>1, <1>8, <1>9, <1>10 DEF RetentionInv, HeldExist
<1> QED BY <1>5, <1>7, <1>8, <1>9, <1>11, DataStep

(* The date and the rest of the disk matter to nobody's state. *)
LEMMA WorldGoesOn ==
    ASSUME RetentionInv, NextDay \/ OutsideGrows
    PROVE  RetentionInv'
<1>1. /\ UNCHANGED <<rows, clipRows, clipFiles, events, pending, holds, policy, failures, st>>
      /\ today' \in 0..MaxToday /\ outside' \in Nat
  <2>1. today \in 0..MaxToday /\ outside \in Nat /\ MaxToday \in Nat
    BY RetentionConstants DEF RetentionInv, TypeInv
  <2> QED BY <2>1 DEF NextDay, OutsideGrows, db
<1>2. TypeInv'
  BY <1>1 DEF RetentionInv, TypeInv
<1>3. EverHeld' = EverHeld /\ \A k \in Clips : Gone(k)' = Gone(k)
  BY <1>1 DEF EverHeld, Gone
<1>4. HeldExist'
  BY <1>1, <1>3 DEF RetentionInv, HeldExist
<1> QED BY <1>1, <1>2, <1>3, <1>4, ProcsStay, DataStep

-----------------------------------------------------------------------------
(* The invariant.                                                          *)

(* It holds at the start: what is held then is no clip. *)
LEMMA RetentionStarts ==
    ASSUME Init
    PROVE  RetentionInv
<1>1. st \in [Procs -> ProcRec] /\ \A p \in Procs : st[p] = Idle
  BY IdleOK DEF Init
<1> DEFINE H == [investigation : Nat, enabled : BOOLEAN,
                 items : SUBSET (Item("rec", Recordings) \cup Item("event", Events))]
<1>0. \A i \in DOMAIN FirstHolds : FirstHolds[i] \in H
  <2>1. FirstHolds \in Seq(H)
    BY HoldsAtStart
  <2> HIDE DEF H
  <2> QED BY <2>1
<1>2. holds \in Seq(HoldRec)
  <2>1. \A i \in DOMAIN FirstHolds : FirstHolds[i] \in HoldRec
    <3> TAKE i \in DOMAIN FirstHolds
    <3>1. FirstHolds[i] \in H
      BY <1>0
    <3> QED BY <3>1 DEF HoldRec, Items
  <2>2. Len(FirstHolds) \in Nat /\ DOMAIN FirstHolds = 1..Len(FirstHolds)
        /\ FirstHolds = [i \in 1..Len(FirstHolds) |-> FirstHolds[i]]
    BY HoldsAtStart
  <2>3. FirstHolds \in [1..Len(FirstHolds) -> HoldRec]
    BY <2>1, <2>2
  <2>4. FirstHolds \in Seq(HoldRec)
    BY <2>2, <2>3
  <2> QED BY <2>4 DEF Init
<1>3. TypeInv
  <2>1. pending \cap Item("rec", rows) = {} /\ pending \cap Item("clip", clipFiles) = {}
    BY DEF Init, Item
  <2>2. today \in 0..MaxToday /\ failures \in 0..MaxFailures /\ outside \in Nat
    BY RetentionConstants DEF Init
  <2> QED BY <1>1, <1>2, <2>1, <2>2 DEF Init, TypeInv
<1>4. \A x \in EverHeld : x.kind # "clip"
  <2>1. ASSUME NEW i \in DOMAIN holds
        PROVE  \A x \in holds[i].items : x \in Item("rec", Recordings) \cup Item("event", Events)
    <3>1. holds[i] \in H
      BY <1>0 DEF Init
    <3> QED BY <3>1
  <2>2. \A x \in Item("rec", Recordings) \cup Item("event", Events) : x.kind # "clip"
    BY DEF Item
  <2>3. \A x \in Evidence : x.kind # "clip"
    BY <2>2, HoldsAtStart
  <2>4. ASSUME NEW x \in EverHeld
        PROVE  x \in Evidence \/ \E i \in DOMAIN holds : x \in holds[i].items
    BY DEF EverHeld
  <2> QED BY <2>1, <2>2, <2>3, <2>4
<1>5. HeldExist
  BY <1>4 DEF HeldExist
<1> QED BY <1>1, <1>3, <1>5, IdleOK DEF RetentionInv

(* Every step keeps it. *)
LEMMA RetentionGoesOn ==
    ASSUME RetentionInv, [Next]_vars
    PROVE  RetentionInv'
<1>1. "pass" \in Procs /\ "guard" \in Procs /\ TRUE \in BOOLEAN
  BY DEF Procs
<1>2. CASE PassStart
  BY <1>2, PassStartKeeps
<1>3. ASSUME NEW p \in Procs, Work(p)
      PROVE  RetentionInv'
  BY <1>3, GuardFetchKeeps, GuardRecKeeps, GuardMeasureKeeps, GuardTxKeeps DEF Work
<1>4. CASE PassWork
  BY <1>1, <1>3, <1>4, FetchClipsKeeps, FetchRecsKeeps, ExpireRecKeeps, ExpireEventsKeeps,
     ExpireClipKeeps, ExpireRecTxKeeps, GuardStartKeeps DEF PassWork
<1>5. CASE GuardStart("guard", TRUE)
  BY <1>1, <1>5, GuardStartKeeps
<1>6. CASE Work("guard")
  BY <1>1, <1>3, <1>6
<1>7. CASE Environment
  BY <1>7, RegisterKeeps, ExportFileKeeps, ExportRowKeeps, WriteHoldKeeps, WorldGoesOn DEF Environment
<1>8. CASE UNCHANGED vars
  <2>1. TypeInv'
    BY <1>8 DEF RetentionInv, TypeInv, vars
  <2>2. EverHeld' = EverHeld /\ \A k \in Clips : Gone(k)' = Gone(k)
    BY <1>8 DEF EverHeld, Gone, vars
  <2>3. HeldExist'
    BY <1>8, <2>2 DEF RetentionInv, HeldExist, vars
  <2>4. st' = st
    BY <1>8 DEF vars
  <2> QED BY <2>1, <2>2, <2>3, <2>4, ProcsStay, DataStep
<1> QED BY <1>2, <1>4, <1>5, <1>6, <1>7, <1>8 DEF Next

-----------------------------------------------------------------------------
(* What is held survives.                                                  *)

(* A process moves, and loses nothing that has been held since it looked. *)
Harmless(p) == st'[p].pc # st[p].pc \/ st'[p].page # st[p].page => Lost \cap st[p].covered = {}

(* Most steps delete nothing. *)
LEMMA NothingDeleted ==
    ASSUME rows \subseteq rows', clipRows \subseteq clipRows', events \subseteq events'
    PROVE  \A p \in Procs : Harmless(p)
<1>1. Lost = {}
  BY DEF Lost, Item
<1> QED BY <1>1 DEF Harmless

(* The clip that goes is not one of the hold. *)
LEMMA ClipHarmless ==
    ASSUME RetentionInv, NEW ok \in BOOLEAN, ExpireClip(ok)
    PROVE  \A p \in Procs : Harmless(p)
<1>1. PICK s : s = st["pass"] /\ s \in ProcRec /\ SparesHeld(s)
  BY ProcFacts DEF Procs
<1>2. PICK k : k = First(s.page, OlderClip)
  OBVIOUS
<1>3. CASE ~ok
  BY <1>3, NothingDeleted DEF ExpireClip
<1>4. CASE ok
  <2>1. /\ k \notin s.prot.clip /\ rows' = rows /\ events' = events /\ clipRows' = clipRows \ {k}
        /\ \E t : Set("pass", t)
    BY <1>1, <1>2, <1>4 DEF ExpireClip
  <2>2. Lost \subseteq {[kind |-> "clip", id |-> k]}
    BY <2>1 DEF Lost, Item
  <2>3. [kind |-> "clip", id |-> k] \notin s.covered
    BY <1>1, <2>1 DEF SparesHeld
  <2>4. Harmless("pass")
    BY <1>1, <2>2, <2>3 DEF Harmless
  <2>5. \A p \in Procs : p # "pass" => st'[p] = st[p]
    BY <2>1 DEF Set, RetentionInv, TypeInv
  <2> QED BY <2>4, <2>5 DEF Harmless
<1> QED BY <1>3, <1>4

(* The recording that goes is not one of the hold, and of the clips that go
   with it those of the hold are gone already. *)
LEMMA RowHarmless ==
    ASSUME RetentionInv, NEW p \in Procs, st[p].pc \in {"recTx", "guardTx"},
           RemoveRow(First(st[p].page, Older), st[p].clips), UNCHANGED events,
           NEW t, SetRows(p, t)
    PROVE  \A q \in Procs : Harmless(q)
<1>1. PICK s : s = st[p] /\ s \in ProcRec /\ SparesHeld(s)
  BY ProcFacts
<1>2. PICK r : r = First(s.page, Older)
  OBVIOUS
<1>3. /\ rows' = rows \ {r} /\ events' = events
      /\ clipRows' = clipRows \ {k \in clipRows : Source[k] = r}
  BY <1>1, <1>2 DEF RemoveRow, ClipsOf
<1>4. ASSUME NEW x \in Lost
      PROVE  x \notin s.covered
  <2>1. \/ x = [kind |-> "rec", id |-> r]
        \/ \E k \in clipRows : Source[k] = r /\ x = [kind |-> "clip", id |-> k]
    BY <1>3, <1>4 DEF Lost, Item
  <2>2. CASE x = [kind |-> "rec", id |-> r]
    BY <1>1, <1>2, <2>2 DEF SparesHeld
  <2>3. ASSUME NEW k \in clipRows, Source[k] = r, x = [kind |-> "clip", id |-> k], x \in s.covered
        PROVE  FALSE
    <3>1. k \in Clips /\ k \in clipFiles /\ Source[k] \in rows
      BY DEF RetentionInv, TypeInv
    <3>2. Gone(k)
      BY <1>1, <1>2, <2>3, <3>1 DEF SparesHeld
    <3> QED BY <3>1, <3>2 DEF Gone
  <2> QED BY <2>1, <2>2, <2>3
<1>5. Harmless(p)
  BY <1>1, <1>4 DEF Harmless
<1>6. \A q \in Procs : q # p => st'[q].pc = st[q].pc /\ st'[q].page = st[q].page
  BY DisturbedOK DEF SetRows
<1> QED BY <1>5, <1>6 DEF Harmless

(* The events that go are not those of the hold. *)
LEMMA EventsHarmless ==
    ASSUME RetentionInv, ExpireEvents
    PROVE  \A p \in Procs : Harmless(p)
<1>1. PICK s : s = st["pass"] /\ s \in ProcRec /\ SparesHeld(s)
  BY ProcFacts DEF Procs
<1>2. /\ rows' = rows /\ clipRows' = clipRows /\ (\E t : Set("pass", t))
      /\ \A e \in events : e \in s.prot.event => e \in events'
  BY <1>1 DEF ExpireEvents
<1>3. ASSUME NEW x \in Lost
      PROVE  x \notin s.covered
  <2>1. \E e \in events : e \notin events' /\ x = [kind |-> "event", id |-> e]
    BY <1>2, <1>3 DEF Lost, Item
  <2>2. PICK e \in events : e \notin s.prot.event /\ x = [kind |-> "event", id |-> e]
    BY <1>2, <2>1
  <2>3. x.kind = "event" /\ x.id = e
    BY <2>2
  <2> QED BY <1>1, <2>2, <2>3 DEF SparesHeld
<1>4. Harmless("pass")
  BY <1>1, <1>3 DEF Harmless
<1>5. \A p \in Procs : p # "pass" => st'[p] = st[p]
  BY <1>2 DEF Set, RetentionInv, TypeInv
<1> QED BY <1>4, <1>5 DEF Harmless

(* No step of anybody loses what its process should spare. *)
LEMMA StepHarmless ==
    ASSUME RetentionInv, [Next]_vars
    PROVE  \A p \in Procs : Harmless(p)
<1>1. CASE UNCHANGED <<rows, clipRows, events>>
  BY <1>1, NothingDeleted
<1>2. ASSUME NEW p \in Procs, Work(p)
      PROVE  \A q \in Procs : Harmless(q)
  <2>1. CASE GuardFetch(p) \/ GuardRec(p) \/ GuardMeasure(p)
    BY <1>1, <2>1 DEF GuardFetch, GuardRec, GuardMeasure, db
  <2>2. ASSUME NEW ok \in BOOLEAN, GuardTx(p, ok)
        PROVE  \A q \in Procs : Harmless(q)
    <3>1. CASE ok
      <4>1. /\ st[p].pc = "guardTx" /\ RemoveRow(First(st[p].page, Older), st[p].clips)
            /\ UNCHANGED events /\ \E t : SetRows(p, t)
        BY <2>2, <3>1 DEF GuardTx
      <4> QED BY <4>1, RowHarmless
    <3>2. CASE ~ok
      BY <1>1, <2>2, <3>2 DEF GuardTx
    <3> QED BY <3>1, <3>2
  <2> QED BY <1>2, <2>1, <2>2 DEF Work
<1>3. "pass" \in Procs /\ "guard" \in Procs
  BY DEF Procs
<1>4. CASE PassStart \/ FetchClips \/ FetchRecs \/ ExpireRec
  BY <1>1, <1>4 DEF PassStart, FetchClips, FetchRecs, ExpireRec, db
<1>5. ASSUME NEW p \in Procs, NEW auto \in BOOLEAN, GuardStart(p, auto)
      PROVE  \A q \in Procs : Harmless(q)
  BY <1>1, <1>5 DEF GuardStart, db
<1>6. ASSUME NEW ok \in BOOLEAN, ExpireRecTx(ok)
      PROVE  \A q \in Procs : Harmless(q)
  <2>1. CASE ok
    <3>1. /\ st["pass"].pc = "recTx" /\ RemoveRow(First(st["pass"].page, Older), st["pass"].clips)
          /\ UNCHANGED events /\ \E t : SetRows("pass", t)
      BY <1>6, <2>1 DEF ExpireRecTx
    <3> QED BY <1>3, <3>1, RowHarmless
  <2>2. CASE ~ok
    BY <1>1, <1>6, <2>2 DEF ExpireRecTx
  <2> QED BY <2>1, <2>2
<1>7. CASE PassWork
  BY <1>2, <1>3, <1>4, <1>5, <1>6, <1>7, ClipHarmless, EventsHarmless DEF PassWork
<1>8. CASE Environment
  <2>1. rows \subseteq rows' /\ clipRows \subseteq clipRows' /\ events \subseteq events'
    BY <1>8 DEF Environment, Register, ExportFile, ExportRow, WriteHold, NextDay, OutsideGrows, db
  <2> QED BY <2>1, NothingDeleted
<1>9. CASE UNCHANGED vars
  BY <1>1, <1>9 DEF vars
<1> QED BY <1>2, <1>3, <1>4, <1>5, <1>7, <1>8, <1>9 DEF Next

-----------------------------------------------------------------------------
(* The theorems.                                                           *)

(* The invariant holds in every state of every behaviour. *)
LEMMA RetentionInvHolds == Spec => []RetentionInv
<1>1. Init => RetentionInv
  BY RetentionStarts
<1>2. RetentionInv /\ [Next]_vars => RetentionInv'
  BY RetentionGoesOn
<1> QED BY <1>1, <1>2, PTL DEF Spec

(* Every variable keeps its type, clips their recordings and files, and the
   counters of expireRecordingsInBatches and checkDiskUsage their bounds. *)
THEOREM RetentionTyped == Spec => []TypeOK
<1>1. RetentionInv => TypeOK
  <2>1. ASSUME RetentionInv, NEW p \in Procs
        PROVE  /\ st[p].budget \in 0..MaxPerCycle
               /\ st[p].skip \in 0..(Cardinality(Recordings) + Cardinality(Clips))
               /\ st[p].noProgress \in 0..(MaxNoProgress - 1)
    <3>1. PICK s : s = st[p] /\ s \in ProcRec /\ PageOK(s) /\ BrakeOK(s)
      BY <2>1, ProcFacts
    <3>2. s.budget \in Nat /\ s.skip \in Nat /\ s.noProgress \in Nat
          /\ s.budget <= MaxPerCycle /\ s.skip <= Total /\ s.noProgress < MaxNoProgress
      BY <3>1 DEF ProcRec, PageOK, BrakeOK
    <3>3. Total = Cardinality(Recordings) + Cardinality(Clips) /\ Total \in Nat
          /\ MaxPerCycle \in Nat /\ MaxNoProgress \in Nat
      BY <2>1, ProcFacts, RetentionConstants DEF Total
    <3> QED BY <3>1, <3>2, <3>3
  <2> QED BY <2>1 DEF RetentionInv, TypeInv, TypeOK
<1> QED BY <1>1, RetentionInvHolds, PTL

(* The filter of buildExpiryWhere and the rule of isExpiredByAge agree on every
   recording, whatever the policy, the cameras and the date. *)
THEOREM FilterMatchesRule == Spec => []FilterIsTheRule
<1>1. RetentionInv => FilterIsTheRule
  <2>1. ASSUME RetentionInv, NEW g \in RetentionGroups, NEW r \in rows
        PROVE  ExpiryWhere(r, Window(g.days), today) <=> IsExpiredByAge(r, Window(g.days), today)
    <3>1. TypeInv /\ r \in Recordings /\ today \in Int
      BY <2>1 DEF RetentionInv, TypeInv
    <3> QED BY <3>1, FilterAndRule
  <2> QED BY <2>1 DEF FilterIsTheRule
<1> QED BY <1>1, RetentionInvHolds, PTL

(* However full the disk stays, checkDiskUsage deletes at most MaxNoProgress
   batches without having seen the usage fall. *)
THEOREM GuardianIsBraked == Spec => []BrakeHolds
<1>1. RetentionInv => BrakeHolds
  <2>1. ASSUME RetentionInv, NEW p \in Procs
        PROVE  st[p].wasted <= MaxNoProgress * GuardBatch
    <3>1. PICK s : s = st[p] /\ s \in ProcRec /\ BrakeOK(s)
      BY <2>1, ProcFacts
    <3>2. /\ s.wasted \in Nat /\ s.noProgress \in Nat /\ s.batchDeleted \in Nat /\ s.page \subseteq Nat
          /\ GuardBatch \in Nat /\ MaxNoProgress \in Nat
      BY <3>1, RetentionConstants DEF ProcRec
    <3>3. PICK w : w = s.noProgress * GuardBatch
      OBVIOUS
    <3>4. PICK m : m = MaxNoProgress * GuardBatch
      OBVIOUS
    <3>5. w \in Nat /\ m \in Nat /\ w + GuardBatch <= m
      <4>1. w \in Nat /\ m \in Nat /\ s.noProgress + 1 <= MaxNoProgress
        BY <3>1, <3>2, <3>3, <3>4 DEF BrakeOK
      <4>2. w + GuardBatch = (s.noProgress + 1) * GuardBatch
        BY <3>2, <3>3
      <4>3. (s.noProgress + 1) * GuardBatch <= MaxNoProgress * GuardBatch
        BY <3>2, <4>1
      <4> QED BY <3>4, <4>1, <4>2, <4>3
    <3>6. s.wasted <= w + GuardBatch
      <4>1. CASE s.pc \in InBatch
        <5>1. s.page \in SUBSET Recordings
          BY <2>1, <3>1, <4>1, ProcFacts DEF PageOK, InBatch, AtRecs, BrakeOK
        <5>2. Cardinality(s.page) \in Nat
          BY <5>1, RetentionConstants, Sizes
        <5>3. s.batchDeleted + Cardinality(s.page) <= GuardBatch /\ s.wasted <= w + s.batchDeleted
          BY <3>1, <3>3, <4>1 DEF BrakeOK
        <5> QED BY <3>2, <3>5, <5>2, <5>3
      <4>2. CASE s.pc \notin InBatch
        BY <3>1, <3>2, <3>3, <3>5, <4>2 DEF BrakeOK
      <4> QED BY <4>1, <4>2
    <3> QED BY <3>1, <3>2, <3>4, <3>5, <3>6
  <2> QED BY <2>1 DEF BrakeHolds
<1> QED BY <1>1, RetentionInvHolds, PTL

(* Whoever deletes, for age or for space, nothing goes that has been held since
   that process called getProtectionSets: no recording, no clip on its own or
   with its recording, no event. *)
THEOREM HeldIsSafe == Spec => HeldSurvive
<1>1. RetentionInv /\ [Next]_vars =>
         [\A p \in Procs :
             st'[p].pc # st[p].pc \/ st'[p].page # st[p].page => Lost \cap st[p].covered = {}]_vars
  BY StepHarmless DEF Harmless
<1> QED BY <1>1, RetentionInvHolds, PTL DEF Spec, HeldSurvive

-----------------------------------------------------------------------------
(* A pass is thorough.  A page is a run of the query's result, from its skip on,
   and the result shifts under it when a row is deleted.                   *)

Rank(X, x) == Cardinality(Below(OlderRel, X, x))

(* What is left of a page are the rows from skip on; a page that was not full
   reaches to the end of the result. *)
Paged(X, P, skip, full) ==
    /\ P \subseteq X
    /\ \A x \in X : x \in P <=> skip <= Rank(X, x) /\ Rank(X, x) < skip + Cardinality(P)
    /\ ~full => \A x \in X : Rank(X, x) < skip + Cardinality(P)

(* Ranks are numbers, and follow the order. *)
LEMMA Ranks ==
    ASSUME NEW X \in SUBSET Recordings
    PROVE  /\ IsFiniteSet(X) /\ StrictTotal(OlderRel, X)
           /\ \A x \in X : Rank(X, x) \in Nat
           /\ \A x, y \in X : <<x, y>> \in OlderRel => Rank(X, x) < Rank(X, y)
<1>1. IsFiniteSet(X) /\ StrictTotal(OlderRel, X)
  BY RetentionConstants, Sizes, RecOrdered
<1>2. ASSUME NEW x \in X
      PROVE  Rank(X, x) \in Nat
  <2>1. Below(OlderRel, X, x) \in SUBSET X
    BY DEF Below
  <2> QED BY <1>1, <2>1, Sizes DEF Rank
<1>3. ASSUME NEW x \in X, NEW y \in X, <<x, y>> \in OlderRel
      PROVE  Rank(X, x) < Rank(X, y)
  BY <1>1, <1>3, BelowGrows DEF Rank
<1> QED BY <1>1, <1>2, <1>3

(* At most n rows come before the n-th. *)
LEMMA FewBefore ==
    ASSUME NEW X \in SUBSET Recordings, NEW n \in Nat, NEW S, S \subseteq X,
           \A x \in S : Rank(X, x) < n
    PROVE  IsFiniteSet(S) /\ Cardinality(S) \in Nat /\ Cardinality(S) <= n
<1>1. IsFiniteSet(X) /\ StrictTotal(OlderRel, X) /\ \A x \in X : Rank(X, x) \in Nat
  BY Ranks
<1>2. PICK P \in SUBSET X : \A x \in X : x \in P <=> Rank(X, x) < n
  <2>1. {x \in X : Rank(X, x) < n} \in SUBSET X
    OBVIOUS
  <2> QED BY <2>1
<1>3. \A x \in X : x \in P <=> /\ 0 <= Cardinality(Below(OlderRel, X, x))
                               /\ Cardinality(Below(OlderRel, X, x)) < 0 + n
  BY <1>1, <1>2 DEF Rank
<1>4. Cardinality(P) <= n /\ Cardinality(P) \in Nat
  BY <1>1, <1>3, PageFits
<1>5. S \in SUBSET X /\ S \subseteq P
  BY <1>2
<1>6. IsFiniteSet(S) /\ Cardinality(S) \in Nat /\ Cardinality(S) <= Cardinality(P)
  BY <1>1, <1>5, Sizes
<1> QED BY <1>4, <1>6

(* Where there are rows after a page, the page is full. *)
LEMMA FullBefore ==
    ASSUME NEW X \in SUBSET Recordings, NEW skip \in Nat, NEW take \in Nat,
           NEW P, P \subseteq X,
           \A x \in X : skip <= Rank(X, x) /\ Rank(X, x) < skip + take => x \in P,
           NEW z \in X, skip + take <= Rank(X, z)
    PROVE  Cardinality(P) >= take
<1>1. IsFiniteSet(X) /\ StrictTotal(OlderRel, X) /\ \A x \in X : Rank(X, x) \in Nat
  BY Ranks
<1>2. PICK H \in SUBSET X : \A x \in X : x \in H <=> skip + take <= Rank(X, x)
  <2>1. {x \in X : skip + take <= Rank(X, x)} \in SUBSET X
    OBVIOUS
  <2> QED BY <2>1
<1>3. PICK S \in SUBSET X : \A x \in X : x \in S <=> Rank(X, x) < skip
  <2>1. {x \in X : Rank(X, x) < skip} \in SUBSET X
    OBVIOUS
  <2> QED BY <2>1
<1>4. IsFiniteSet(H) /\ H # {} /\ StrictTotal(OlderRel, H) /\ IsFiniteSet(P) /\ Cardinality(P) \in Nat
  <2>1. H \in SUBSET Recordings /\ P \in SUBSET X
    OBVIOUS
  <2> QED BY <1>1, <1>2, <2>1, Sizes, Ranks
<1>5. PICK x \in H : \A y \in H : y = x \/ <<x, y>> \in OlderRel
  BY <1>4, LeastOf
<1> DEFINE B == Below(OlderRel, X, x)
<1>6. B \subseteq S \cup P
  <2>1. ASSUME NEW y \in B
        PROVE  y \in S \cup P
    <3>1. y \in X /\ x \in X /\ <<y, x>> \in OlderRel
      BY DEF Below
    <3>2. y \notin H
      BY <1>1, <1>5, <3>1 DEF StrictTotal
    <3>3. Rank(X, y) \in Nat /\ ~(skip + take <= Rank(X, y))
      BY <1>1, <1>2, <3>1, <3>2
    <3> QED BY <1>3, <3>1, <3>3
  <2> QED BY <2>1
<1>7. IsFiniteSet(S) /\ Cardinality(S) \in Nat /\ Cardinality(S) <= skip
  BY <1>3, FewBefore
<1>8. /\ IsFiniteSet(S \cup P)
      /\ Cardinality(S \cup P) = Cardinality(S) + Cardinality(P) - Cardinality(S \cap P)
  BY <1>4, <1>7, FS_Union
<1>9. Cardinality(S \cap P) \in Nat
  <2>1. S \cap P \in SUBSET X
    OBVIOUS
  <2> QED BY <1>1, <2>1, Sizes
<1>10. Cardinality(B) <= Cardinality(S \cup P)
  BY <1>6, <1>8, FS_Subset
<1>11. skip + take <= Cardinality(B) /\ Cardinality(B) \in Nat
  BY <1>1, <1>2, <1>5 DEF Rank
<1> HIDE DEF B
<1> QED BY <1>4, <1>7, <1>8, <1>9, <1>10, <1>11

(* What a query with skip and take returns. *)
LEMMA PagedFetch ==
    ASSUME NEW X \in SUBSET Recordings, NEW skip \in Nat, NEW take \in Nat,
           NEW P, P = Page(X, Older, skip, take),
           NEW full \in BOOLEAN, full <=> Cardinality(P) = take
    PROVE  Paged(X, P, skip, full)
<1>1. P \subseteq X /\ Cardinality(P) \in Nat /\ Cardinality(P) <= take /\ IsFiniteSet(P)
  BY RecPage
<1>2. \A x \in X : Rank(X, x) \in Nat
  BY Ranks
<1>3. \A x \in X : {y \in X : Older(y, x)} = Below(OlderRel, X, x)
  BY RecOrdered DEF Below
<1>4. \A x \in X : x \in P <=> skip <= Rank(X, x) /\ Rank(X, x) < skip + take
  BY <1>3 DEF Page, Rank
<1>5. CASE full
  BY <1>1, <1>4, <1>5 DEF Paged
<1>6. CASE ~full
  <2>1. PICK m \in Nat : m = Cardinality(P) /\ m < take
    BY <1>1, <1>6
  <2>2. ASSUME NEW z \in X, ~(Rank(X, z) < skip + m)
        PROVE  FALSE
    <3>1. Rank(X, z) \in Nat /\ skip + m <= Rank(X, z)
      BY <1>2, <2>1, <2>2
    <3>2. PICK Q \in SUBSET P : \A x \in P : x \in Q <=> Rank(X, x) < skip + m
      <4>1. {x \in P : Rank(X, x) < skip + m} \in SUBSET P
        OBVIOUS
      <4> QED BY <4>1
    <3>3. Q \subseteq X /\ \A x \in X : skip <= Rank(X, x) /\ Rank(X, x) < skip + m => x \in Q
      BY <1>1, <1>2, <1>4, <2>1, <3>2
    <3>4. Cardinality(Q) >= m
      BY <3>1, <3>3, FullBefore
    <3>5. Cardinality(Q) \in Nat /\ (Q # P => Cardinality(Q) < Cardinality(P))
      <4>1. Q \in SUBSET P /\ P \in SUBSET P
        OBVIOUS
      <4> QED BY <1>1, <4>1, Sizes
    <3>6. Q = P
      BY <2>1, <3>4, <3>5
    <3>7. z \notin P
      BY <3>1, <3>2, <3>6, <2>2
    <3>8. skip + take <= Rank(X, z)
      BY <1>4, <3>1, <3>7
    <3>9. Cardinality(P) >= take
      BY <1>1, <1>4, <3>8, FullBefore
    <3> QED BY <2>1, <3>9
  <2> QED BY <1>1, <1>2, <1>4, <2>1, <2>2 DEF Paged
<1> QED BY <1>5, <1>6

(* The next row of a page is older than the others. *)
LEMMA FirstIsLeast ==
    ASSUME NEW P \in SUBSET Recordings, P # {}
    PROVE  /\ First(P, Older) \in P
           /\ \A y \in P : y = First(P, Older) \/ <<First(P, Older), y>> \in OlderRel
<1>1. IsFiniteSet(P) /\ StrictTotal(OlderRel, P)
  BY Ranks
<1>2. \E x \in P : \A y \in P : y = x \/ <<x, y>> \in OlderRel
  BY <1>1, LeastOf
<1>3. \E x \in P : \A y \in P : y = x \/ Older(x, y)
  BY <1>2, RecOrdered
<1>4. First(P, Older) \in P /\ \A y \in P : y = First(P, Older) \/ Older(First(P, Older), y)
  BY <1>3 DEF First
<1> QED BY <1>4, RecOrdered

Without(S, x) == S \ {x}

(* The first row of a page is dealt with: it stays and skip is one more, or it
   is deleted and the rows behind it move up. *)
LEMMA PagedStep ==
    ASSUME NEW X \in SUBSET Recordings, NEW P, NEW skip \in Nat, NEW full \in BOOLEAN,
           NEW r \in P, \A y \in P : y = r \/ <<r, y>> \in OlderRel, Paged(X, P, skip, full)
    PROVE  /\ Paged(X, Without(P, r), skip + 1, full)
           /\ Paged(Without(X, r), Without(P, r), skip, full)
           /\ \A x \in X : Rank(X, x) < skip + 1 => x = r \/ Rank(X, x) < skip
           /\ \A x \in Without(X, r) : Rank(Without(X, r), x) < skip => Rank(X, x) < skip
<1>0. PICK Q : Q = P \ {r}
  OBVIOUS
<1>1. P \in SUBSET Recordings /\ P \subseteq X /\ r \in P /\ r \in X
  BY DEF Paged
<1>2. PICK c \in Nat : c = Cardinality(P) /\ c > 0 /\ Cardinality(Q) = c - 1
  <2>1. IsFiniteSet(P) /\ Cardinality(P) \in Nat /\ Cardinality(P) > 0
    BY <1>1, RetentionConstants, Sizes
  <2> QED BY <1>0, <2>1, FS_RemoveElement
<1>3. \A x \in X : Rank(X, x) \in Nat
  BY Ranks
<1>4. /\ \A x, y \in X : <<x, y>> \in OlderRel => Rank(X, x) < Rank(X, y)
      /\ StrictTotal(OlderRel, X) /\ IsFiniteSet(X)
  BY Ranks
<1>5. \A y \in P : y = r \/ <<r, y>> \in OlderRel
  OBVIOUS
<1>6. \A x \in X : x \in P <=> skip <= Rank(X, x) /\ Rank(X, x) < skip + c
  BY <1>2 DEF Paged
<1>7. Rank(X, r) = skip
  <2> DEFINE B == Below(OlderRel, X, r)
  <2>1. ASSUME NEW y \in B
        PROVE  Rank(X, y) < skip
    <3>1. y \in X /\ <<y, r>> \in OlderRel
      BY DEF Below
    <3>2. y \notin P
      BY <1>1, <1>4, <1>5, <3>1 DEF StrictTotal
    <3>3. Rank(X, y) < Rank(X, r) /\ Rank(X, r) < skip + c
      BY <1>1, <1>4, <1>6, <3>1
    <3> QED BY <1>1, <1>3, <1>6, <3>1, <3>2, <3>3
  <2>2. B \subseteq X
    BY DEF Below
  <2>3. Cardinality(B) <= skip
    BY <2>1, <2>2, FewBefore
  <2>4. skip <= Rank(X, r) /\ Rank(X, r) \in Nat
    BY <1>1, <1>3, <1>6
  <2> QED BY <2>3, <2>4 DEF Rank
<1>8. \A x \in X : \/ x = r
                   \/ <<x, r>> \in OlderRel /\ Rank(X, x) < skip
                   \/ <<r, x>> \in OlderRel /\ skip < Rank(X, x)
  BY <1>1, <1>4, <1>7 DEF StrictTotal
<1>9. ~full => \A x \in X : Rank(X, x) < skip + c
  BY <1>2 DEF Paged
<1>10. ASSUME NEW Y, NEW n, Y = X /\ n = skip + 1
       PROVE  /\ Paged(Y, Q, n, full)
              /\ \A x \in Y : Rank(Y, x) < n => x = r \/ Rank(X, x) < skip
  <2>1. ASSUME NEW x \in Y
        PROVE  /\ x \in Q <=> n <= Rank(Y, x) /\ Rank(Y, x) < n + (c - 1)
               /\ ~full => Rank(Y, x) < n + (c - 1)
               /\ Rank(Y, x) < n => x = r \/ Rank(X, x) < skip
    <3>1. PICK k \in Nat : k = Rank(X, x) /\ k = Rank(Y, x)
      BY <1>3, <1>10
    <3>2. (x = r /\ k = skip) \/ (x # r /\ k < skip) \/ (x # r /\ skip < k)
      BY <1>7, <1>8, <1>10, <3>1
    <3>3. (x \in P <=> skip <= k /\ k < skip + c) /\ (~full => k < skip + c)
      BY <1>6, <1>9, <1>10, <3>1
    <3>4. n = skip + 1 /\ n + (c - 1) = skip + c
      BY <1>10
    <3>5. x \in Q <=> n <= k /\ k < n + (c - 1)
      BY <1>0, <3>2, <3>3, <3>4
    <3>6. (~full => k < n + (c - 1)) /\ (k < n => x = r \/ k < skip)
      BY <3>2, <3>3, <3>4
    <3> QED BY <3>1, <3>5, <3>6
  <2>2. \A x \in Y : x \in Q <=> n <= Rank(Y, x) /\ Rank(Y, x) < n + (c - 1)
    BY <2>1
  <2>3. /\ ~full => \A x \in Y : Rank(Y, x) < n + (c - 1)
        /\ \A x \in Y : Rank(Y, x) < n => x = r \/ Rank(X, x) < skip
    BY <2>1
  <2>4. Q \subseteq Y
    BY <1>0, <1>1, <1>10
  <2> QED BY <1>2, <2>2, <2>3, <2>4 DEF Paged
<1>11. ASSUME NEW Y, NEW n, Y = X \ {r} /\ n = skip
       PROVE  /\ Paged(Y, Q, n, full)
              /\ \A x \in Y : Rank(Y, x) < n => x = r \/ Rank(X, x) < skip
  <2>1. ASSUME NEW x \in Y
        PROVE  Rank(Y, x) = IF <<r, x>> \in OlderRel THEN Rank(X, x) - 1 ELSE Rank(X, x)
    <3>1. CASE <<r, x>> \in OlderRel
      <4>1. Below(OlderRel, Y, x) = Below(OlderRel, X, x) \ {r} /\ r \in Below(OlderRel, X, x)
        BY <1>1, <1>11, <3>1 DEF Below
      <4>2. Below(OlderRel, X, x) \in SUBSET X
        BY DEF Below
      <4>3. IsFiniteSet(Below(OlderRel, X, x))
        BY <1>4, <4>2, Sizes
      <4>4. PICK B : B = Below(OlderRel, X, x)
        OBVIOUS
      <4>5. IsFiniteSet(B) /\ r \in B
        BY <4>1, <4>3, <4>4
      <4>6. Cardinality(B \ {r}) = Cardinality(B) - 1
        BY <4>5, FS_RemoveElement
      <4> QED BY <3>1, <4>1, <4>4, <4>6 DEF Rank
    <3>2. CASE <<r, x>> \notin OlderRel
      <4>1. Below(OlderRel, Y, x) = Below(OlderRel, X, x)
        BY <1>11, <3>2 DEF Below
      <4> QED BY <3>2, <4>1 DEF Rank
    <3> QED BY <3>1, <3>2
  <2>2. ASSUME NEW x \in Y
        PROVE  \/ Rank(Y, x) = Rank(X, x) /\ Rank(X, x) < skip
               \/ Rank(Y, x) = Rank(X, x) - 1 /\ skip < Rank(X, x)
    <3>1. x \in X /\ x # r /\ Rank(X, x) \in Nat
      BY <1>3, <1>11
    <3>2. ~(<<r, x>> \in OlderRel /\ <<x, r>> \in OlderRel)
      BY <1>1, <1>4, <3>1 DEF StrictTotal
    <3> QED BY <1>8, <2>1, <3>1, <3>2
  <2>3. Y \subseteq X /\ \A x \in Y : x # r
    BY <1>11
  <2>4. ASSUME NEW x \in Y
        PROVE  /\ x \in Q <=> n <= Rank(Y, x) /\ Rank(Y, x) < n + (c - 1)
               /\ ~full => Rank(Y, x) < n + (c - 1)
               /\ Rank(Y, x) < n => x = r \/ Rank(X, x) < skip
    <3>1. PICK k \in Nat, l \in Int : /\ k = Rank(X, x) /\ l = Rank(Y, x)
                                      /\ (l = k /\ k < skip) \/ (l = k - 1 /\ skip < k)
      BY <1>3, <2>2, <2>3
    <3>2. (x \in P <=> skip <= k /\ k < skip + c) /\ (~full => k < skip + c) /\ x # r
      <4>1. x \in X /\ x # r
        BY <2>3
      <4>2. x \in P <=> skip <= k /\ k < skip + c
        BY <1>6, <3>1, <4>1
      <4>3. ~full => k < skip + c
        BY <1>9, <3>1, <4>1
      <4> QED BY <4>1, <4>2, <4>3, Zenon
    <3>3. x \in Q <=> n <= l /\ l < n + (c - 1)
      BY <1>0, <1>11, <3>1, <3>2
    <3>4. (~full => l < n + (c - 1)) /\ (l < n => x = r \/ k < skip)
      BY <1>2, <1>11, <3>1, <3>2
    <3> QED BY <3>1, <3>3, <3>4, Zenon
  <2>5. \A x \in Y : x \in Q <=> n <= Rank(Y, x) /\ Rank(Y, x) < n + (c - 1)
    BY <2>4
  <2>6. /\ ~full => \A x \in Y : Rank(Y, x) < n + (c - 1)
        /\ \A x \in Y : Rank(Y, x) < n => x = r \/ Rank(X, x) < skip
    BY <2>4
  <2>7. Q \subseteq Y
    BY <1>0, <1>1, <1>11
  <2> QED BY <1>2, <2>5, <2>6, <2>7 DEF Paged
<1>12. /\ Paged(X, Q, skip + 1, full)
       /\ \A x \in X : Rank(X, x) < skip + 1 => x = r \/ Rank(X, x) < skip
  BY <1>10
<1>13. PICK Z : Z = X \ {r}
  OBVIOUS
<1>14. /\ Paged(Z, Q, skip, full)
       /\ \A x \in Z : Rank(Z, x) < skip => x = r \/ Rank(X, x) < skip
  BY <1>11, <1>13
<1> QED BY <1>0, <1>12, <1>13, <1>14 DEF Without

RecPhase == {"recs", "rec", "recTx"}

(* A recording a pass leaves behind for a reason. *)
Settled(s, r) ==
    r \in s.failed \cup s.prot.rec \/ \E k \in Clips : Source[k] = r /\ k \in s.prot.clip

(* What the query of each group would return. *)
Dues(now) ==
    [g \in RetentionGroups |-> {r \in rows \cap g.recs : ExpiryWhere(r, Window(g.days), now)}]

(* The groups that are done have only settled recordings, and so has the part
   of the current result that is skipped; the page is what follows it. *)
ThoroughIn(s, D) ==
    /\ \A g \in RetentionGroups \ s.groups : \A r \in D[g] : Settled(s, r)
    /\ s.groups # {} =>
          \A r \in D[Group(s.groups)] : Rank(D[Group(s.groups)], r) < s.skip => Settled(s, r)
    /\ s.pc \in {"rec", "recTx"} =>
          s.groups # {} /\ Paged(D[Group(s.groups)], s.page, s.skip, s.full)

(* The inductive invariant, of a pass that nobody has disturbed. *)
Thorough ==
    LET s == st["pass"]
    IN  s.pc \in RecPhase /\ ~s.disturbed /\ ~Simulated => ThoroughIn(s, Dues(s.now))

(* The current group is one of those that are left. *)
LEMMA GroupIsLeft ==
    ASSUME NEW gs, gs # {}
    PROVE  Group(gs) \in gs
<1>1. \E g \in gs : g = Orphans => gs = {g}
  OBVIOUS
<1> QED BY <1>1 DEF Group

(* The results are sets of registered recordings. *)
LEMMA DuesTyped ==
    ASSUME RetentionInv, NEW now
    PROVE  Dues(now) \in [RetentionGroups -> SUBSET Recordings]
BY DEF Dues, RetentionInv, TypeInv

(* A group whose recordings are all settled is left for the next one. *)
LEMMA GroupDone ==
    ASSUME NEW s \in ProcRec, s.groups # {}, NEW D \in [RetentionGroups -> SUBSET Recordings],
           \A g \in RetentionGroups \ s.groups : \A r \in D[g] : Settled(s, r),
           \A r \in D[Group(s.groups)] : Settled(s, r),
           NEW t, t = NextGroup(s, "recs")
    PROVE  ThoroughIn(t, D)
<1>1. PICK gs \in SUBSET RetentionGroups : gs = s.groups \ {Group(s.groups)}
  BY DEF ProcRec
<1>2. t = [s EXCEPT !.pc = "recs", !.groups = gs, !.skip = 0, !.page = {}]
  BY <1>1 DEF NextGroup
<1>3. t.groups = gs /\ t.skip = 0 /\ t.pc = "recs" /\ t.failed = s.failed /\ t.prot = s.prot
  BY <1>2 DEF ProcRec
<1>4. \A r : Settled(s, r) => Settled(t, r)
  BY <1>3 DEF Settled
<1>5. \A g \in RetentionGroups \ t.groups : \A r \in D[g] : Settled(t, r)
  BY <1>1, <1>3, <1>4
<1>6. ASSUME t.groups # {}, NEW r \in D[Group(t.groups)], Rank(D[Group(t.groups)], r) < t.skip
      PROVE  FALSE
  <2>1. Group(gs) \in RetentionGroups
    BY <1>3, <1>6, GroupIsLeft
  <2>2. D[Group(gs)] \in SUBSET Recordings
    BY <2>1
  <2>3. Rank(D[Group(gs)], r) \in Nat
    BY <1>3, <1>6, <2>2, Ranks
  <2> QED BY <1>3, <1>6, <2>3
<1> QED BY <1>3, <1>5, <1>6 DEF ThoroughIn

(* A row of the page has been dealt with: it is settled and skipped, or it has
   been deleted. *)
LEMMA RowHandled ==
    ASSUME NEW s \in ProcRec, s.pc \in {"rec", "recTx"}, s.page # {}, NEW u \in ProcRec,
           NEW D \in [RetentionGroups -> SUBSET Recordings],
           NEW E \in [RetentionGroups -> SUBSET Recordings],
           ThoroughIn(s, D), NEW r, r = First(s.page, Older),
           u.page = s.page, u.groups = s.groups, u.full = s.full, u.pc = "rec",
           s.failed \subseteq u.failed, u.prot = s.prot,
           \/ u.skip = s.skip + 1 /\ E = D /\ Settled(u, r)
           \/ u.skip = s.skip /\ \A g \in RetentionGroups : E[g] = D[g] \ {r},
           NEW t, t = NextInPage(u, r, "recs")
    PROVE  ThoroughIn(t, E)
<1>1. PICK G : G = Group(s.groups)
  OBVIOUS
<1>2. s.groups # {} /\ G \in s.groups /\ G \in RetentionGroups /\ Paged(D[G], s.page, s.skip, s.full)
  <2>1. s.groups # {} /\ Paged(D[G], s.page, s.skip, s.full)
    BY <1>1 DEF ThoroughIn
  <2> QED BY <1>1, <2>1, GroupIsLeft DEF ProcRec
<1>3. PICK X \in SUBSET Recordings, Y \in SUBSET Recordings : X = D[G] /\ Y = E[G]
  BY <1>2
<1>4. s.skip \in Nat /\ s.full \in BOOLEAN /\ u.skip \in Nat
  BY DEF ProcRec
<1>5. (Y = X /\ u.skip = s.skip + 1) \/ (Y = X \ {r} /\ u.skip = s.skip)
  BY <1>2, <1>3
<1>6. /\ Paged(Y, s.page \ {r}, u.skip, s.full)
      /\ \A x \in Y : Rank(Y, x) < u.skip => x = r \/ Rank(X, x) < s.skip
  <2>1. Paged(X, s.page, s.skip, s.full)
    BY <1>2, <1>3
  <2>3. r \in s.page /\ \A y \in s.page : y = r \/ <<r, y>> \in OlderRel
    <3>1. s.page \in SUBSET Recordings
      BY <2>1 DEF Paged
    <3> QED BY <3>1, FirstIsLeast
  <2>4. /\ Paged(X, Without(s.page, r), s.skip + 1, s.full)
        /\ Paged(Without(X, r), Without(s.page, r), s.skip, s.full)
        /\ \A x \in X : Rank(X, x) < s.skip + 1 => x = r \/ Rank(X, x) < s.skip
        /\ \A x \in Without(X, r) :
              Rank(Without(X, r), x) < s.skip => Rank(X, x) < s.skip
    <3>1. PICK P : P = s.page
      OBVIOUS
    <3>2. PICK k : k = s.skip
      OBVIOUS
    <3>3. PICK f : f = s.full
      OBVIOUS
    <3>4. Paged(X, P, k, f) /\ k \in Nat /\ f \in BOOLEAN
      BY <1>4, <2>1, <3>1, <3>2, <3>3
    <3>5. r \in P /\ \A y \in P : y = r \/ <<r, y>> \in OlderRel
      BY <2>3, <3>1
    <3>6. /\ Paged(X, Without(P, r), k + 1, f)
          /\ Paged(Without(X, r), Without(P, r), k, f)
          /\ \A x \in X : Rank(X, x) < k + 1 => x = r \/ Rank(X, x) < k
          /\ \A x \in Without(X, r) : Rank(Without(X, r), x) < k => Rank(X, x) < k
      BY <3>4, <3>5, PagedStep
    <3>7. /\ Paged(X, Without(s.page, r), s.skip + 1, s.full)
          /\ Paged(Without(X, r), Without(s.page, r), s.skip, s.full)
      BY <3>1, <3>2, <3>3, <3>6
    <3>8. /\ \A x \in X : Rank(X, x) < s.skip + 1 => x = r \/ Rank(X, x) < s.skip
          /\ \A x \in Without(X, r) :
                Rank(Without(X, r), x) < s.skip => Rank(X, x) < s.skip
      BY <3>2, <3>6
    <3> QED BY <3>7, <3>8
  <2>5. Without(s.page, r) = s.page \ {r} /\ Without(X, r) = X \ {r}
    BY DEF Without
  <2> QED BY <1>5, <2>4, <2>5
<1>7. \A x : Settled(s, x) => Settled(u, x)
  BY DEF Settled
<1>8. \A x \in Y : Rank(Y, x) < u.skip => Settled(u, x)
  <2>1. \A x \in X : Rank(X, x) < s.skip => Settled(u, x)
    BY <1>1, <1>2, <1>3, <1>7 DEF ThoroughIn
  <2>2. CASE Y = X /\ u.skip = s.skip + 1
    <3>1. Settled(u, r)
      BY <1>4, <2>2
    <3> QED BY <1>6, <2>1, <2>2, <3>1
  <2>3. CASE Y = X \ {r} /\ u.skip = s.skip
    BY <1>6, <2>1, <2>3
  <2> QED BY <1>5, <2>2, <2>3
<1>9. \A g \in RetentionGroups \ u.groups : \A x \in E[g] : Settled(u, x)
  <2>1. \A g \in RetentionGroups : E[g] \subseteq D[g]
    OBVIOUS
  <2> QED BY <1>7, <2>1 DEF ThoroughIn
<1>10. CASE s.page \ {r} # {}
  <2>1. t = [u EXCEPT !.page = s.page \ {r}]
    BY <1>10 DEF NextInPage
  <2>2. /\ t.page = s.page \ {r} /\ t.pc = "rec" /\ t.groups = s.groups /\ t.skip = u.skip
        /\ t.full = s.full /\ t.failed = u.failed /\ t.prot = u.prot
    BY <2>1 DEF ProcRec
  <2>3. \A x : Settled(u, x) => Settled(t, x)
    BY <2>2 DEF Settled
  <2>4. \A g \in RetentionGroups \ t.groups : \A x \in E[g] : Settled(t, x)
    BY <1>9, <2>2, <2>3
  <2>5. \A x \in E[Group(t.groups)] : Rank(E[Group(t.groups)], x) < t.skip => Settled(t, x)
    BY <1>1, <1>3, <1>8, <2>2, <2>3
  <2>6. t.groups # {} /\ Paged(E[Group(t.groups)], t.page, t.skip, t.full)
    BY <1>1, <1>2, <1>3, <1>6, <2>2
  <2> QED BY <2>4, <2>5, <2>6 DEF ThoroughIn
<1>11. CASE s.page \ {r} = {} /\ u.full
  <2>1. t = [u EXCEPT !.pc = "recs", !.page = {}]
    BY <1>11 DEF NextInPage
  <2>2. /\ t.pc = "recs" /\ t.groups = s.groups /\ t.skip = u.skip
        /\ t.failed = u.failed /\ t.prot = u.prot
    BY <2>1 DEF ProcRec
  <2>3. \A x : Settled(u, x) => Settled(t, x)
    BY <2>2 DEF Settled
  <2>4. \A g \in RetentionGroups \ t.groups : \A x \in E[g] : Settled(t, x)
    BY <1>9, <2>2, <2>3
  <2>5. \A x \in E[Group(t.groups)] : Rank(E[Group(t.groups)], x) < t.skip => Settled(t, x)
    BY <1>1, <1>3, <1>8, <2>2, <2>3
  <2> QED BY <2>2, <2>4, <2>5 DEF ThoroughIn
<1>12. CASE s.page \ {r} = {} /\ ~u.full
  <2>1. t = NextGroup(u, "recs")
    BY <1>12 DEF NextInPage
  <2>2. Cardinality(s.page \ {r}) = 0
    BY <1>12, FS_EmptySet
  <2>3. \A x \in Y : Rank(Y, x) < u.skip + 0
    BY <1>6, <1>12, <2>2 DEF Paged
  <2>4. \A x \in E[Group(u.groups)] : Settled(u, x)
    BY <1>1, <1>3, <1>4, <1>8, <2>3
  <2> QED BY <1>2, <1>9, <2>1, <2>4, GroupDone
<1> QED BY <1>10, <1>11, <1>12

(* A step of a pass that is not, or not any more, at the recordings. *)
LEMMA PassElsewhere ==
    ASSUME st'["pass"].pc \notin RecPhase
    PROVE  Thorough'
BY DEF Thorough

(* A step that does not concern the pass. *)
LEMMA PassUntouched ==
    ASSUME Thorough, rows' = rows, policy' = policy, NEW s, s = st["pass"], NEW t, t = st'["pass"],
           t.pc = s.pc, t.disturbed = s.disturbed, t.now = s.now, t.groups = s.groups,
           t.skip = s.skip, t.page = s.page, t.full = s.full, t.failed = s.failed, t.prot = s.prot
    PROVE  Thorough'
<1>1. Dues(s.now)' = Dues(s.now) /\ Simulated' = Simulated
  BY DEF Dues, Simulated, ExpiryWhere, Window, Configured
<1>2. PICK D : D = Dues(s.now)
  OBVIOUS
<1>3. ThoroughIn(s, D) => ThoroughIn(t, D)
  BY DEF ThoroughIn, Settled
<1>4. Dues(t.now)' = D
  BY <1>1, <1>2
<1> QED BY <1>1, <1>2, <1>3, <1>4 DEF Thorough

(* A step of somebody else that changes the rows. *)
LEMMA PassDisturbed ==
    ASSUME RetentionInv, st'["pass"] = Disturbed["pass"]
    PROVE  Thorough'
<1>1. st["pass"] \in ProcRec /\ "pass" \in Procs
  BY ProcFacts DEF Procs
<1>2. st'["pass"] = [st["pass"] EXCEPT !.disturbed = @ \/ Expiring]
  BY <1>1 DEF Disturbed, RetentionInv, TypeInv
<1>3. /\ st'["pass"].pc = st["pass"].pc
      /\ st'["pass"].disturbed = (st["pass"].disturbed \/ Expiring)
  BY <1>1, <1>2 DEF ProcRec
<1>4. st["pass"].pc \in RecPhase => Expiring
  BY DEF RecPhase, Expiring
<1> QED BY <1>3, <1>4 DEF Thorough

(* The recordings begin with every group, and nothing skipped. *)
LEMMA FetchClipsThorough ==
    ASSUME RetentionInv, FetchClips
    PROVE  Thorough'
<1>1. PICK s : s = st["pass"] /\ s \in ProcRec /\ "pass" \in Procs /\ st \in [Procs -> ProcRec]
  BY ProcFacts DEF Procs, RetentionInv, TypeInv
<1>2. \/ Set("pass", [s EXCEPT !.pc = "recs", !.groups = RetentionGroups, !.skip = 0,
                               !.budget = MaxPerCycle])
      \/ Set("pass", NextGroup(s, "clips"))
      \/ \E page, full : Set("pass", [s EXCEPT !.pc = "clip", !.page = page, !.full = full])
  BY <1>1 DEF FetchClips
<1>3. CASE Set("pass", NextGroup(s, "clips"))
  BY <1>1, <1>3, PassElsewhere DEF Set, NextGroup, RecPhase, ProcRec
<1>4. ASSUME NEW page, NEW full, Set("pass", [s EXCEPT !.pc = "clip", !.page = page, !.full = full])
      PROVE  Thorough'
  BY <1>1, <1>4, PassElsewhere DEF Set, RecPhase, ProcRec
<1>5. CASE Set("pass", [s EXCEPT !.pc = "recs", !.groups = RetentionGroups, !.skip = 0,
                                 !.budget = MaxPerCycle])
  <2>1. PICK t : t = st'["pass"] /\ t.pc = "recs" /\ t.groups = RetentionGroups /\ t.skip = 0
    <3>1. PICK t : t = [s EXCEPT !.pc = "recs", !.groups = RetentionGroups, !.skip = 0,
                                 !.budget = MaxPerCycle]
      OBVIOUS
    <3>2. t = st'["pass"]
      BY <1>1, <1>5, <3>1 DEF Set
    <3>3. t.pc = "recs" /\ t.groups = RetentionGroups /\ t.skip = 0
      BY <1>1, <3>1 DEF ProcRec
    <3> QED BY <3>2, <3>3
  <2>2. PICK D : D = Dues(t.now)'
    OBVIOUS
  <2>3. RetentionInv'
    BY FetchClipsKeeps
  <2>4. D \in [RetentionGroups -> SUBSET Recordings]
    BY <2>2, <2>3 DEF Dues, RetentionInv, TypeInv
  <2>5. ASSUME t.groups # {}, NEW r \in D[Group(t.groups)], Rank(D[Group(t.groups)], r) < t.skip
        PROVE  FALSE
    <3>1. Group(t.groups) \in RetentionGroups
      BY <2>1, <2>5, GroupIsLeft
    <3>2. D[Group(t.groups)] \in SUBSET Recordings
      BY <2>4, <3>1
    <3>3. Rank(D[Group(t.groups)], r) \in Nat
      BY <2>5, <3>2, Ranks
    <3> QED BY <2>1, <2>5, <3>3
  <2>6. ThoroughIn(t, D)
    BY <2>1, <2>5 DEF ThoroughIn
  <2> QED BY <2>1, <2>2, <2>6 DEF Thorough
<1> QED BY <1>2, <1>3, <1>4, <1>5

(* A page is what the query returns from skip on; without one the group is done. *)
LEMMA FetchRecsThorough ==
    ASSUME RetentionInv, Thorough, FetchRecs
    PROVE  Thorough'
<1>1. PICK s : s = st["pass"] /\ s \in ProcRec /\ "pass" \in Procs /\ st \in [Procs -> ProcRec]
  BY ProcFacts DEF Procs, RetentionInv, TypeInv
<1>2. PICK take : take = Least(BatchSize, s.budget)
  OBVIOUS
<1>3. PICK G : G = Group(s.groups)
  OBVIOUS
<1>4. PICK X : X = {r \in rows \cap G.recs : ExpiryWhere(r, Window(G.days), s.now)}
  OBVIOUS
<1>5. PICK page : page = Page(X, Older, s.skip, take)
  OBVIOUS
<1>6. PICK full \in BOOLEAN : full <=> Cardinality(page) = take
  OBVIOUS
<1>7. /\ s.pc = "recs" /\ rows' = rows /\ policy' = policy
      /\ \/ /\ ~(s.groups # {} /\ s.budget > 0)
            /\ Set("pass", [Idle EXCEPT !.pc = "events", !.now = s.now, !.prot = s.prot,
                                        !.covered = s.covered])
         \/ /\ s.groups # {} /\ s.budget > 0 /\ page = {}
            /\ Set("pass", NextGroup(s, "recs"))
         \/ /\ s.groups # {} /\ s.budget > 0 /\ page # {}
            /\ Set("pass", [s EXCEPT !.pc = "rec", !.page = page, !.full = Cardinality(page) = take])
  BY <1>1, <1>2, <1>3, <1>4, <1>5 DEF FetchRecs, db
<1>8. CASE Set("pass", [Idle EXCEPT !.pc = "events", !.now = s.now, !.prot = s.prot,
                                    !.covered = s.covered])
  BY <1>1, <1>8, PassElsewhere DEF Set, RecPhase, Idle
<1>9. SUFFICES ASSUME s.groups # {}, s.budget > 0, ~s.disturbed, ~Simulated,
                      NEW t, t = st'["pass"],
                      \/ page = {} /\ t = NextGroup(s, "recs")
                      \/ page # {} /\ t = [s EXCEPT !.pc = "rec", !.page = page, !.full = full]
               PROVE  ThoroughIn(t, Dues(s.now))
  <2>1. PICK t : t = st'["pass"]
    OBVIOUS
  <2>2. CASE s.groups # {} /\ s.budget > 0 /\ page = {} /\ Set("pass", NextGroup(s, "recs"))
    <3>1. t = NextGroup(s, "recs")
      BY <1>1, <2>1, <2>2 DEF Set
    <3>2. t.now = s.now /\ t.disturbed = s.disturbed
      BY <1>1, <3>1 DEF NextGroup, ProcRec
    <3>3. Dues(t.now)' = Dues(s.now) /\ Simulated' = Simulated
      BY <1>7, <3>2 DEF Dues, Simulated, ExpiryWhere, Window, Configured
    <3>4. ~s.disturbed /\ ~Simulated => ThoroughIn(t, Dues(s.now))
      BY <1>9, <2>1, <2>2, <3>1
    <3> QED BY <2>1, <3>2, <3>3, <3>4 DEF Thorough
  <2>3. CASE /\ s.groups # {} /\ s.budget > 0 /\ page # {}
             /\ Set("pass", [s EXCEPT !.pc = "rec", !.page = page, !.full = Cardinality(page) = take])
    <3>1. t = [s EXCEPT !.pc = "rec", !.page = page, !.full = full]
      BY <1>1, <1>6, <2>1, <2>3 DEF Set
    <3>2. t.now = s.now /\ t.disturbed = s.disturbed
      BY <1>1, <3>1 DEF ProcRec
    <3>3. Dues(t.now)' = Dues(s.now) /\ Simulated' = Simulated
      BY <1>7, <3>2 DEF Dues, Simulated, ExpiryWhere, Window, Configured
    <3>4. ~s.disturbed /\ ~Simulated => ThoroughIn(t, Dues(s.now))
      BY <1>9, <2>1, <2>3, <3>1
    <3> QED BY <2>1, <3>2, <3>3, <3>4 DEF Thorough
  <2> QED BY <1>7, <1>8, <2>2, <2>3
<1>10. PICK D \in [RetentionGroups -> SUBSET Recordings] : D = Dues(s.now)
  BY DuesTyped
<1>11. ThoroughIn(s, D)
  BY <1>1, <1>7, <1>9, <1>10 DEF Thorough, RecPhase
<1>12. G \in s.groups /\ G \in RetentionGroups
  BY <1>1, <1>3, <1>9, GroupIsLeft DEF ProcRec
<1>13. D[G] = X /\ X \in SUBSET Recordings
  BY <1>4, <1>10, <1>12 DEF Dues
<1>14. take \in Nat /\ s.skip \in Nat /\ take > 0
  BY <1>1, <1>2, <1>9, RetentionConstants DEF Least, ProcRec
<1>15. Paged(X, page, s.skip, full)
  BY <1>5, <1>6, <1>13, <1>14, PagedFetch
<1>16. CASE page = {} /\ t = NextGroup(s, "recs")
  <2>1. Cardinality(page) = 0 /\ ~full
    BY <1>6, <1>14, <1>16, FS_EmptySet
  <2>2. \A r \in X : Rank(X, r) < s.skip + 0
    BY <1>15, <2>1 DEF Paged
  <2>3. \A r \in D[Group(s.groups)] : Settled(s, r)
    BY <1>3, <1>9, <1>11, <1>13, <1>14, <2>2 DEF ThoroughIn
  <2>4. \A g \in RetentionGroups \ s.groups : \A r \in D[g] : Settled(s, r)
    BY <1>11 DEF ThoroughIn
  <2> QED BY <1>1, <1>9, <1>10, <1>16, <2>3, <2>4, GroupDone
<1>17. CASE page # {} /\ t = [s EXCEPT !.pc = "rec", !.page = page, !.full = full]
  <2>1. /\ t.pc = "rec" /\ t.page = page /\ t.full = full /\ t.skip = s.skip /\ t.groups = s.groups
        /\ t.failed = s.failed /\ t.prot = s.prot
    BY <1>1, <1>17 DEF ProcRec
  <2>2. \A r : Settled(s, r) => Settled(t, r)
    BY <2>1 DEF Settled
  <2>3. \A g \in RetentionGroups \ t.groups : \A r \in D[g] : Settled(t, r)
    BY <1>11, <2>1, <2>2 DEF ThoroughIn
  <2>4. \A r \in D[Group(t.groups)] : Rank(D[Group(t.groups)], r) < t.skip => Settled(t, r)
    BY <1>9, <1>11, <2>1, <2>2 DEF ThoroughIn
  <2>5. t.groups # {} /\ Paged(D[Group(t.groups)], t.page, t.skip, t.full)
    BY <1>3, <1>9, <1>13, <1>15, <2>1
  <2> QED BY <1>10, <2>3, <2>4, <2>5 DEF ThoroughIn
<1> QED BY <1>9, <1>16, <1>17

(* A recording of the page is expired; it is skipped only if it is settled. *)
LEMMA ExpireRecThorough ==
    ASSUME RetentionInv, Thorough, ExpireRec
    PROVE  Thorough'
<1>1. PICK s : /\ s = st["pass"] /\ s \in ProcRec /\ "pass" \in Procs /\ st \in [Procs -> ProcRec]
               /\ PageOK(s)
  BY ProcFacts DEF Procs, RetentionInv, TypeInv
<1>2. PICK r : r = First(s.page, Older)
  OBVIOUS
<1>3. PICK G : G = Group(s.groups)
  OBVIOUS
<1>4. PICK t : t = st'["pass"]
  OBVIOUS
<1>5. /\ s.pc = "rec" /\ rows' = rows /\ policy' = policy
      /\ \/ ~IsExpiredByAge(r, Window(G.days), s.now) /\ t = NextInPage(Skip(s), r, "recs")
         \/ Simulated /\ \E n : t = NextInPage([Skip(s) EXCEPT !.budget = n], r, "recs")
         \/ Simulated /\ t = NextInPage(Skip(s), r, "recs")
         \/ ~MayDelete(s, r) /\ t = NextInPage(Skip(s), r, "recs")
         \/ \E c : t = [s EXCEPT !.pc = "recTx", !.clips = c]
  BY <1>1, <1>2, <1>3, <1>4 DEF ExpireRec, Set, Simulated, db
<1>6. CASE Simulated
  BY <1>5, <1>6 DEF Thorough, Simulated
<1>7. CASE s.disturbed
  <2>1. NextInPage(Skip(s), r, "recs").disturbed = s.disturbed
    <3>1. PICK u : u = Skip(s)
      OBVIOUS
    <3>2. s.skip + 1 \in Nat
      BY <1>1 DEF ProcRec
    <3>3. u \in ProcRec /\ u.disturbed = s.disturbed
      BY <1>1, <3>1, <3>2 DEF Skip, ProcRec
    <3>4. NextInPage(u, r, "recs").disturbed = u.disturbed
      BY <3>3 DEF NextInPage, NextGroup, ProcRec
    <3> QED BY <3>1, <3>3, <3>4
  <2>2. \A c : [s EXCEPT !.pc = "recTx", !.clips = c].disturbed = s.disturbed
    BY <1>1 DEF ProcRec
  <2>3. Simulated \/ t.disturbed = s.disturbed
    BY <1>5, <2>1, <2>2
  <2> QED BY <1>4, <1>5, <1>6, <1>7, <2>3 DEF Thorough
<1>8. CASE ~Simulated /\ ~s.disturbed
  <2>1. PICK D \in [RetentionGroups -> SUBSET Recordings] : D = Dues(s.now)
    BY DuesTyped
  <2>2. ThoroughIn(s, D)
    BY <1>1, <1>5, <1>8, <2>1 DEF Thorough, RecPhase
  <2>3. /\ s.page # {} /\ s.page \subseteq Recordings /\ r \in s.page
    BY <1>1, <1>2, <1>5, RecFirst DEF PageOK, AtRecs
  <2>4. G \in RetentionGroups /\ r \in D[G] /\ s.groups # {}
    <3>1. s.groups # {} /\ s.page \subseteq D[G]
      BY <1>3, <1>5, <2>2 DEF ThoroughIn, Paged
    <3> QED BY <1>1, <1>3, <2>3, <3>1, GroupIsLeft DEF ProcRec
  <2>5. r \in Recordings /\ ExpiryWhere(r, Window(G.days), s.now) /\ s.now \in Int
    BY <1>1, <2>1, <2>3, <2>4 DEF Dues, ProcRec
  <2>6. IsExpiredByAge(r, Window(G.days), s.now)
    BY <2>4, <2>5, FilterAndRule DEF RetentionInv
  <2>7. ASSUME t = NextInPage(Skip(s), r, "recs"), ~MayDelete(s, r)
        PROVE  ThoroughIn(t, D) /\ t.now = s.now
    <3>1. PICK u : u = Skip(s)
      OBVIOUS
    <3>2. s.skip \in Nat /\ s.skip + 1 \in Nat
      BY <1>1 DEF ProcRec
    <3>3. /\ u \in ProcRec /\ u.page = s.page /\ u.groups = s.groups /\ u.full = s.full
          /\ u.pc = "rec" /\ u.failed = s.failed /\ u.prot = s.prot /\ u.skip = s.skip + 1
          /\ u.now = s.now
      BY <1>1, <1>5, <3>1, <3>2 DEF Skip, ProcRec
    <3>4. Settled(u, r)
      <4>1. r \in s.prot.rec \/ \E k \in Clips : Source[k] = r /\ k \in s.prot.clip
        BY <2>7 DEF MayDelete, ClipsOf, RetentionInv, TypeInv
      <4> QED BY <3>3, <4>1 DEF Settled
    <3>5. t = NextInPage(u, r, "recs")
      BY <2>7, <3>1
    <3>6. ThoroughIn(t, D)
      BY <1>1, <1>2, <1>5, <2>2, <2>3, <3>3, <3>4, <3>5, RowHandled
    <3>7. t.now = u.now
      BY <3>3, <3>5 DEF NextInPage, NextGroup, ProcRec
    <3> QED BY <3>3, <3>6, <3>7
  <2>8. ASSUME NEW c, t = [s EXCEPT !.pc = "recTx", !.clips = c]
        PROVE  ThoroughIn(t, D) /\ t.now = s.now
    <3>1. /\ t.pc = "recTx" /\ t.page = s.page /\ t.full = s.full /\ t.skip = s.skip
          /\ t.groups = s.groups /\ t.failed = s.failed /\ t.prot = s.prot /\ t.now = s.now
      BY <1>1, <2>8 DEF ProcRec
    <3> QED BY <1>5, <2>2, <3>1 DEF ThoroughIn, Settled
  <2>9. ThoroughIn(t, D) /\ t.now = s.now
    BY <1>5, <1>8, <2>6, <2>7, <2>8
  <2>10. Dues(s.now)' = D
    <3>1. PICK n : n = s.now
      OBVIOUS
    <3>2. rows' = rows /\ policy' = policy
      BY <1>5
    <3>3. \A b : Window(b)' = Window(b)
      BY <3>2 DEF Window, Configured
    <3>4. Dues(n)' = Dues(n)
      BY <3>2, <3>3 DEF Dues, ExpiryWhere
    <3> QED BY <2>1, <3>1, <3>4
  <2> QED BY <1>4, <2>9, <2>10 DEF Thorough
<1> QED BY <1>6, <1>7, <1>8

(* A deleted recording leaves every result; a failed one is settled. *)
LEMMA ExpireRecTxThorough ==
    ASSUME RetentionInv, Thorough, NEW ok \in BOOLEAN, ExpireRecTx(ok)
    PROVE  Thorough'
<1>1. PICK s : /\ s = st["pass"] /\ s \in ProcRec /\ "pass" \in Procs /\ st \in [Procs -> ProcRec]
               /\ PageOK(s)
  BY ProcFacts DEF Procs, RetentionInv, TypeInv
<1>2. PICK r : r = First(s.page, Older)
  OBVIOUS
<1>3. PICK t : t = st'["pass"]
  OBVIOUS
<1>4. /\ s.pc = "recTx" /\ policy' = policy
      /\ \/ /\ rows' = rows \ {r}
            /\ SetRows("pass", NextInPage([s EXCEPT !.pc = "rec", !.clips = {},
                                                    !.budget = @ - 1], r, "recs"))
         \/ /\ rows' = rows
            /\ Set("pass", NextInPage([Skip(s) EXCEPT !.pc = "rec", !.clips = {},
                                                      !.failed = @ \cup {r}], r, "recs"))
  BY <1>1, <1>2 DEF ExpireRecTx, RemoveRow
<1>5. s.page # {} /\ s.page \subseteq Recordings /\ r \in s.page /\ r \in Recordings
  BY <1>1, <1>2, <1>4, RecFirst DEF PageOK, AtRecs
<1>6. /\ s.skip \in Nat /\ s.budget \in Nat /\ s.failed \subseteq Recordings
      /\ Cardinality(s.page) <= s.budget /\ Cardinality(s.page) \in Nat /\ Cardinality(s.page) > 0
  BY <1>1, <1>4, <1>5, RecFirst DEF ProcRec, PageOK, InPass
<1>7. PICK n \in Nat, m \in Nat, f \in SUBSET Recordings :
         /\ \/ n = s.skip + 1 /\ m = s.budget /\ f = s.failed \cup {r} /\ rows' = rows
            \/ n = s.skip /\ m = s.budget - 1 /\ f = s.failed /\ rows' = rows \ {r}
         /\ t = NextInPage([s EXCEPT !.pc = "rec", !.clips = {}, !.skip = n, !.budget = m,
                                     !.failed = f], r, "recs")
  <2>1. CASE /\ rows' = rows \ {r}
             /\ SetRows("pass", NextInPage([s EXCEPT !.pc = "rec", !.clips = {},
                                                     !.budget = @ - 1], r, "recs"))
    <3>1. [s EXCEPT !.pc = "rec", !.clips = {}, !.budget = @ - 1]
          = [s EXCEPT !.pc = "rec", !.clips = {}, !.skip = s.skip, !.budget = s.budget - 1,
                      !.failed = s.failed]
      BY <1>1 DEF ProcRec
    <3>2. t = NextInPage([s EXCEPT !.pc = "rec", !.clips = {}, !.skip = s.skip,
                                   !.budget = s.budget - 1, !.failed = s.failed], r, "recs")
      BY <1>1, <1>3, <2>1, <3>1, DisturbedOK DEF SetRows
    <3>3. s.budget - 1 \in Nat
      BY <1>6
    <3> QED BY <1>6, <2>1, <3>2, <3>3
  <2>2. CASE /\ rows' = rows
             /\ Set("pass", NextInPage([Skip(s) EXCEPT !.pc = "rec", !.clips = {},
                                                       !.failed = @ \cup {r}], r, "recs"))
    <3>1. [Skip(s) EXCEPT !.pc = "rec", !.clips = {}, !.failed = @ \cup {r}]
          = [s EXCEPT !.pc = "rec", !.clips = {}, !.skip = s.skip + 1, !.budget = s.budget,
                      !.failed = s.failed \cup {r}]
      BY <1>1 DEF ProcRec, Skip
    <3>2. t = NextInPage([s EXCEPT !.pc = "rec", !.clips = {}, !.skip = s.skip + 1,
                                   !.budget = s.budget, !.failed = s.failed \cup {r}], r, "recs")
      BY <1>1, <1>3, <2>2, <3>1 DEF Set
    <3>3. s.skip + 1 \in Nat /\ s.failed \cup {r} \in SUBSET Recordings
      BY <1>5, <1>6
    <3> QED BY <1>6, <2>2, <3>2, <3>3
  <2> QED BY <1>4, <2>1, <2>2
<1>8. PICK u : u = [s EXCEPT !.pc = "rec", !.clips = {}, !.skip = n, !.budget = m, !.failed = f]
  OBVIOUS
<1>9. /\ u \in ProcRec /\ u.page = s.page /\ u.groups = s.groups /\ u.full = s.full
      /\ u.pc = "rec" /\ u.failed = f /\ u.prot = s.prot /\ u.skip = n
      /\ u.now = s.now /\ u.disturbed = s.disturbed
  BY <1>1, <1>8 DEF ProcRec, Pcs
<1>10. t = NextInPage(u, r, "recs") /\ t.now = s.now /\ t.disturbed = s.disturbed
  <2>1. t = NextInPage(u, r, "recs")
    BY <1>7, <1>8
  <2>2. t.now = u.now /\ t.disturbed = u.disturbed
    BY <1>9, <2>1 DEF NextInPage, NextGroup, ProcRec
  <2> QED BY <1>9, <2>1, <2>2
<1>11. CASE Simulated \/ s.disturbed
  BY <1>3, <1>4, <1>10, <1>11 DEF Thorough, Simulated
<1>12. CASE ~Simulated /\ ~s.disturbed
  <2>1. PICK D \in [RetentionGroups -> SUBSET Recordings] : D = Dues(s.now)
    BY DuesTyped
  <2>2. ThoroughIn(s, D)
    BY <1>1, <1>4, <1>12, <2>1 DEF Thorough, RecPhase
  <2>3. PICK E : E = Dues(s.now)'
    OBVIOUS
  <2>4. E \in [RetentionGroups -> SUBSET Recordings]
    <3>1. RetentionInv'
      BY ExpireRecTxKeeps
    <3> QED BY <2>3, <3>1 DEF Dues, RetentionInv, TypeInv
  <2>5. rows' = rows => E = D
    BY <1>4, <2>1, <2>3 DEF Dues, ExpiryWhere, Window, Configured
  <2>6. rows' = rows \ {r} => \A g \in RetentionGroups : E[g] = D[g] \ {r}
    BY <1>4, <2>1, <2>3 DEF Dues, ExpiryWhere, Window, Configured
  <2>7. r \in f => Settled(u, r)
    BY <1>9 DEF Settled
  <2>8. \/ u.skip = s.skip + 1 /\ E = D /\ Settled(u, r)
        \/ u.skip = s.skip /\ \A g \in RetentionGroups : E[g] = D[g] \ {r}
    BY <1>7, <1>9, <2>5, <2>6, <2>7
  <2>9. s.failed \subseteq u.failed
    BY <1>7, <1>9
  <2>10. ThoroughIn(t, E)
    BY <1>1, <1>2, <1>4, <1>5, <1>9, <1>10, <2>2, <2>4, <2>8, <2>9, RowHandled
  <2> QED BY <1>3, <1>10, <2>3, <2>10 DEF Thorough
<1> QED BY <1>11, <1>12

(* Clips, events and the guardian come before and after the recordings. *)
LEMMA PassOutside ==
    ASSUME RetentionInv,
           \/ PassStart \/ ExpireEvents \/ Work("pass")
           \/ \E ok \in BOOLEAN : ExpireClip(ok) \/ GuardStart("pass", ok)
    PROVE  st'["pass"].pc \notin RecPhase
<1>1. PICK s : s = st["pass"] /\ s \in ProcRec /\ "pass" \in Procs /\ st \in [Procs -> ProcRec]
  BY ProcFacts DEF Procs, RetentionInv, TypeInv
<1>2. Idle.pc = "idle" /\ DOMAIN Disturbed = Procs
  BY <1>1 DEF Idle, Disturbed
<1>3. CASE PassStart
  BY <1>1, <1>3 DEF PassStart, Set, Idle, RecPhase
<1>4. CASE ExpireEvents
  BY <1>1, <1>4 DEF ExpireEvents, Set, ProcRec, RecPhase
<1>5. ASSUME NEW ok \in BOOLEAN, ExpireClip(ok)
      PROVE  st'["pass"].pc \notin RecPhase
  <2>1. PICK k : k = First(s.page, OlderClip)
    OBVIOUS
  <2>2. PICK u : /\ u \in {[s EXCEPT !.budget = @ - 1], [s EXCEPT !.skip = @ + 1]}
                 /\ st'["pass"] = NextInPage(u, k, "clips")
    BY <1>1, <1>5, <2>1 DEF ExpireClip, Set, Skip
  <2>3. u.pc = "clip" /\ DOMAIN u = DOMAIN s
    BY <1>1, <1>5, <2>2 DEF ExpireClip, ProcRec
  <2>4. NextInPage(u, k, "clips").pc \in {"clip", "clips"}
    <3>1. "pc" \in DOMAIN u
      BY <1>1, <2>3 DEF ProcRec
    <3> QED BY <2>3, <3>1 DEF NextInPage, NextGroup
  <2> QED BY <2>2, <2>4 DEF RecPhase
<1>6. ASSUME NEW auto \in BOOLEAN, GuardStart("pass", auto)
      PROVE  st'["pass"].pc \notin RecPhase
  <2>1. CASE Set("pass", Idle)
    BY <1>1, <1>2, <2>1 DEF Set, RecPhase
  <2>2. ASSUME NEW n, NEW q, NEW c,
               Set("pass", [s EXCEPT !.pc = "guard", !.current = n, !.prot = q, !.covered = c])
        PROVE  st'["pass"].pc \notin RecPhase
    BY <1>1, <2>2 DEF Set, ProcRec, RecPhase
  <2>3. \/ Set("pass", Idle)
        \/ Set("pass", [s EXCEPT !.pc = "guard", !.current = Percent, !.prot = s.prot,
                                 !.covered = s.covered])
    BY <1>1, <1>6 DEF GuardStart
  <2> QED BY <2>1, <2>2, <2>3
<1>7. CASE Work("pass")
  <2>1. NextInBatch(s).pc \in {"guardRec", "measure"}
        /\ [NextInBatch(s) EXCEPT !.batchDeleted = @ + 1, !.wasted = @ + 1].pc \in {"guardRec", "measure"}
    BY <1>1 DEF NextInBatch, ProcRec
  <2>2. CASE GuardFetch("pass")
    <3>1. PICK page : \/ Set("pass", Idle)
                      \/ Set("pass", [s EXCEPT !.pc = "guardRec", !.page = page, !.batchDeleted = 0])
      BY <1>1, <2>2 DEF GuardFetch
    <3>2. CASE Set("pass", Idle)
      BY <1>1, <1>2, <3>2 DEF Set, RecPhase
    <3>3. CASE Set("pass", [s EXCEPT !.pc = "guardRec", !.page = page, !.batchDeleted = 0])
      <4>1. PICK v : v = [s EXCEPT !.pc = "guardRec", !.page = page, !.batchDeleted = 0]
        OBVIOUS
      <4>2. v.pc = "guardRec"
        BY <1>1, <4>1 DEF ProcRec
      <4> QED BY <1>1, <3>3, <4>1, <4>2 DEF Set, RecPhase
    <3> QED BY <3>1, <3>2, <3>3
  <2>3. CASE GuardRec("pass")
    <3>1. PICK c : \/ Set("pass", NextInBatch(s))
                   \/ Set("pass", [s EXCEPT !.pc = "guardTx", !.clips = c])
      BY <1>1, <2>3 DEF GuardRec
    <3>2. CASE Set("pass", NextInBatch(s))
      BY <1>1, <2>1, <3>2 DEF Set, RecPhase
    <3>3. CASE Set("pass", [s EXCEPT !.pc = "guardTx", !.clips = c])
      BY <1>1, <3>3 DEF Set, ProcRec, RecPhase
    <3> QED BY <3>1, <3>2, <3>3
  <2>4. CASE GuardMeasure("pass")
    <3>1. AfterBatch(s, Percent).pc \in {"idle", "guard"}
      BY <1>1, <1>2 DEF AfterBatch, ProcRec
    <3> QED BY <1>1, <2>4, <3>1 DEF GuardMeasure, Set, RecPhase
  <2>5. ASSUME NEW ok \in BOOLEAN, GuardTx("pass", ok)
        PROVE  st'["pass"].pc \notin RecPhase
    <3>1. \/ Set("pass", NextInBatch(s))
          \/ SetRows("pass", [NextInBatch(s) EXCEPT !.batchDeleted = @ + 1, !.wasted = @ + 1])
      BY <1>1, <2>5 DEF GuardTx
    <3>2. CASE Set("pass", NextInBatch(s))
      BY <1>1, <2>1, <3>2 DEF Set, RecPhase
    <3>3. CASE SetRows("pass", [NextInBatch(s) EXCEPT !.batchDeleted = @ + 1, !.wasted = @ + 1])
      BY <1>1, <1>2, <2>1, <3>3 DEF SetRows, RecPhase
    <3> QED BY <3>1, <3>2, <3>3
  <2> QED BY <1>7, <2>2, <2>3, <2>4, <2>5 DEF Work
<1> QED BY <1>3, <1>4, <1>5, <1>6, <1>7

(* What the others do to the pass: nothing, or they disturb it. *)
LEMMA OthersAndPass ==
    ASSUME RetentionInv,
           GuardStart("guard", TRUE) \/ Work("guard") \/ Environment \/ UNCHANGED vars
    PROVE  /\ st'["pass"].pc = st["pass"].pc /\ policy' = policy
           /\ \/ st'["pass"] = Disturbed["pass"]
              \/ /\ rows' = rows
                 /\ \E c : st'["pass"] = [st["pass"] EXCEPT !.covered = c]
<1>1. PICK s : s = st["pass"] /\ s \in ProcRec /\ "pass" \in Procs /\ st \in [Procs -> ProcRec]
  BY ProcFacts DEF Procs, RetentionInv, TypeInv
<1>2. s = [s EXCEPT !.covered = s.covered] /\ \A c : [s EXCEPT !.covered = c].pc = s.pc
  BY <1>1 DEF ProcRec
<1>3. Disturbed["pass"].pc = s.pc /\ DOMAIN Disturbed = Procs
  BY <1>1, DisturbedOK DEF Disturbed
<1>4. CASE st'["pass"] = s /\ rows' = rows /\ policy' = policy
  BY <1>1, <1>2, <1>4
<1>5. \A t : Set("guard", t) => st'["pass"] = s
  BY <1>1 DEF Set
<1>6. \A t : SetRows("guard", t) => st'["pass"] = Disturbed["pass"]
  BY <1>1, <1>3 DEF SetRows
<1>7. CASE GuardStart("guard", TRUE)
  BY <1>4, <1>5, <1>7 DEF GuardStart, db
<1>8. CASE GuardFetch("guard") \/ GuardRec("guard") \/ GuardMeasure("guard")
  BY <1>4, <1>5, <1>8 DEF GuardFetch, GuardRec, GuardMeasure, db
<1>9. ASSUME NEW ok \in BOOLEAN, GuardTx("guard", ok)
      PROVE  /\ policy' = policy
             /\ \/ st'["pass"] = Disturbed["pass"]
                \/ rows' = rows /\ st'["pass"] = s
  BY <1>5, <1>6, <1>9 DEF GuardTx
<1>10. CASE Work("guard")
  BY <1>1, <1>2, <1>3, <1>8, <1>9, <1>10 DEF Work
<1>11. ASSUME NEW r \in Late, Register(r)
       PROVE  st'["pass"] = Disturbed["pass"] /\ policy' = policy
  BY <1>11 DEF Register, proc
<1>12. ASSUME NEW h \in HoldRows, WriteHold(h)
       PROVE  /\ policy' = policy /\ rows' = rows
              /\ \E c : st'["pass"] = [st["pass"] EXCEPT !.covered = c]
  BY <1>1, <1>12 DEF WriteHold, Covered, db, proc
<1>13. ASSUME \/ \E k \in Clips : ExportFile(k) \/ ExportRow(k)
              \/ NextDay \/ OutsideGrows \/ UNCHANGED vars
       PROVE  st'["pass"] = s /\ rows' = rows /\ policy' = policy
  BY <1>1, <1>13 DEF ExportFile, ExportRow, NextDay, OutsideGrows, vars, db, proc
<1>14. CASE Environment
  <2>1. CASE \E r \in Late : Register(r)
    BY <1>1, <1>3, <1>11, <2>1
  <2>2. CASE \E h \in HoldRows : WriteHold(h)
    BY <1>1, <1>2, <1>12, <2>2
  <2>3. CASE (\E k \in Clips : ExportFile(k) \/ ExportRow(k)) \/ NextDay \/ OutsideGrows
    BY <1>4, <1>13, <2>3
  <2> QED BY <1>14, <2>1, <2>2, <2>3 DEF Environment
<1> QED BY <1>4, <1>7, <1>10, <1>13, <1>14

(* Every step keeps a pass thorough. *)
LEMMA ThoroughGoesOn ==
    ASSUME RetentionInv, Thorough, [Next]_vars
    PROVE  Thorough'
<1>1. CASE \/ PassStart \/ ExpireEvents \/ Work("pass")
           \/ \E ok \in BOOLEAN : ExpireClip(ok) \/ GuardStart("pass", ok)
  BY <1>1, PassOutside, PassElsewhere
<1>2. CASE GuardStart("guard", TRUE) \/ Work("guard") \/ Environment \/ UNCHANGED vars
  <2>1. PICK s, t : s = st["pass"] /\ t = st'["pass"] /\ s \in ProcRec
    BY ProcFacts DEF Procs
  <2>2. CASE t = Disturbed["pass"]
    BY <2>1, <2>2, PassDisturbed
  <2>3. ASSUME NEW c, t = [s EXCEPT !.covered = c], rows' = rows, policy' = policy
        PROVE  Thorough'
    <3>1. /\ t.pc = s.pc /\ t.disturbed = s.disturbed /\ t.now = s.now /\ t.groups = s.groups
          /\ t.skip = s.skip /\ t.page = s.page /\ t.full = s.full /\ t.failed = s.failed
          /\ t.prot = s.prot
      BY <2>1, <2>3 DEF ProcRec
    <3> QED BY <2>1, <2>3, <3>1, PassUntouched
  <2> QED BY <1>2, <2>1, <2>2, <2>3, OthersAndPass
<1>3. CASE PassWork
  BY <1>1, <1>3, FetchClipsThorough, FetchRecsThorough, ExpireRecThorough, ExpireRecTxThorough
     DEF PassWork
<1> QED BY <1>1, <1>2, <1>3 DEF Next

(* Every recording has a group, and with it the window of its camera. *)
LEMMA EveryRecordingGrouped ==
    ASSUME NEW r \in Recordings
    PROVE  \E g \in RetentionGroups : r \in g.recs /\ g.days = GroupDays(r)
<1>1. CASE CameraOf[r] \in DOMAIN CameraDays
  <2>1. PICK g : g = GroupOf(DaysOf(CameraOf[r]))
    OBVIOUS
  <2>2. g \in RetentionGroups
    BY <1>1, <2>1 DEF RetentionGroups, CameraGroups
  <2>3. r \in g.recs /\ g.days = GroupDays(r)
    BY <1>1, <2>1 DEF GroupOf, GroupDays
  <2> QED BY <2>2, <2>3
<1>2. CASE CameraOf[r] \notin DOMAIN CameraDays
  <2>1. Orphans \in RetentionGroups
    BY DEF RetentionGroups
  <2>2. r \in Orphans.recs /\ Orphans.days = GlobalDays
    BY <1>2 DEF Orphans
  <2>3. GroupDays(r) = GlobalDays
    BY <1>2 DEF GroupDays
  <2> QED BY <2>1, <2>2, <2>3
<1> QED BY <1>1, <1>2

(* When a pass ends in its budget and undisturbed, every expired recording is
   settled. *)
LEMMA EndIsThorough ==
    ASSUME RetentionInv, Thorough, [Next]_vars, NEW s, s = st["pass"],
           s.pc = "recs", st'["pass"].pc = "events", s.budget > 0, ~s.disturbed, ~Simulated,
           NEW r \in rows, Expired(r, s.now)
    PROVE  Settled(s, r)
<1>1. s \in ProcRec /\ "pass" \in Procs /\ st \in [Procs -> ProcRec]
  BY ProcFacts DEF Procs, RetentionInv, TypeInv
<1>2. ~(GuardStart("guard", TRUE) \/ Work("guard") \/ Environment \/ UNCHANGED vars)
  BY OthersAndPass
<1>3. FetchRecs
  BY <1>2 DEF Next, PassStart, PassWork, FetchClips, ExpireRec, ExpireEvents, ExpireClip, ExpireRecTx,
              GuardStart, Work, GuardFetch, GuardRec, GuardMeasure, GuardTx
<1>4. s.groups = {}
  <2>1. ASSUME s.groups # {}
        PROVE  FALSE
    <3>1. PICK page, full :
             \/ Set("pass", NextGroup(s, "recs"))
             \/ Set("pass", [s EXCEPT !.pc = "rec", !.page = page, !.full = full])
      BY <1>3, <2>1 DEF FetchRecs
    <3>2. st'["pass"].pc \in {"recs", "rec"}
      <4>1. CASE Set("pass", NextGroup(s, "recs"))
        <5>1. PICK gs : gs = s.groups \ {Group(s.groups)}
          OBVIOUS
        <5>2. PICK v : v = [s EXCEPT !.pc = "recs", !.groups = gs, !.skip = 0, !.page = {}]
          OBVIOUS
        <5>3. v.pc = "recs"
          BY <1>1, <5>2 DEF ProcRec
        <5>4. v = NextGroup(s, "recs")
          BY <1>1, <5>1, <5>2 DEF NextGroup, ProcRec
        <5> QED BY <1>1, <4>1, <5>3, <5>4 DEF Set
      <4>2. CASE Set("pass", [s EXCEPT !.pc = "rec", !.page = page, !.full = full])
        <5>1. PICK v : v = [s EXCEPT !.pc = "rec", !.page = page, !.full = full]
          OBVIOUS
        <5>2. v.pc = "rec"
          BY <1>1, <5>1 DEF ProcRec
        <5> QED BY <1>1, <4>2, <5>1, <5>2 DEF Set
      <4> QED BY <3>1, <4>1, <4>2
    <3> QED BY <3>2
  <2> QED BY <2>1
<1>5. ThoroughIn(s, Dues(s.now))
  BY DEF Thorough, RecPhase
<1>6. r \in Recordings /\ s.now \in Int
  BY <1>1 DEF RetentionInv, TypeInv, ProcRec
<1>7. PICK g \in RetentionGroups : r \in g.recs /\ g.days = GroupDays(r)
  BY <1>6, EveryRecordingGrouped
<1>8. IsExpiredByAge(r, Window(g.days), s.now)
  BY <1>7 DEF Expired
<1>9. ExpiryWhere(r, Window(g.days), s.now)
  BY <1>6, <1>7, <1>8, FilterAndRule DEF RetentionInv
<1>10. r \in Dues(s.now)[g]
  BY <1>7, <1>9 DEF Dues
<1> QED BY <1>4, <1>5, <1>10 DEF ThoroughIn

(* The pages of expireRecordingsInBatches miss nothing: a pass that ends within
   its budget, with nobody else deleting or registering meanwhile, leaves only
   expired recordings that are protected or could not be deleted, whatever was
   skipped or deleted on the pages before them. *)
THEOREM PassMissesNothing == Spec => PassThorough
<1>1. Init => Thorough
  BY DEF Init, Thorough, Idle, RecPhase, Procs
<1>2. RetentionInv /\ Thorough /\ [Next]_vars => Thorough'
  BY ThoroughGoesOn
<1>3. ASSUME RetentionInv, Thorough, [Next]_vars
      PROVE  [LET s == st["pass"]
              IN  s.pc = "recs" /\ st'["pass"].pc = "events" /\ s.budget > 0 /\ ~s.disturbed /\ ~Simulated
                  => \A r \in rows : Expired(r, s.now) =>
                        \/ r \in s.failed \cup s.prot.rec
                        \/ \E k \in Clips : Source[k] = r /\ k \in s.prot.clip]_vars
  BY <1>3, EndIsThorough DEF Settled
<1>4. Spec => []Thorough
  BY <1>1, <1>2, RetentionInvHolds, PTL DEF Spec
<1> QED BY <1>3, <1>4, RetentionInvHolds, PTL DEF Spec, PassThorough
=============================================================================
