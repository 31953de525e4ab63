-------------------------- MODULE CloudOffloadProofs --------------------------
(***************************************************************************)
(* No recording is lost to the offload, and the rows tell the truth, for   *)
(* any number of recordings, of overlapping cycles, of storages and        *)
(* policies, and of failures and crashes.                                  *)
(*                                                                         *)
(* The argument: an object is never removed, so what a cycle has confirmed *)
(* stays true over every await.  A cycle that is about to mark a row has   *)
(* seen the object; a cycle that removes files has read rows that were     *)
(* marked; and a file that was removed does not come back, because an id   *)
(* is given out once.  A file that a deletion has staged may come back: it *)
(* still counts as there (Sure), until a removal fails to find it.         *)
(***************************************************************************)
EXTENDS CloudOffload, WellFoundedInduction, TLAPS

Pcs == {"idle", "config", "pending", "upload", "confirm", "mark", "prune", "unlink", "stamp"}
Working == {"upload", "confirm", "mark", "unlink", "stamp"}

CycleRec == [pc : Pcs, cfg : Provisions \cup {Null}, page : SUBSET Recordings]

TypeInv ==
    /\ made \subseteq Recordings /\ rows \subseteq made
    /\ local \subseteq made /\ staged \subseteq made /\ localDeleted \subseteq made
    /\ uploadedAt \in [Recordings -> Nat \cup {Null}]
    /\ provision \in Provisions \cup {Null} /\ now \in Nat
    /\ cy \in [Cycles -> CycleRec]

(* The files that are there, or may come back, and that no removal has missed. *)
Sure == (local \cup staged) \ misled

(* What a cycle relies on between two awaits. *)
CycleOK(c) ==
    /\ c.page \subseteq made
    /\ c.pc \in Working => c.page # {}
    /\ c.pc = "mark" => Archived(Min(c.page))
    /\ c.pc \in {"unlink", "stamp"} => \A r \in c.page : Archived(r)
    /\ c.pc = "stamp" => Min(c.page) \notin Sure

(* The inductive invariant.  It speaks of the marks of all recordings, also of
   those whose row is gone: a cycle may still be at work on them. *)
OffloadInv ==
    /\ TypeInv
    /\ \A i \in Cycles : CycleOK(cy[i])
    /\ \A r \in Recordings : uploadedAt[r] # Null => Archived(r)
    /\ localDeleted \cap Sure = {}
    /\ NothingLost

-----------------------------------------------------------------------------
(* The oldest recording of a page is one of the page. *)
LEMMA OldestOfPage ==
    ASSUME NEW page \in SUBSET Recordings, page # {}
    PROVE  Min(page) \in page
<1>1. page \subseteq Nat
  BY OffloadConstants
<1> DEFINE R == OpToRel(<, Nat)
<1>2. IsWellFoundedOn(R, Nat)
  BY NatLessThanWellFounded
<1>3. \A x, y \in Nat : <<y, x>> \in R \/ x =< y
  BY DEF OpToRel
<1> HIDE DEF R
<1>4. PICK x \in page : \A y \in page : ~(<<y, x>> \in R)
  BY <1>1, <1>2, WFMin
<1>5. \A y \in page : x =< y
  <2> TAKE y \in page
  <2>1. x \in Nat /\ y \in Nat /\ ~(<<y, x>> \in R)
    BY <1>1, <1>4
  <2> QED BY <2>1, <1>3
<1> QED BY <1>5 DEF Min

(* What is archived stays archived while no object is removed. *)
LEMMA ArchivedStays ==
    ASSUME objects \subseteq objects', NEW r, Archived(r)
    PROVE  Archived(r)'
BY DEF Archived

(* A step of one cycle that gives out no id, removes no object and brings no
   file back disturbs no other cycle. *)
LEMMA OtherCyclesKeep ==
    ASSUME OffloadInv, NEW i \in Cycles, NEW s \in CycleRec, Set(i, s),
           made' = made, objects \subseteq objects', Sure' \subseteq Sure,
           CycleOK(s)'
    PROVE  /\ cy' \in [Cycles -> CycleRec]
           /\ (\A j \in Cycles : CycleOK(cy[j]))'
<1>1. cy' \in [Cycles -> CycleRec] /\ cy'[i] = s /\ \A j \in Cycles : j # i => cy'[j] = cy[j]
  BY DEF OffloadInv, TypeInv, Set
<1>2. ASSUME NEW j \in Cycles, j # i
      PROVE  CycleOK(cy[j])'
  <2>1. CycleOK(cy[j]) /\ cy'[j] = cy[j]
    BY <1>1, <1>2 DEF OffloadInv
  <2>2. PICK c : c = cy[j] /\ CycleOK(c)
    BY <2>1
  <2>3. CycleOK(cy[j])' <=> /\ c.page \subseteq made'
                            /\ c.pc \in Working => c.page # {}
                            /\ c.pc = "mark" => Archived(Min(c.page))'
                            /\ c.pc \in {"unlink", "stamp"} => \A r \in c.page : Archived(r)'
                            /\ c.pc = "stamp" => Min(c.page) \notin Sure'
    BY <2>1, <2>2 DEF CycleOK, Archived
  <2>4. \A r : Archived(r) => Archived(r)'
    BY ArchivedStays
  <2> QED BY <2>2, <2>3, <2>4 DEF CycleOK
<1>3. CycleOK(cy[i])'
  BY <1>1 DEF CycleOK
<1> QED BY <1>1, <1>2, <1>3

(* The same, when nothing of the data changes: what most steps of a cycle do. *)
LEMMA CycleGoesOn ==
    ASSUME OffloadInv, NEW i \in Cycles, NEW s \in CycleRec, Set(i, s),
           CycleOK(s), UNCHANGED <<data, provision, now>>
    PROVE  OffloadInv'
<1>1. CycleOK(s)'
  BY DEF CycleOK, data, files, Sure, Archived
<1>2. cy' \in [Cycles -> CycleRec] /\ (\A j \in Cycles : CycleOK(cy[j]))'
  BY <1>1, OtherCyclesKeep DEF data, files, Sure
<1> QED BY <1>2 DEF OffloadInv, TypeInv, NothingLost, Archived, data, files, Sure

(* A cycle that is at rest needs nothing. *)
LEMMA IdleOK == Idle \in CycleRec /\ CycleOK(Idle)
BY DEF Idle, CycleRec, CycleOK, Pcs, Working

(* The next lemmas take the actions of a cycle one by one: the flag is read. *)
LEMMA BeginKeeps ==
    ASSUME OffloadInv, NEW i \in Cycles, Begin(i)
    PROVE  OffloadInv'
<1> DEFINE s == [Idle EXCEPT !.pc = "config"]
<1>1. s \in CycleRec /\ CycleOK(s)
  BY DEF Idle, CycleRec, CycleOK, Pcs, Working
<1> QED BY <1>1, CycleGoesOn DEF Begin, env

(* The configuration a cycle keeps is the one that is provisioned. *)
LEMMA ConfigureKeeps ==
    ASSUME OffloadInv, NEW i \in Cycles, Configure(i)
    PROVE  OffloadInv'
<1> DEFINE s == [Idle EXCEPT !.pc = "pending", !.cfg = provision]
<1>1. s \in CycleRec /\ CycleOK(s)
  BY DEF Idle, CycleRec, CycleOK, Pcs, Working, OffloadInv, TypeInv
<1>2. Set(i, Idle) \/ Set(i, s)
  BY DEF Configure
<1> HIDE DEF s
<1>3. UNCHANGED <<data, provision, now>>
  BY DEF Configure, env
<1> QED BY <1>1, <1>2, <1>3, IdleOK, CycleGoesOn

(* A page of uploads is made of rows. *)
LEMMA ReadPendingKeeps ==
    ASSUME OffloadInv, NEW i \in Cycles, ReadPending(i)
    PROVE  OffloadInv'
<1> DEFINE page == IF policy.enabled THEN FirstOf(Pending, Batch) ELSE {}
           s == [cy[i] EXCEPT !.pc = IF page = {} THEN "prune" ELSE "upload", !.page = page]
<1>1. page \subseteq rows
  BY DEF FirstOf, Pending
<1>2. Set(i, s) \/ Set(i, Idle)
  BY DEF ReadPending, End
<1> HIDE DEF page
<1>3. cy[i] \in CycleRec
  BY DEF OffloadInv, TypeInv
<1>4. s \in CycleRec /\ CycleOK(s)
  BY <1>1, <1>3 DEF CycleRec, CycleOK, Pcs, Working, OffloadInv, TypeInv
<1> HIDE DEF s
<1>5. UNCHANGED <<data, provision, now>>
  BY DEF ReadPending, env
<1> QED BY <1>2, <1>4, <1>5, IdleOK, CycleGoesOn

(* To go on to the next recording of the page is safe. *)
LEMMA NextUploadKeeps ==
    ASSUME OffloadInv, NEW i \in Cycles
    PROVE  LET s == [cy[i] EXCEPT !.page = Left(i), !.pc = IF Left(i) # {} THEN "upload" ELSE "prune"]
           IN  s \in CycleRec /\ CycleOK(s)
<1>1. cy[i] \in CycleRec /\ CycleOK(cy[i])
  BY DEF OffloadInv, TypeInv
<1>2. Left(i) \subseteq cy[i].page
  BY DEF Left
<1> QED BY <1>1, <1>2 DEF CycleRec, CycleOK, Pcs, Working

(* A PUT adds an object or leaves none; the rest is a step of the cycle. *)
LEMMA UploadKeeps ==
    ASSUME OffloadInv, NEW i \in Cycles, Upload(i)
    PROVE  OffloadInv'
<1> DEFINE next == [cy[i] EXCEPT !.page = Left(i), !.pc = IF Left(i) # {} THEN "upload" ELSE "prune"]
           conf == [cy[i] EXCEPT !.pc = "confirm"]
<1>1. next \in CycleRec /\ CycleOK(next)
  BY NextUploadKeeps
<1>2. cy[i] \in CycleRec /\ CycleOK(cy[i]) /\ cy[i].pc = "upload"
  BY DEF OffloadInv, TypeInv, Upload
<1>3. conf \in CycleRec /\ CycleOK(conf)
  BY <1>2 DEF CycleRec, CycleOK, Pcs, Working
<1>4. Set(i, next) \/ Set(i, conf)
  BY DEF Upload, PassOver, NextUpload
<1>5. conf.pc = "confirm" /\ next.pc \in {"upload", "prune"}
  BY <1>2 DEF CycleRec
<1> HIDE DEF next, conf
<1>6. /\ objects \subseteq objects'
      /\ UNCHANGED <<made, rows, local, staged, misled, uploadedAt, localDeleted, provision, now>>
  BY DEF Upload, env, files
<1>7. \A t \in {next, conf} : CycleOK(t) => CycleOK(t)'
  BY <1>5, <1>6 DEF CycleOK
<1>8. cy' \in [Cycles -> CycleRec] /\ (\A j \in Cycles : CycleOK(cy[j]))'
  BY <1>1, <1>3, <1>4, <1>6, <1>7, OtherCyclesKeep DEF Sure
<1>9. \A r : Archived(r) => Archived(r)'
  BY <1>6, ArchivedStays
<1> QED BY <1>6, <1>8, <1>9 DEF OffloadInv, TypeInv, NothingLost, Sure

(* The cycle goes on to the mark when the object is there. *)
LEMMA ConfirmKeeps ==
    ASSUME OffloadInv, NEW i \in Cycles, Confirm(i)
    PROVE  OffloadInv'
<1> DEFINE next == [cy[i] EXCEPT !.page = Left(i), !.pc = IF Left(i) # {} THEN "upload" ELSE "prune"]
           mark == [cy[i] EXCEPT !.pc = "mark"]
<1>1. next \in CycleRec /\ CycleOK(next)
  BY NextUploadKeeps
<1>2. cy[i] \in CycleRec /\ CycleOK(cy[i]) /\ cy[i].pc = "confirm"
  BY DEF OffloadInv, TypeInv, Confirm
<1>3. mark \in CycleRec
  BY <1>2 DEF CycleRec, Pcs
<1>4. Confirmed(i) => CycleOK(mark)
  BY <1>2 DEF CycleRec, CycleOK, Working, Confirmed, Current, Archived
<1>5. Set(i, next) \/ (Confirmed(i) /\ Set(i, mark))
  BY DEF Confirm, NextUpload
<1> HIDE DEF next, mark
<1>6. UNCHANGED <<data, provision, now>>
  BY DEF Confirm, env
<1> QED BY <1>1, <1>3, <1>4, <1>5, <1>6, CycleGoesOn

(* A mark is written for an object that was seen. *)
LEMMA MarkKeeps ==
    ASSUME OffloadInv, NEW i \in Cycles, Mark(i)
    PROVE  OffloadInv'
<1>1. PICK next \in CycleRec : CycleOK(next) /\ Set(i, next)
  BY NextUploadKeeps DEF Mark, NextUpload
<1>2. PICK r : r = Current(i) /\ Archived(r)
  BY DEF OffloadInv, Mark, CycleOK, Current
<1>3. UNCHANGED <<made, rows, local, staged, misled, localDeleted, objects, provision, now>>
  BY DEF Mark, env, files
<1>4. \/ uploadedAt' = uploadedAt
      \/ uploadedAt' = [uploadedAt EXCEPT ![r] = now]
  BY <1>2 DEF Mark
<1>5. CycleOK(next)'
  BY <1>1, <1>3 DEF CycleOK, Archived, Sure
<1>6. cy' \in [Cycles -> CycleRec] /\ (\A j \in Cycles : CycleOK(cy[j]))'
  BY <1>1, <1>3, <1>5, OtherCyclesKeep DEF Sure
<1>7. \A q : Archived(q)' <=> Archived(q)
  BY <1>3 DEF Archived
<1>8. uploadedAt' \in [Recordings -> Nat \cup {Null}]
  BY <1>4 DEF OffloadInv, TypeInv
<1>9. \A q \in Recordings : uploadedAt'[q] # Null => Archived(q)
  BY <1>2, <1>4 DEF OffloadInv, TypeInv
<1> QED BY <1>3, <1>6, <1>7, <1>8, <1>9 DEF OffloadInv, TypeInv, NothingLost, Sure

(* The page of files to remove is read from marked rows. *)
LEMMA ReadPrunableKeeps ==
    ASSUME OffloadInv, NEW i \in Cycles, ReadPrunable(i)
    PROVE  OffloadInv'
<1> DEFINE page == FirstOf(Prunable(cy[i].cfg), PruneBatch)
           s    == [cy[i] EXCEPT !.pc = "unlink", !.page = page]
<1>1. page \subseteq rows /\ \A r \in page : uploadedAt[r] # Null
  BY DEF FirstOf, Prunable
<1>2. page \subseteq made /\ page \subseteq Recordings /\ \A r \in page : Archived(r)
  BY <1>1 DEF OffloadInv, TypeInv
<1>3. Set(i, Idle) \/ (page # {} /\ Set(i, s))
  BY DEF ReadPrunable, End
<1> HIDE DEF page
<1>4. cy[i] \in CycleRec
  BY DEF OffloadInv, TypeInv
<1>5. s \in CycleRec /\ (page # {} => CycleOK(s))
  BY <1>2, <1>4 DEF CycleRec, CycleOK, Pcs, Working
<1> HIDE DEF s
<1>6. UNCHANGED <<data, provision, now>>
  BY DEF ReadPrunable, env
<1> QED BY <1>3, <1>5, <1>6, IdleOK, CycleGoesOn

(* To go on to the next file, or to end, is safe. *)
LEMMA NextUnlinkKeeps ==
    ASSUME OffloadInv, NEW i \in Cycles, cy[i].pc \in {"unlink", "stamp"}, NextUnlink(i)
    PROVE  \E s \in CycleRec : Set(i, s) /\ CycleOK(s) /\ s.pc \in {"idle", "unlink"}
<1>1. cy[i] \in CycleRec /\ CycleOK(cy[i])
  BY DEF OffloadInv, TypeInv
<1>2. Left(i) \subseteq cy[i].page
  BY DEF Left
<1>3. CASE Left(i) # {}
  <2> DEFINE s == [cy[i] EXCEPT !.pc = "unlink", !.page = Left(i)]
  <2>1. s \in CycleRec /\ CycleOK(s) /\ s.pc = "unlink"
    BY <1>1, <1>2, <1>3 DEF CycleRec, CycleOK, Pcs, Working
  <2>2. Set(i, s)
    BY <1>3 DEF NextUnlink
  <2> QED BY <2>1, <2>2
<1>4. CASE Left(i) = {}
  BY <1>4, IdleOK DEF NextUnlink, End, Idle
<1> QED BY <1>3, <1>4

(* The file that goes has its object. *)
LEMMA UnlinkKeeps ==
    ASSUME OffloadInv, NEW i \in Cycles, Unlink(i)
    PROVE  OffloadInv'
<1> DEFINE r == Current(i)
           s == [cy[i] EXCEPT !.pc = "stamp"]
<1>1. cy[i] \in CycleRec /\ CycleOK(cy[i]) /\ cy[i].pc = "unlink"
  BY DEF OffloadInv, TypeInv, Unlink
<1>2. r \in cy[i].page
  BY <1>1, OldestOfPage DEF CycleRec, CycleOK, Working, Current
<1>3. Archived(r)
  BY <1>1, <1>2 DEF CycleOK
<1>4. UNCHANGED <<made, rows, staged, uploadedAt, localDeleted, objects, provision, now>>
  BY DEF Unlink, env
<1>5. CASE local' = local \ {r} /\ misled' = misled \cup ({r} \cap staged) /\ Set(i, s)
  <2>1. s \in CycleRec /\ s.page = cy[i].page /\ s.pc = "stamp"
    BY <1>1 DEF CycleRec, Pcs
  <2>2. PICK t \in CycleRec : t = s /\ t.page = cy[i].page /\ t.pc = "stamp"
    BY <2>1
  <2>7. Sure' = Sure \ {r}
    BY <1>4, <1>5 DEF Sure
  <2>3. Min(t.page) \notin Sure' /\ \A q \in t.page : Archived(q)
    BY <1>1, <2>2, <2>7 DEF CycleOK, Current
  <2>4. CycleOK(t)'
    BY <1>1, <1>4, <2>2, <2>3 DEF CycleOK, Archived, Working
  <2>5. cy' \in [Cycles -> CycleRec] /\ (\A j \in Cycles : CycleOK(cy[j]))'
    BY <1>4, <1>5, <2>2, <2>4, <2>7, OtherCyclesKeep
  <2> HIDE DEF r
  <2>6. \A q : Archived(q)' <=> Archived(q)
    BY <1>4 DEF Archived
  <2> QED BY <1>3, <1>4, <1>5, <2>5, <2>6, <2>7 DEF OffloadInv, TypeInv, NothingLost
<1>6. CASE NextUnlink(i) /\ UNCHANGED <<local, misled>>
  BY <1>1, <1>4, <1>6, NextUnlinkKeeps, CycleGoesOn DEF data, files
<1> QED BY <1>5, <1>6 DEF Unlink

(* The stamp is written for a file that is gone. *)
LEMMA StampKeeps ==
    ASSUME OffloadInv, NEW i \in Cycles, Stamp(i)
    PROVE  OffloadInv'
<1> DEFINE r == Current(i)
<1>1. cy[i] \in CycleRec /\ CycleOK(cy[i]) /\ cy[i].pc = "stamp"
  BY DEF OffloadInv, TypeInv, Stamp
<1>2. r \notin Sure
  BY <1>1 DEF CycleOK, Current
<1>3. UNCHANGED <<made, rows, local, staged, misled, uploadedAt, objects, provision, now>>
  BY DEF Stamp, env, files
<1>4. \E s \in CycleRec : Set(i, s) /\ CycleOK(s) /\ s.pc \in {"idle", "unlink"}
  <2>1. NextUnlink(i) \/ Set(i, Idle)
    BY DEF Stamp, End
  <2> QED BY <1>1, <2>1, NextUnlinkKeeps, IdleOK DEF Idle
<1>5. PICK s \in CycleRec : Set(i, s) /\ CycleOK(s) /\ s.pc \in {"idle", "unlink"}
  BY <1>4
<1>6. CycleOK(s)'
  BY <1>3, <1>5 DEF CycleOK, Archived, Sure
<1>7. cy' \in [Cycles -> CycleRec] /\ (\A j \in Cycles : CycleOK(cy[j]))'
  BY <1>3, <1>5, <1>6, OtherCyclesKeep DEF Sure
<1>8. localDeleted' = localDeleted \/ (localDeleted' = localDeleted \cup {r} /\ r \in rows)
  BY DEF Stamp
<1> HIDE DEF r
<1>9. localDeleted' \subseteq made /\ localDeleted' \cap Sure = {}
  BY <1>2, <1>8 DEF OffloadInv, TypeInv
<1>10. \A q : Archived(q)' <=> Archived(q)
  BY <1>3 DEF Archived
<1> QED BY <1>3, <1>7, <1>9, <1>10 DEF OffloadInv, TypeInv, NothingLost, Sure

(* A recording is made with its file, under an id that no page, mark or stamp
   has seen. *)
LEMMA RecordKeeps ==
    ASSUME OffloadInv, NEW r \in Recordings, Record(r)
    PROVE  OffloadInv'
<1>1. r \notin made
  BY OffloadConstants DEF Record
<1>2. /\ made' = made \cup {r} /\ rows' = rows \cup {r} /\ local' = local \cup {r}
      /\ UNCHANGED <<staged, misled, uploadedAt, localDeleted, objects, provision, now, cy>>
  BY DEF Record, env
<1>3. \A q : Archived(q)' <=> Archived(q)
  BY <1>2 DEF Archived
<1>4. ASSUME NEW j \in Cycles
      PROVE  CycleOK(cy[j])'
  <2>1. cy[j] \in CycleRec /\ CycleOK(cy[j])
    BY DEF OffloadInv, TypeInv
  <2>2. cy[j].pc = "stamp" => Min(cy[j].page) # r
    BY <1>1, <2>1, OldestOfPage DEF CycleRec, CycleOK, Working
  <2> QED BY <1>2, <1>3, <2>1, <2>2 DEF CycleOK, Sure
<1>5. TypeInv'
  BY <1>2 DEF OffloadInv, TypeInv
<1>6. NothingLost' /\ (localDeleted \cap Sure = {})'
  BY <1>1, <1>2, <1>3 DEF OffloadInv, TypeInv, NothingLost, Sure
<1> QED BY <1>2, <1>3, <1>4, <1>5, <1>6 DEF OffloadInv

(* A deletion takes a file away and may put it back: what counts as there stays
   the same. *)
LEMMA FileMovesKeep ==
    ASSUME OffloadInv, local' \cup staged' = local \cup staged,
           UNCHANGED <<made, rows, misled, uploadedAt, localDeleted, objects, provision, now, cy>>
    PROVE  OffloadInv'
<1>1. Sure' = Sure
  BY DEF Sure
<1>2. \A q : Archived(q)' <=> Archived(q)
  BY DEF Archived
<1>3. (\A j \in Cycles : CycleOK(cy[j]))'
  BY <1>1, <1>2 DEF OffloadInv, CycleOK
<1>4. TypeInv'
  BY DEF OffloadInv, TypeInv
<1>5. NothingLost'
  BY <1>2 DEF OffloadInv, NothingLost
<1> QED BY <1>1, <1>2, <1>3, <1>4, <1>5 DEF OffloadInv

LEMMA StageKeeps ==
    ASSUME OffloadInv, NEW r \in Recordings, Stage(r) \/ Restore(r)
    PROVE  OffloadInv'
<1>1. local' \cup staged' = local \cup staged
  BY DEF Stage, Restore
<1>2. UNCHANGED <<made, rows, misled, uploadedAt, localDeleted, objects, provision, now, cy>>
  BY DEF Stage, Restore, env
<1> QED BY <1>1, <1>2, FileMovesKeep

(* A row that goes takes its file and its stamp with it. *)
LEMMA ExpireKeeps ==
    ASSUME OffloadInv, NEW r \in Recordings, Expire(r)
    PROVE  OffloadInv'
<1>1. /\ rows' = rows \ {r} /\ staged' = staged \ {r} /\ localDeleted' = localDeleted \ {r}
      /\ UNCHANGED <<made, local, misled, uploadedAt, objects, provision, now, cy>>
  BY DEF Expire
<1>2. \A q : Archived(q)' <=> Archived(q)
  BY <1>1 DEF Archived
<1>3. Sure' \subseteq Sure
  BY <1>1 DEF Sure
<1>4. (\A j \in Cycles : CycleOK(cy[j]))'
  BY <1>1, <1>2, <1>3 DEF OffloadInv, CycleOK
<1>5. TypeInv'
  BY <1>1 DEF OffloadInv, TypeInv
<1> QED BY <1>1, <1>2, <1>3, <1>4, <1>5 DEF OffloadInv, NothingLost

(* A crash ends every cycle, and the boot puts back what was staged. *)
LEMMA CrashKeeps ==
    ASSUME OffloadInv, Crash
    PROVE  OffloadInv'
<1>1. /\ local' \cup staged' = local \cup staged /\ cy' = [i \in Cycles |-> Idle]
      /\ UNCHANGED <<made, rows, misled, uploadedAt, localDeleted, objects, provision, now>>
  BY DEF Crash, env
<1>2. TypeInv'
  BY <1>1, IdleOK DEF OffloadInv, TypeInv
<1>3. (\A j \in Cycles : CycleOK(cy[j]))'
  BY <1>1 DEF CycleOK, Idle, Working
<1> QED BY <1>1, <1>2, <1>3 DEF OffloadInv, NothingLost, Sure, Archived

(* The environment leaves data and cycles alone. *)
LEMMA RestKeeps ==
    ASSUME OffloadInv,
           \/ \E p \in Provisions \cup {Null} : Provision(p)
           \/ \E p \in Policies : SetPolicy(p)
           \/ Tick \/ UNCHANGED vars
    PROVE  OffloadInv'
<1>1. /\ UNCHANGED <<data, cy>>
      /\ provision' \in Provisions \cup {Null} /\ now' \in Nat
  BY DEF OffloadInv, TypeInv, Provision, SetPolicy, Tick, env, vars
<1>2. (\A i \in Cycles : CycleOK(cy[i]))'
  BY <1>1 DEF OffloadInv, CycleOK, Archived, data, files, Sure
<1> QED BY <1>1, <1>2 DEF OffloadInv, TypeInv, NothingLost, Archived, data, files, Sure

-----------------------------------------------------------------------------
(* The offload starts with nothing marked and nothing stamped. *)
LEMMA InitOffloadInv == Init => OffloadInv
<1> SUFFICES ASSUME Init PROVE OffloadInv
  OBVIOUS
<1>1. TypeInv
  BY OffloadConstants, IdleOK DEF Init, TypeInv
<1>2. \A i \in Cycles : CycleOK(cy[i])
  BY IdleOK DEF Init
<1> QED BY <1>1, <1>2, OffloadConstants DEF Init, OffloadInv, NothingLost, Sure

(* Every step keeps the invariant: one case per action. *)
LEMMA StepOffloadInv == OffloadInv /\ [Next]_vars => OffloadInv'
<1> SUFFICES ASSUME OffloadInv, [Next]_vars PROVE OffloadInv'
  OBVIOUS
<1>1. CASE \E i \in Cycles : Begin(i) \/ Cycle(i)
  BY <1>1, BeginKeeps, ConfigureKeeps, ReadPendingKeeps, UploadKeeps, ConfirmKeeps, MarkKeeps,
     ReadPrunableKeeps, UnlinkKeeps, StampKeeps DEF Cycle
<1>2. CASE \E r \in Recordings : Record(r) \/ Stage(r) \/ Expire(r) \/ Restore(r)
  BY <1>2, RecordKeeps, StageKeeps, ExpireKeeps
<1>3. CASE \/ \E p \in Provisions \cup {Null} : Provision(p)
           \/ \E p \in Policies : SetPolicy(p)
           \/ Tick \/ UNCHANGED vars
  BY <1>3, RestKeeps
<1>4. CASE Crash
  BY <1>4, CrashKeeps
<1> QED BY <1>1, <1>2, <1>3, <1>4 DEF Next

(* No local file goes without a confirmed upload: a recording that came with a
   file has its file, in its place or in the quarantine of a deletion, or an
   object, whatever fails, whenever the process ends, and however many cycles
   and deletions overlap (uploadPending, pruneUploaded, deleteRowsWithFiles). *)
THEOREM OffloadLosesNothing == Spec => []NothingLost
<1>1. OffloadInv => NothingLost
  BY DEF OffloadInv
<1> QED BY <1>1, InitOffloadInv, StepOffloadInv, PTL DEF Spec

(* The columns of a row can be trusted: cloudUploadedAt means that there is an
   object, localDeletedAt that there is no file, although they are written in
   steps of their own, after the fact, and not always.  The one exception is a
   file that a deletion had staged when pruneUploaded looked for it: the row
   says that it is gone, and the rollback brings it back. *)
THEOREM RowsCanBeTrusted == Spec => []RowsTellTheTruth
<1>1. OffloadInv => RowsTellTheTruth
  BY DEF OffloadInv, RowsTellTheTruth, TypeInv, Sure
<1> QED BY <1>1, InitOffloadInv, StepOffloadInv, PTL DEF Spec
=============================================================================
