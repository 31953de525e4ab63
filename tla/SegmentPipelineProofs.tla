------------------------ MODULE SegmentPipelineProofs ------------------------
(***************************************************************************)
(* The segment pipeline, for any number of segments, attempts and ends of  *)
(* the API: a row always points to a complete file on the disk, and        *)
(* footage that is on the disk stays there.  Both hold if fsync does not   *)
(* fail and no scan takes a file that another worker has in hand.          *)
(*                                                                         *)
(* RowsPlayable is not inductive.  What keeps it is that no two of the     *)
(* three workers have the same file, so that what one of them has found    *)
(* out about an .mp4 is still true when it acts on it: a remux begins      *)
(* where there was no .mp4, a probed .mp4 has been synced, and a .ts is    *)
(* unlinked only beside a complete .mp4 on the disk.                       *)
(***************************************************************************)
EXTENDS SegmentPipeline, WellFoundedInduction, TLAPS

TsStates  == {"none", "open", "closed", "kept", "gone"}
Mp4States == {"none", "partial", "whole", "synced"}
AtFile    == {"moved", "codec", "remux", "fsync", "probe", "insert", "unlink", "mark"}
JobPcs    == AtFile \cup {"idle", "walk", "next"}

JobRec == [pc : JobPcs, kind : Kinds, s : Segments \cup {0}, todo : SUBSET Files,
           reg : SUBSET Segments, final : BOOLEAN]

TypeInv ==
    /\ good \in [Segments -> BOOLEAN]
    /\ ts \in [Segments -> TsStates] /\ mp4 \in [Segments -> Mp4States]
    /\ rows \in SUBSET Segments
    /\ job \in [Workers -> JobRec]

(* What is on a worker's list exists. *)
ListOK(l) ==
    \A s \in Segments : /\ <<"ts", s>> \in l => ts[s] # "none"
                        /\ <<"mp4", s>> \in l => mp4[s] \in {"partial", "synced"}

(* What a worker may count on, at each await, about the file it has. *)
FileOK(r) ==
    /\ r.pc \in AtFile => r.s \in Segments /\ ts[r.s] # "none"
    /\ r.pc = "codec"  => mp4[r.s] = "none"
    /\ r.pc = "remux"  => mp4[r.s] = "partial"
    /\ r.pc = "probe"  => mp4[r.s] # "whole"
    /\ r.pc \in {"insert", "unlink"} => mp4[r.s] = "synced"
    /\ r.reg \subseteq rows
    /\ ListOK(r.todo)

FilesOK == \A w \in Workers : FileOK(job[w])

(* No two workers have the same segment in hand. *)
Apart == \A v, w \in Workers :
            v # w /\ job[v].pc \in AtFile /\ job[w].pc \in AtFile => job[v].s # job[w].s

(* An .mp4 that is being written is on nobody's list. *)
Clear(s) == \A v \in Workers : <<"mp4", s>> \notin job[v].todo
Clean    == \A v \in Workers : job[v].pc = "remux" => Clear(job[v].s)

(* An .mp4 comes from a .ts. *)
Born == \A s \in Segments : ts[s] = "none" => mp4[s] = "none"

PipelineInv == TypeInv /\ FilesOK /\ Apart /\ Clean /\ Born /\ RowsPlayable

-----------------------------------------------------------------------------
(* The first of a set of segments is one of them. *)
LEMMA MinOfSegments ==
    ASSUME NEW S \in SUBSET Segments, S # {}
    PROVE  Min(S) \in S
<1>1. S \subseteq Nat
  BY PipelineConstants
<1> DEFINE R == OpToRel(<, Nat)
<1>2. IsWellFoundedOn(R, Nat)
  BY NatLessThanWellFounded
<1>3. \A x, y \in Nat : <<y, x>> \in R \/ x =< y
  BY DEF OpToRel
<1> HIDE DEF R
<1>4. PICK x \in S : \A y \in S : ~(<<y, x>> \in R)
  BY <1>1, <1>2, WFMin
<1>5. \A y \in S : x =< y
  <2> TAKE y \in S
  <2>1. x \in Nat /\ y \in Nat /\ ~(<<y, x>> \in R)
    BY <1>1, <1>4
  <2> QED BY <2>1, <1>3
<1> QED BY <1>5 DEF Min

LEMMA RestingOK == Resting \in JobRec /\ FileOK(Resting) /\ Resting.pc = "idle" /\ Resting.todo = {}
BY DEF Resting, JobRec, JobPcs, AtFile, Kinds, FileOK, ListOK

(* The facts about the file a worker has. *)
LEMMA FileFacts ==
    ASSUME PipelineInv, NEW w \in Workers, job[w].pc \in AtFile
    PROVE  /\ job[w].s \in Segments /\ ts[job[w].s] # "none"
           /\ FileOK(job[w]) /\ job[w] \in JobRec
           /\ ts \in [Segments -> TsStates] /\ mp4 \in [Segments -> Mp4States]
           /\ rows \in SUBSET Segments
BY DEF PipelineInv, TypeInv, FilesOK, FileOK

(* A complete file on the disk stays, and a .ts on the disk goes only where
   there is such an .mp4. *)
DiskKeeps ==
    \A s \in Segments :
        /\ mp4[s] = "synced" => mp4'[s] = "synced"
        /\ ts[s] = "kept" => ts'[s] = "kept" \/ mp4[s] = "synced"

(* What a step of w leaves to the others: a .ts does not become one that never
   was, and an .mp4 changes only where w has it or by being written back. *)
LeavesOthers(w) ==
    \A s \in Segments :
        /\ ts[s] # "none" => ts'[s] # "none"
        /\ \/ mp4'[s] = mp4[s]
           \/ mp4[s] = "whole" /\ mp4'[s] = "synced"
           \/ /\ job[w].pc \in AtFile /\ s = job[w].s
              /\ Clear(s) \/ mp4'[s] \in {"partial", "synced"}

LEMMA OtherKeeps ==
    ASSUME PipelineInv, NEW w \in Workers, NEW v \in Workers, v # w, LeavesOthers(w),
           NEW q \in JobRec, q = job[v], rows \subseteq rows'
    PROVE  FileOK(q)'
<1>1. FileOK(q)
  BY DEF PipelineInv, FilesOK
<1>2. ASSUME q.pc \in AtFile
      PROVE  /\ q.s \in Segments /\ ts'[q.s] # "none"
             /\ mp4'[q.s] = mp4[q.s] \/ (mp4[q.s] = "whole" /\ mp4'[q.s] = "synced")
  <2>1. q.s \in Segments /\ ts[q.s] # "none"
    BY <1>1, <1>2 DEF FileOK
  <2>2. ~(job[w].pc \in AtFile /\ q.s = job[w].s)
    BY <1>2 DEF PipelineInv, Apart
  <2> QED BY <2>1, <2>2 DEF LeavesOthers
<1>3. ListOK(q.todo)'
  <2>1. ASSUME NEW s \in Segments, <<"ts", s>> \in q.todo
        PROVE  ts'[s] # "none"
    BY <1>1, <2>1 DEF FileOK, ListOK, LeavesOthers
  <2>2. ASSUME NEW s \in Segments, <<"mp4", s>> \in q.todo
        PROVE  mp4'[s] \in {"partial", "synced"}
    <3>1. mp4[s] \in {"partial", "synced"}
      BY <1>1, <2>2 DEF FileOK, ListOK
    <3>2. ~Clear(s)
      BY <2>2 DEF Clear
    <3> QED BY <3>1, <3>2 DEF LeavesOthers
  <2> QED BY <2>1, <2>2 DEF ListOK
<1>4. q.reg \subseteq rows'
  BY <1>1 DEF FileOK
<1>5. /\ q.pc = "codec"  => mp4'[q.s] = "none"
      /\ q.pc = "remux"  => mp4'[q.s] = "partial"
      /\ q.pc = "probe"  => mp4'[q.s] # "whole"
      /\ q.pc \in {"insert", "unlink"} => mp4'[q.s] = "synced"
  BY <1>1, <1>2 DEF FileOK, AtFile
<1> QED BY <1>2, <1>3, <1>4, <1>5 DEF FileOK

(* The list of r names no .mp4 that is being written, if r belongs to w. *)
Tidy(w, r) ==
    /\ r.pc = "remux" => Clear(r.s) /\ <<"mp4", r.s>> \notin r.todo
    /\ \A v \in Workers \ {w} : job[v].pc = "remux" => <<"mp4", job[v].s>> \notin r.todo

(* The worker w goes on as r. *)
LEMMA WorkerGoesOn ==
    ASSUME PipelineInv, NEW w \in Workers, NEW r \in JobRec, Step(w, r),
           FileOK(r)', Tidy(w, r), r.pc \in AtFile => Free(w, r.s), LeavesOthers(w),
           ts' \in [Segments -> TsStates], mp4' \in [Segments -> Mp4States],
           rows' \in SUBSET Segments, rows \subseteq rows',
           Born', RowsPlayable', UNCHANGED good
    PROVE  PipelineInv'
<1>1. TypeInv'
  BY DEF PipelineInv, TypeInv, Step
<1>2. job'[w] = r /\ \A v \in Workers : v # w => job'[v] = job[v]
  BY DEF PipelineInv, TypeInv, Step
<1>3. FilesOK'
  <2>1. ASSUME NEW v \in Workers
        PROVE  FileOK(job[v])'
    <3>1. CASE v = w
      <4>1. job'[v] = r
        BY <1>2, <3>1
      <4> QED BY <4>1 DEF FileOK
    <3>2. CASE v # w
      <4>1. PICK q \in JobRec : q = job[v] /\ q = job'[v]
        BY <1>2, <3>2 DEF PipelineInv, TypeInv
      <4>2. FileOK(q)'
        BY <3>2, <4>1, OtherKeeps
      <4> QED BY <4>1, <4>2 DEF FileOK
    <3> QED BY <3>1, <3>2
  <2> QED BY <2>1 DEF FilesOK
<1>4. Apart'
  <2>1. ASSUME NEW v \in Workers, v # w, r.pc \in AtFile, job[v].pc \in AtFile
        PROVE  job[v].s # r.s
    BY <2>1 DEF Free, Has, AtFile
  <2> QED BY <1>2, <2>1 DEF PipelineInv, Apart
<1>5. Clean'
  <2>1. ASSUME NEW v \in Workers, NEW u \in Workers, job'[v].pc = "remux"
        PROVE  <<"mp4", job'[v].s>> \notin job'[u].todo
    BY <1>2, <2>1 DEF PipelineInv, Clean, Clear, Tidy
  <2> QED BY <2>1 DEF Clean, Clear
<1> QED BY <1>1, <1>3, <1>4, <1>5 DEF PipelineInv

-----------------------------------------------------------------------------
(* A worker with a file.                                                   *)

(* The worker keeps its file and its list, or drops them, and comes to pc q. *)
GoesTo(w, q) ==
    \E r \in JobRec : /\ Step(w, r) /\ r.pc = q
                      /\ q \in AtFile => r.s = job[w].s
                      /\ r.todo \subseteq job[w].todo /\ r.reg \subseteq rows'

LEMMA GotoGoes ==
    ASSUME PipelineInv, NEW w \in Workers, job[w].pc \in AtFile,
           NEW q \in JobPcs, Goto(w, q), rows \subseteq rows'
    PROVE  GoesTo(w, q)
<1>1. job[w] \in JobRec /\ job[w].reg \subseteq rows
  BY FileFacts DEF FileOK
<1>2. PICK r : r = [job[w] EXCEPT !.pc = q]
  OBVIOUS
<1>3. r \in JobRec
  BY <1>1, <1>2 DEF JobRec
<1>4. r.pc = q /\ r.s = job[w].s /\ r.todo = job[w].todo /\ r.reg = job[w].reg
  BY <1>1, <1>2 DEF JobRec
<1> QED BY <1>1, <1>2, <1>3, <1>4 DEF Goto, GoesTo

LEMMA NextFileGoes ==
    ASSUME PipelineInv, NEW w \in Workers, job[w].pc \in AtFile, NextFile(w), rows \subseteq rows'
    PROVE  \E q \in {"next", "idle"} : GoesTo(w, q)
<1>1. CASE w = Promotion
  <2>1. Step(w, Resting)
    BY <1>1 DEF NextFile
  <2>2. Resting \in JobRec /\ Resting.pc = "idle" /\ Resting.todo = {} /\ Resting.reg = {}
    BY RestingOK DEF Resting
  <2>3. GoesTo(w, "idle")
    BY <2>1, <2>2 DEF GoesTo, AtFile
  <2> QED BY <2>3
<1>2. CASE w # Promotion
  BY <1>2, GotoGoes DEF NextFile, JobPcs
<1> QED BY <1>1, <1>2

LEMMA CountingGoes ==
    ASSUME PipelineInv, NEW w \in Workers, job[w].pc \in AtFile, CountFailure(w), rows \subseteq rows'
    PROVE  \E q \in {"next", "idle", "mark"} : GoesTo(w, q)
<1>1. NextFile(w) \/ Goto(w, "next") \/ Goto(w, "mark")
  BY DEF CountFailure
<1> QED BY <1>1, NextFileGoes, GotoGoes DEF JobPcs, AtFile

(* The worker comes to q with its .mp4 in state x, being what the new await
   counts on. *)
LEMMA WorkerMoves ==
    ASSUME PipelineInv, NEW w \in Workers, job[w].pc \in AtFile,
           NEW q \in JobPcs, GoesTo(w, q),
           NEW x \in Mp4States, mp4' = [mp4 EXCEPT ![job[w].s] = x],
           mp4[job[w].s] = "synced" => x = "synced",
           Clear(job[w].s) \/ (x \in {"partial", "synced"} /\ q # "remux")
              \/ (x = mp4[job[w].s] /\ q # "remux"),
           q = "codec" => x = "none", q = "remux" => x = "partial",
           q = "probe" => x # "whole", q \in {"insert", "unlink"} => x = "synced",
           ts' \in [Segments -> TsStates],
           ts' = ts \/ (mp4[job[w].s] = "synced" /\ ts' = [ts EXCEPT ![job[w].s] = "gone"]),
           rows' \in SUBSET Segments, rows \subseteq rows', rows' \subseteq rows \cup {job[w].s},
           rows' # rows => x = "synced",
           UNCHANGED good
    PROVE  PipelineInv' /\ DiskKeeps
<1>1. PICK r \in JobRec : /\ Step(w, r) /\ r.pc = q
                          /\ q \in AtFile => r.s = job[w].s
                          /\ r.todo \subseteq job[w].todo /\ r.reg \subseteq rows'
  BY DEF GoesTo
<1>2. PICK s \in Segments : s = job[w].s /\ ts[s] # "none"
  BY FileFacts
<1>3. /\ mp4 \in [Segments -> Mp4States] /\ ts \in [Segments -> TsStates]
      /\ FileOK(job[w]) /\ job[w] \in JobRec
  BY FileFacts
<1>4. mp4' \in [Segments -> Mp4States] /\ mp4'[s] = x /\ \A z \in Segments : z # s => mp4'[z] = mp4[z]
  BY <1>2, <1>3
<1>5. \A z \in Segments : /\ ts[z] # "none" => ts'[z] # "none"
                          /\ ts[z] = "none" => ts'[z] = "none"
                          /\ ts[z] = "kept" => ts'[z] = "kept" \/ mp4[z] = "synced"
  BY <1>2, <1>3
<1>6. ListOK(r.todo)'
  <2>1. ASSUME NEW z \in Segments, <<"ts", z>> \in r.todo
        PROVE  ts'[z] # "none"
    BY <1>1, <1>3, <1>5, <2>1 DEF FileOK, ListOK
  <2>2. ASSUME NEW z \in Segments, <<"mp4", z>> \in r.todo
        PROVE  mp4'[z] \in {"partial", "synced"}
    <3>1. mp4[z] \in {"partial", "synced"} /\ ~Clear(z)
      BY <1>1, <1>3, <2>2 DEF FileOK, ListOK, Clear
    <3> QED BY <1>2, <1>4, <3>1
  <2> QED BY <2>1, <2>2 DEF ListOK
<1>7. FileOK(r)'
  <2>1. r.pc \in AtFile => r.s \in Segments /\ ts'[r.s] # "none"
    BY <1>1, <1>2, <1>5
  <2>2. /\ r.pc = "codec"  => mp4'[r.s] = "none"
        /\ r.pc = "remux"  => mp4'[r.s] = "partial"
        /\ r.pc = "probe"  => mp4'[r.s] # "whole"
        /\ r.pc \in {"insert", "unlink"} => mp4'[r.s] = "synced"
    BY <1>1, <1>2, <1>4 DEF AtFile
  <2> QED BY <1>1, <1>6, <2>1, <2>2 DEF FileOK
<1>8. Tidy(w, r)
  <2>1. r.pc = "remux" => Clear(r.s) /\ <<"mp4", r.s>> \notin r.todo
    BY <1>1, <1>2 DEF Clear, AtFile
  <2>2. ASSUME NEW v \in Workers, job[v].pc = "remux"
        PROVE  <<"mp4", job[v].s>> \notin r.todo
    BY <1>1, <2>2 DEF PipelineInv, Clean, Clear
  <2> QED BY <2>1, <2>2 DEF Tidy
<1>9. r.pc \in AtFile => Free(w, r.s)
  <2>1. ASSUME NEW v \in Workers, v # w, r.pc \in AtFile, Has(v, r.s)
        PROVE  FALSE
    <3>1. job[v] \in JobRec /\ job[v].pc \in AtFile /\ job[v].s = job[w].s
      BY <1>1, <2>1 DEF PipelineInv, TypeInv, Has, JobRec, JobPcs
    <3> QED BY <2>1, <3>1 DEF PipelineInv, Apart
  <2> QED BY <2>1 DEF Free
<1>10. LeavesOthers(w)
  BY <1>2, <1>4, <1>5 DEF LeavesOthers
<1>11. RowsPlayable' /\ Born'
  BY <1>2, <1>4, <1>5 DEF PipelineInv, RowsPlayable, Born, TypeInv
<1>12. PipelineInv'
  BY <1>1, <1>4, <1>7, <1>8, <1>9, <1>10, <1>11, WorkerGoesOn
<1>13. DiskKeeps
  BY <1>2, <1>4, <1>5 DEF DiskKeeps
<1> QED BY <1>12, <1>13

(* The promoted file is in the camera's directory. *)
LEMMA PromoteBeginsKeeps ==
    ASSUME PipelineInv, PromoteBegins
    PROVE  PipelineInv' /\ DiskKeeps
<1>1. PICK w \in Workers : w = Promotion
  BY DEF Workers
<1>2. job[w].pc \in AtFile /\ UNCHANGED disk
  BY <1>1 DEF PromoteBegins, At, AtFile
<1>3. /\ job[w] \in JobRec /\ job[w].s \in Segments /\ job[w].reg \subseteq rows
      /\ mp4 \in [Segments -> Mp4States] /\ ts \in [Segments -> TsStates] /\ rows \in SUBSET Segments
  BY <1>2, FileFacts DEF FileOK
<1>4. PICK q \in {"codec", "fsync"} :
         q = IF mp4[job[w].s] = "none" THEN "codec" ELSE "fsync"
  OBVIOUS
<1>14. PICK l \in SUBSET Files : l = job[w].todo \ {<<"ts", job[w].s>>}
  BY <1>3 DEF JobRec
<1>5. PICK s \in Segments : s = job[w].s
  BY <1>3
<1>6. PICK r : r = [job[w] EXCEPT !.kind = "ts", !.s = s, !.todo = l, !.pc = q]
  OBVIOUS
<1>7. r \in JobRec /\ r.pc = q /\ r.s = s /\ r.todo = l /\ r.reg = job[w].reg
  BY <1>3, <1>6 DEF JobRec, JobPcs, AtFile, Kinds
<1>8. Step(w, r)
  BY <1>1, <1>4, <1>14, <1>5, <1>6 DEF PromoteBegins, Begins
<1>9. rows' = rows /\ mp4' = mp4 /\ ts' = ts /\ good' = good
  BY <1>2 DEF disk
<1>10. GoesTo(w, q)
  BY <1>3, <1>14, <1>5, <1>7, <1>8, <1>9 DEF GoesTo
<1>11. PICK x \in Mp4States : x = mp4[job[w].s]
  BY <1>3
<1>12. mp4' = [mp4 EXCEPT ![job[w].s] = x]
  BY <1>3, <1>9, <1>11
<1>13. q \in JobPcs /\ q \notin {"remux", "probe", "insert", "unlink"}
  BY DEF JobPcs, AtFile
<1> QED BY <1>2, <1>3, <1>4, <1>9, <1>10, <1>11, <1>12, <1>13, WorkerMoves

LEMMA RemuxBeginsKeeps ==
    ASSUME PipelineInv, NEW w \in Workers, RemuxBegins(w)
    PROVE  PipelineInv' /\ DiskKeeps
<1>1. /\ job[w].pc = "codec" /\ job[w].pc \in AtFile
      /\ ts \in [Segments -> TsStates] /\ rows \in SUBSET Segments /\ rows' = rows /\ ts' = ts
  BY FileFacts DEF RemuxBegins, At, AtFile
<1>2. mp4[job[w].s] = "none" /\ Clear(job[w].s)
  <2>1. mp4[job[w].s] = "none" /\ job[w].s \in Segments
    BY <1>1, FileFacts DEF FileOK
  <2>2. ASSUME NEW v \in Workers
        PROVE  <<"mp4", job[w].s>> \notin job[v].todo
    BY <2>1 DEF PipelineInv, FilesOK, FileOK, ListOK
  <2> QED BY <2>1, <2>2 DEF Clear
<1>3. PICK x \in {"partial", "none"}, q \in {"remux", "next", "idle", "mark"} :
         /\ mp4' = [mp4 EXCEPT ![job[w].s] = x] /\ GoesTo(w, q)
         /\ q = "remux" => x = "partial"
  <2>1. CASE Present(job[w].s)
    BY <1>1, <2>1, GotoGoes DEF RemuxBegins, JobPcs, AtFile
  <2>2. CASE ~Present(job[w].s)
    BY <1>1, <2>2, CountingGoes DEF RemuxBegins
  <2> QED BY <2>1, <2>2
<1> QED BY <1>1, <1>2, <1>3, WorkerMoves DEF RemuxBegins, AtFile, JobPcs, Mp4States

LEMMA RemuxEndsKeeps ==
    ASSUME PipelineInv, NEW w \in Workers, RemuxEnds(w)
    PROVE  PipelineInv' /\ DiskKeeps
<1>1. /\ job[w].pc = "remux" /\ job[w].pc \in AtFile
      /\ ts \in [Segments -> TsStates] /\ rows \in SUBSET Segments /\ rows' = rows /\ ts' = ts
  BY FileFacts DEF RemuxEnds, At, AtFile
<1>2. mp4[job[w].s] = "partial" /\ Clear(job[w].s)
  BY <1>1, FileFacts DEF FileOK, PipelineInv, Clean
<1>3. PICK x \in Mp4States : mp4' = [mp4 EXCEPT ![job[w].s] = x]
  BY <1>1, <1>2, FileFacts DEF RemuxEnds, Mp4States
<1>4. GoesTo(w, "fsync")
  BY <1>1, GotoGoes DEF RemuxEnds, JobPcs, AtFile
<1> QED BY <1>1, <1>2, <1>3, <1>4, WorkerMoves DEF RemuxEnds, AtFile, JobPcs

LEMMA RemuxFailsKeeps ==
    ASSUME PipelineInv, NEW w \in Workers, RemuxFails(w)
    PROVE  PipelineInv' /\ DiskKeeps
<1>1. /\ job[w].pc = "remux" /\ job[w].pc \in AtFile
      /\ ts \in [Segments -> TsStates] /\ rows \in SUBSET Segments /\ rows' = rows /\ ts' = ts
  BY FileFacts DEF RemuxFails, At, AtFile
<1>2. mp4[job[w].s] = "partial" /\ Clear(job[w].s)
  BY <1>1, FileFacts DEF FileOK, PipelineInv, Clean
<1>3. PICK q \in {"next", "idle", "mark"} : GoesTo(w, q)
  BY <1>1, CountingGoes DEF RemuxFails
<1>4. mp4' = [mp4 EXCEPT ![job[w].s] = "none"] /\ good' = good
  BY DEF RemuxFails
<1> QED BY <1>1, <1>2, <1>3, <1>4, WorkerMoves DEF AtFile, JobPcs, Mp4States

(* A failed fsync is left out: it would let a file that is not on the disk
   reach the database. *)
LEMMA FsyncFileKeeps ==
    ASSUME PipelineInv, "fsyncFails" \notin Faults, NEW w \in Workers, FsyncFile(w)
    PROVE  PipelineInv' /\ DiskKeeps
<1>1. /\ job[w].pc = "fsync" /\ job[w].pc \in AtFile
      /\ ts \in [Segments -> TsStates] /\ rows \in SUBSET Segments /\ rows' = rows /\ ts' = ts
      /\ mp4 \in [Segments -> Mp4States] /\ job[w].s \in Segments
  BY FileFacts DEF FsyncFile, At, AtFile
<1>2. PICK x \in Mp4States : /\ mp4' = [mp4 EXCEPT ![job[w].s] = x]
                             /\ x = IF mp4[job[w].s] = "whole" THEN "synced" ELSE mp4[job[w].s]
  BY <1>1 DEF FsyncFile, Mp4States
<1>3. good' = good /\ "probe" \in JobPcs
  BY DEF FsyncFile, AtFile, JobPcs
<1>4. GoesTo(w, "probe")
  BY <1>1, <1>3, GotoGoes DEF FsyncFile
<1>5. /\ mp4[job[w].s] = "synced" => x = "synced"
      /\ x \in {"partial", "synced"} \/ x = mp4[job[w].s]
      /\ x # "whole"
  BY <1>2
<1> QED BY <1>1, <1>2, <1>3, <1>4, <1>5, WorkerMoves

(* The .mp4 is not touched. *)
LEMMA WorkerPasses ==
    ASSUME PipelineInv, NEW w \in Workers, job[w].pc \in AtFile,
           NEW q \in JobPcs, q \notin {"codec", "remux", "probe"}, GoesTo(w, q),
           q \in {"insert", "unlink"} => mp4[job[w].s] = "synced",
           ts' \in [Segments -> TsStates],
           ts' = ts \/ (mp4[job[w].s] = "synced" /\ ts' = [ts EXCEPT ![job[w].s] = "gone"]),
           rows' = rows \/ (mp4[job[w].s] = "synced" /\ rows' = rows \cup {job[w].s}),
           UNCHANGED <<good, mp4>>
    PROVE  PipelineInv' /\ DiskKeeps
<1>1. job[w].s \in Segments /\ mp4 \in [Segments -> Mp4States] /\ rows \in SUBSET Segments
  BY FileFacts
<1>2. PICK x \in Mp4States : x = mp4[job[w].s]
  BY <1>1
<1>3. mp4' = [mp4 EXCEPT ![job[w].s] = x]
  BY <1>1, <1>2
<1>4. /\ rows' \in SUBSET Segments /\ rows \subseteq rows' /\ rows' \subseteq rows \cup {job[w].s}
      /\ rows' # rows => x = "synced"
  BY <1>1, <1>2
<1>5. q # "remux" /\ q # "codec" /\ q # "probe" /\ (mp4[job[w].s] = "synced" => x = "synced")
      /\ (q \in {"insert", "unlink"} => x = "synced")
  BY <1>2
<1>6. \/ Clear(job[w].s) \/ (x \in {"partial", "synced"} /\ q # "remux")
      \/ (x = mp4[job[w].s] /\ q # "remux")
  BY <1>2
<1>7. (q = "codec" => x = "none") /\ (q = "remux" => x = "partial") /\ (q = "probe" => x # "whole")
  BY <1>5
<1> QED BY <1>3, <1>4, <1>5, <1>6, <1>7, WorkerMoves

LEMMA ProbeSegmentKeeps ==
    ASSUME PipelineInv, NEW w \in Workers, ProbeSegment(w)
    PROVE  PipelineInv' /\ DiskKeeps
<1>1. /\ job[w].pc = "probe" /\ job[w].pc \in AtFile /\ ts \in [Segments -> TsStates]
      /\ UNCHANGED <<good, ts, mp4, rows>>
  BY FileFacts DEF ProbeSegment, At, AtFile, disk
<1>2. mp4[job[w].s] # "whole"
  BY <1>1, FileFacts DEF FileOK
<1>3. PICK q \in {"insert", "next", "idle", "mark"} :
         GoesTo(w, q) /\ (q = "insert" => mp4[job[w].s] = "synced")
  <2>1. CASE mp4[job[w].s] \in {"whole", "synced"}
    BY <1>1, <1>2, <2>1, GotoGoes DEF ProbeSegment, JobPcs, AtFile
  <2>2. CASE mp4[job[w].s] \notin {"whole", "synced"}
    BY <1>1, <2>2, CountingGoes DEF ProbeSegment
  <2> QED BY <2>1, <2>2
<1> QED BY <1>1, <1>3, WorkerPasses DEF AtFile, JobPcs

LEMMA InsertRowKeeps ==
    ASSUME PipelineInv, NEW w \in Workers, InsertRow(w)
    PROVE  PipelineInv' /\ DiskKeeps
<1>1. /\ job[w].pc = "insert" /\ job[w].pc \in AtFile /\ ts \in [Segments -> TsStates]
  BY FileFacts DEF InsertRow, At, AtFile
<1>2. /\ mp4[job[w].s] = "synced" /\ job[w].s \in Segments /\ job[w] \in JobRec
      /\ job[w].reg \subseteq rows /\ rows \in SUBSET Segments
  BY <1>1, FileFacts DEF FileOK
<1>3. PICK q \in {"unlink", "next"}, g \in SUBSET Segments :
         /\ Step(w, [job[w] EXCEPT !.pc = q, !.reg = g])
         /\ g \subseteq rows \cup {job[w].s}
  <2>1. PICK q \in {"unlink", "next"} : q = IF job[w].kind = "ts" THEN "unlink" ELSE "next"
    OBVIOUS
  <2>2. PICK g \in SUBSET Segments :
           g = IF w = Recovery THEN job[w].reg \cup {job[w].s} ELSE job[w].reg
    BY <1>2
  <2>3. Step(w, [job[w] EXCEPT !.pc = q, !.reg = g])
    BY <2>1, <2>2 DEF InsertRow
  <2> QED BY <1>2, <2>2, <2>3
<1>4. PICK r : r = [job[w] EXCEPT !.pc = q, !.reg = g]
  OBVIOUS
<1>5. r \in JobRec /\ r.pc = q /\ r.s = job[w].s /\ r.todo = job[w].todo /\ r.reg = g
  BY <1>2, <1>4 DEF JobRec, JobPcs, AtFile
<1>6. rows' = rows \cup {job[w].s} /\ UNCHANGED <<good, ts, mp4>>
  BY DEF InsertRow
<1>7. GoesTo(w, q)
  BY <1>3, <1>4, <1>5, <1>6 DEF GoesTo
<1> QED BY <1>1, <1>2, <1>6, <1>7, WorkerPasses DEF AtFile, JobPcs

LEMMA InsertFailsKeeps ==
    ASSUME PipelineInv, NEW w \in Workers, InsertFails(w)
    PROVE  PipelineInv' /\ DiskKeeps
<1>1. /\ job[w].pc = "insert" /\ job[w].pc \in AtFile /\ ts \in [Segments -> TsStates]
      /\ UNCHANGED <<good, ts, mp4, rows>>
  BY FileFacts DEF InsertFails, At, AtFile, disk
<1>2. PICK q \in {"mark", "idle", "next"} : GoesTo(w, q)
  BY <1>1, CountingGoes DEF InsertFails
<1> QED BY <1>1, <1>2, WorkerPasses DEF AtFile, JobPcs

LEMMA UnlinkTsKeeps ==
    ASSUME PipelineInv, NEW w \in Workers, UnlinkTs(w)
    PROVE  PipelineInv' /\ DiskKeeps
<1>1. /\ job[w].pc = "unlink" /\ job[w].pc \in AtFile /\ ts \in [Segments -> TsStates]
      /\ UNCHANGED <<good, mp4, rows>>
  BY FileFacts DEF UnlinkTs, At, AtFile
<1>2. mp4[job[w].s] = "synced"
  BY <1>1, FileFacts DEF FileOK
<1>3. ts' = ts \/ ts' = [ts EXCEPT ![job[w].s] = "gone"]
  BY DEF UnlinkTs
<1>4. ts' \in [Segments -> TsStates]
  BY <1>1, <1>3 DEF TsStates
<1>5. PICK q \in {"next", "idle"} : GoesTo(w, q)
  BY <1>1, NextFileGoes DEF UnlinkTs
<1> QED BY <1>1, <1>2, <1>3, <1>4, <1>5, WorkerPasses DEF AtFile, JobPcs

LEMMA WriteMarkerKeeps ==
    ASSUME PipelineInv, NEW w \in Workers, WriteMarker(w)
    PROVE  PipelineInv' /\ DiskKeeps
<1>1. /\ job[w].pc = "mark" /\ job[w].pc \in AtFile /\ ts \in [Segments -> TsStates]
      /\ UNCHANGED <<good, ts, mp4, rows>>
  BY FileFacts DEF WriteMarker, At, AtFile
<1>2. GoesTo(w, "next")
  BY <1>1, GotoGoes DEF WriteMarker, JobPcs
<1> QED BY <1>1, <1>2, WorkerPasses DEF AtFile, JobPcs

-----------------------------------------------------------------------------
(* Between the files.                                                      *)

(* Nothing changes on the disk; one worker takes another file or rests. *)
LEMMA WorkerTurns ==
    ASSUME PipelineInv, NEW w \in Workers, NEW r \in JobRec, Step(w, r), FileOK(r),
           r.pc # "remux", \A v \in Workers \ {w} : job[v].pc = "remux" => <<"mp4", job[v].s>> \notin r.todo,
           r.pc \in AtFile => Free(w, r.s), UNCHANGED disk
    PROVE  PipelineInv' /\ DiskKeeps
<1>1. UNCHANGED <<good, ts, mp4, rows>>
  BY DEF disk
<1>2. FileOK(r)'
  BY <1>1 DEF FileOK, ListOK
<1>3. Tidy(w, r)
  BY DEF Tidy
<1>4. LeavesOthers(w) /\ Born' /\ RowsPlayable' /\ DiskKeeps
  BY <1>1 DEF LeavesOthers, Born, RowsPlayable, DiskKeeps, PipelineInv
<1>5. /\ ts' \in [Segments -> TsStates] /\ mp4' \in [Segments -> Mp4States]
      /\ rows' \in SUBSET Segments /\ rows \subseteq rows' /\ good' = good
  BY <1>1 DEF PipelineInv, TypeInv
<1> QED BY <1>2, <1>3, <1>4, <1>5, WorkerGoesOn

LEMMA WorkerRests ==
    ASSUME PipelineInv, NEW w \in Workers, Step(w, Resting), UNCHANGED disk
    PROVE  PipelineInv' /\ DiskKeeps
<1>1. PICK r \in JobRec : r = Resting /\ FileOK(r) /\ r.pc = "idle" /\ r.todo = {}
  BY RestingOK
<1>2. Step(w, r) /\ r.pc \notin AtFile /\ r.pc # "remux"
  BY <1>1 DEF AtFile
<1>3. \A v \in Workers \ {w} : job[v].pc = "remux" => <<"mp4", job[v].s>> \notin r.todo
  BY <1>1
<1> QED BY <1>1, <1>2, <1>3, WorkerTurns

(* What Begins makes of a list that is in order. *)
LEMMA BeginsOK ==
    ASSUME PipelineInv, NEW r \in JobRec, r.reg \subseteq rows, NEW f \in r.todo, ListOK(r.todo)
    PROVE  LET b == Begins(r, f)
           IN  /\ b \in JobRec /\ FileOK(b) /\ b.pc \in {"probe", "codec", "fsync"}
               /\ b.s = f[2] /\ b.s \in Segments /\ b.reg = r.reg /\ b.todo \subseteq r.todo
<1>1. PICK k \in Kinds, s \in Segments : f = <<k, s>>
  BY DEF JobRec, Files
<1>2. mp4 \in [Segments -> Mp4States]
  BY DEF PipelineInv, TypeInv
<1>3. PICK q : q = IF k = "mp4" THEN "probe" ELSE IF mp4[s] = "none" THEN "codec" ELSE "fsync"
  OBVIOUS
<1>4. q \in {"probe", "codec", "fsync"}
  BY <1>3
<1>5. PICK left \in SUBSET Files : left = r.todo \ {f}
  BY DEF JobRec
<1>6. PICK b : b = [r EXCEPT !.kind = k, !.s = s, !.todo = left, !.pc = q]
  OBVIOUS
<1>7. b \in JobRec
  BY <1>4, <1>5, <1>6 DEF JobRec, JobPcs, AtFile
<1>8. b.kind = k /\ b.s = s /\ b.todo = left /\ b.pc = q /\ b.reg = r.reg
  BY <1>6 DEF JobRec
<1>9. Begins(r, f) = b
  BY <1>1, <1>3, <1>5, <1>6 DEF Begins, JobRec
<1>10. FileOK(b)
  <2>1. b.pc \notin {"remux", "insert", "unlink"}
    BY <1>4, <1>8
  <2>2. b.pc = "codec" => mp4[b.s] = "none"
    BY <1>3, <1>8
  <2>3. b.pc = "probe" => mp4[b.s] # "whole"
    BY <1>1, <1>3, <1>8 DEF ListOK
  <2>4. ListOK(b.todo)
    BY <1>5, <1>8 DEF ListOK
  <2>5. ts[b.s] # "none"
    <3>1. CASE k = "ts"
      BY <1>1, <1>8, <3>1 DEF ListOK
    <3>2. CASE k = "mp4"
      BY <1>1, <1>8, <3>2 DEF ListOK, PipelineInv, Born
    <3> QED BY <3>1, <3>2 DEF Kinds
  <2> QED BY <1>8, <2>1, <2>2, <2>3, <2>4, <2>5 DEF FileOK
<1> QED BY <1>1, <1>4, <1>5, <1>8, <1>7, <1>9, <1>10

(* A scan takes its next file; without "overlap", one that is free. *)
LEMMA ScanBegins ==
    ASSUME PipelineInv, "overlap" \notin Faults, NEW r \in JobRec, r.reg \subseteq rows, ListOK(r.todo),
           \A v \in Workers : job[v].pc = "remux" => <<"mp4", job[v].s>> \notin r.todo,
           ScanWork(r) # {}, BeginsScan(r), UNCHANGED disk
    PROVE  PipelineInv' /\ DiskKeeps
<1>1. PICK s \in Segments : s = Min(ScanWork(r)) /\ <<"ts", s>> \in r.todo
  <2>1. ScanWork(r) \in SUBSET Segments /\ \A s \in ScanWork(r) : <<"ts", s>> \in r.todo
    BY DEF ScanWork
  <2>2. Min(ScanWork(r)) \in ScanWork(r)
    BY <2>1, MinOfSegments
  <2> QED BY <2>1, <2>2
<1>2. PICK b : b = Begins(r, <<"ts", s>>)
  OBVIOUS
<1>3. /\ b \in JobRec /\ FileOK(b) /\ b.pc \in {"probe", "codec", "fsync"}
      /\ b.s = s /\ b.todo \subseteq r.todo
  BY <1>1, <1>2, BeginsOK
<1>4. Step(Scan, b) /\ Free(Scan, b.s)
  BY <1>1, <1>2, <1>3 DEF BeginsScan
<1>5. PICK w \in Workers : w = Scan
  BY DEF Workers
<1>6. /\ b.pc # "remux" /\ Step(w, b) /\ Free(w, b.s)
      /\ \A v \in Workers \ {w} : job[v].pc = "remux" => <<"mp4", job[v].s>> \notin b.todo
  BY <1>3, <1>4, <1>5
<1> QED BY <1>3, <1>6, WorkerTurns

(* A list of .ts files. *)
LEMMA TsList ==
    ASSUME NEW S \in SUBSET Segments, \A s \in S : Present(s), NEW r,
           \/ r = [Resting EXCEPT !.todo = {"ts"} \X S]
           \/ r = [Resting EXCEPT !.final = TRUE, !.todo = {"ts"} \X S]
    PROVE  /\ r \in JobRec /\ r.reg \subseteq rows /\ ListOK(r.todo)
           /\ \A s : <<"mp4", s>> \notin r.todo
<1>1. {"ts"} \X S \in SUBSET Files
  BY DEF Files, Kinds
<1>2. \A s : <<"mp4", s>> \notin {"ts"} \X S
  OBVIOUS
<1>3. PICK l : l = {"ts"} \X S
  OBVIOUS
<1>4. r = [Resting EXCEPT !.todo = l] \/ r = [Resting EXCEPT !.final = TRUE, !.todo = l]
  BY <1>3
<1>5. r \in JobRec /\ r.reg = {} /\ r.todo = l
  BY <1>1, <1>3, <1>4, RestingOK DEF JobRec, Resting
<1>6. ListOK(l)
  <2>1. \A s \in Segments : <<"ts", s>> \in l => s \in S
    BY <1>3
  <2>2. \A s \in S : ts[s] # "none"
    BY DEF Present
  <2> QED BY <1>2, <1>3, <2>1, <2>2 DEF ListOK
<1> QED BY <1>2, <1>3, <1>5, <1>6

LEMMA ScanTickKeeps ==
    ASSUME PipelineInv, "overlap" \notin Faults, ScanTick
    PROVE  PipelineInv' /\ DiskKeeps
<1>1. PICK S \in SUBSET Segments : S = Listing \ {Max(Listing)}
  BY DEF Listing
<1>2. PICK r : r = [Resting EXCEPT !.todo = {"ts"} \X S]
  OBVIOUS
<1>3. \A s \in S : Present(s)
  BY <1>1 DEF Listing
<1>4. /\ r \in JobRec /\ r.reg \subseteq rows /\ ListOK(r.todo)
      /\ \A s : <<"mp4", s>> \notin r.todo
  BY <1>2, <1>3, TsList
<1>5. ScanWork(r) # {} /\ BeginsScan(r) /\ UNCHANGED disk
  BY <1>1, <1>2 DEF ScanTick
<1> QED BY <1>4, <1>5, ScanBegins

(* The disk and the workers stay as they are. *)
LEMMA NothingMoves ==
    ASSUME PipelineInv, UNCHANGED <<disk, job>>
    PROVE  PipelineInv' /\ DiskKeeps
BY DEF PipelineInv, TypeInv, FilesOK, FileOK, ListOK, Apart, Clean, Clear, Born, RowsPlayable,
       DiskKeeps, disk

LEMMA FinalScanKeeps ==
    ASSUME PipelineInv, "overlap" \notin Faults, FinalScan
    PROVE  PipelineInv' /\ DiskKeeps
<1>1. PICK r : r = [Resting EXCEPT !.final = TRUE, !.todo = {"ts"} \X Listing]
  OBVIOUS
<1>2. Listing \in SUBSET Segments /\ \A s \in Listing : Present(s)
  BY DEF Listing
<1>3. /\ r \in JobRec /\ r.reg \subseteq rows /\ ListOK(r.todo)
      /\ \A s : <<"mp4", s>> \notin r.todo
  BY <1>1, <1>2, TsList
<1>4. CASE ScanWork(r) = {}
  <2>1. UNCHANGED <<disk, job>>
    BY <1>1, <1>4 DEF FinalScan
  <2> QED BY <2>1, NothingMoves
<1>5. CASE ScanWork(r) # {}
  <2>1. BeginsScan(r) /\ UNCHANGED disk
    BY <1>1, <1>5 DEF FinalScan
  <2> QED BY <1>3, <1>5, <2>1, ScanBegins
<1> QED BY <1>4, <1>5

(* The list a worker has is in order. *)
LEMMA OwnList ==
    ASSUME PipelineInv, NEW w \in Workers
    PROVE  /\ job[w] \in JobRec /\ job[w].reg \subseteq rows /\ ListOK(job[w].todo)
           /\ \A v \in Workers : job[v].pc = "remux" => <<"mp4", job[v].s>> \notin job[w].todo
BY DEF PipelineInv, TypeInv, FilesOK, FileOK, Clean, Clear

LEMMA ScanStepKeeps ==
    ASSUME PipelineInv, "overlap" \notin Faults, ScanStep
    PROVE  PipelineInv' /\ DiskKeeps
<1>1. PICK w \in Workers : w = Scan
  BY DEF Workers
<1>2. CASE Step(Scan, Resting) /\ UNCHANGED disk
  BY <1>1, <1>2, WorkerRests
<1>3. CASE ScanWork(job[w]) # {} /\ BeginsScan(job[w]) /\ UNCHANGED disk
  BY <1>3, OwnList, ScanBegins
<1> QED BY <1>1, <1>2, <1>3 DEF ScanStep, ScanNext, ScanEnds

(* The recovery takes another file of its list, or rests. *)
LEMMA RecoveryTakes ==
    ASSUME PipelineInv, NEW r \in JobRec, r.reg \subseteq rows, ListOK(r.todo),
           \A v \in Workers \ {Recovery} : job[v].pc = "remux" => <<"mp4", job[v].s>> \notin r.todo,
           NEW b \in Takes(r), Step(Recovery, b), UNCHANGED disk
    PROVE  PipelineInv' /\ DiskKeeps
<1>1. PICK w \in Workers : w = Recovery
  BY DEF Workers
<1>2. CASE b = Resting
  BY <1>1, <1>2, WorkerRests
<1>3. CASE b # Resting
  <2>1. PICK f \in r.todo \ mark : b = TakesOrphan(r, f) /\ Free(Recovery, f[2])
    BY <1>3 DEF Takes
  <2>2. PICK g : g = Begins(r, f)
    OBVIOUS
  <2>3. /\ g \in JobRec /\ FileOK(g) /\ g.pc \in {"probe", "codec", "fsync"}
        /\ g.s = f[2] /\ g.s \in Segments /\ g.reg = r.reg /\ g.todo \subseteq r.todo
    BY <2>2, BeginsOK
  <2>4. /\ b \in JobRec /\ FileOK(b) /\ b.pc # "remux" /\ b.s = g.s /\ b.todo = g.todo
    <3>1. CASE b = g
      BY <2>3, <3>1
    <3>2. CASE b # g
      <4>1. f[2] \in r.reg /\ b = [g EXCEPT !.pc = "unlink"]
        BY <2>1, <2>2, <3>2 DEF TakesOrphan
      <4>2. b \in JobRec
        BY <2>3, <4>1 DEF JobRec, JobPcs, AtFile
      <4>3. b.pc = "unlink" /\ b.s = g.s /\ b.reg = g.reg /\ b.todo = g.todo
        BY <2>3, <4>1 DEF JobRec
      <4>4. mp4[b.s] = "synced"
        BY <2>3, <4>1, <4>3 DEF PipelineInv, RowsPlayable
      <4>5. FileOK(b)
        BY <2>3, <4>3, <4>4 DEF FileOK, AtFile
      <4> QED BY <4>2, <4>3, <4>5
    <3> QED BY <3>1, <3>2
  <2>5. /\ Step(w, b) /\ Free(w, b.s)
        /\ \A v \in Workers \ {w} : job[v].pc = "remux" => <<"mp4", job[v].s>> \notin b.todo
    BY <1>1, <2>1, <2>3, <2>4
  <2> QED BY <2>4, <2>5, WorkerTurns
<1> QED BY <1>2, <1>3

LEMMA RecoverReadKeeps ==
    ASSUME PipelineInv, RecoverRead
    PROVE  PipelineInv' /\ DiskKeeps
<1>1. PICK r : r = [Resting EXCEPT !.pc = "walk", !.reg = rows]
  OBVIOUS
<1>2. PICK w \in Workers : w = Recovery
  BY DEF Workers
<1>3. r \in JobRec /\ r.pc = "walk" /\ r.reg = rows /\ r.todo = {}
  BY <1>1, RestingOK DEF PipelineInv, TypeInv, JobRec, JobPcs, Resting
<1>4. FileOK(r) /\ r.pc # "remux" /\ r.pc \notin AtFile
  BY <1>3 DEF FileOK, ListOK, AtFile
<1>5. Step(w, r) /\ UNCHANGED disk
  BY <1>1, <1>2 DEF RecoverRead
<1>6. \A v \in Workers \ {w} : job[v].pc = "remux" => <<"mp4", job[v].s>> \notin r.todo
  BY <1>3
<1> QED BY <1>3, <1>4, <1>5, <1>6, WorkerTurns

(* What the walk finds is in order, and nobody has it. *)
LEMMA OrphansInOrder ==
    ASSUME PipelineInv, NEW reg, NEW l \in SUBSET Orphans(reg)
    PROVE  /\ l \in SUBSET Files /\ ListOK(l)
           /\ \A v \in Workers \ {Recovery} : job[v].pc = "remux" => <<"mp4", job[v].s>> \notin l
<1>1. l \in SUBSET Files
  BY DEF Orphans, Files, Kinds
<1>2. ListOK(l)
  BY DEF Orphans, ListOK
<1>3. ASSUME NEW s \in Segments, <<"mp4", s>> \in l
      PROVE  Free(Recovery, s)
  BY <1>3 DEF Orphans
<1>4. ASSUME NEW v \in Workers \ {Recovery}, job[v].pc = "remux", <<"mp4", job[v].s>> \in l
      PROVE  FALSE
  <2>1. job[v].s \in Segments
    BY <1>4, FileFacts DEF AtFile
  <2>2. Free(Recovery, job[v].s)
    BY <1>3, <1>4, <2>1
  <2> QED BY <1>4, <2>2 DEF Free, Has
<1> QED BY <1>1, <1>2, <1>4

LEMMA RecoverStepKeeps ==
    ASSUME PipelineInv, RecoverStep
    PROVE  PipelineInv' /\ DiskKeeps
<1>1. PICK w \in Workers : w = Recovery
  BY DEF Workers
<1>2. /\ job[w] \in JobRec /\ job[w].reg \subseteq rows /\ ListOK(job[w].todo)
      /\ \A v \in Workers : job[v].pc = "remux" => <<"mp4", job[v].s>> \notin job[w].todo
  BY OwnList
<1>3. CASE RecoverNext
  <2>1. PICK b \in Takes(job[w]) : Step(Recovery, b)
    BY <1>1, <1>3 DEF RecoverNext
  <2>2. UNCHANGED disk
    BY <1>3 DEF RecoverNext
  <2> QED BY <1>2, <2>1, <2>2, RecoveryTakes
<1>4. ASSUME NEW found, RecoverWalk(found)
      PROVE  PipelineInv' /\ DiskKeeps
  <2>1. found \in SUBSET Orphans(job[w].reg)
    BY <1>1, <1>4 DEF RecoverWalk
  <2>2. /\ found \in SUBSET Files /\ ListOK(found)
        /\ \A v \in Workers \ {Recovery} : job[v].pc = "remux" => <<"mp4", job[v].s>> \notin found
    BY <2>1, OrphansInOrder
  <2>3. PICK r : r = [job[w] EXCEPT !.todo = found]
    OBVIOUS
  <2>4. r \in JobRec /\ r.todo = found /\ r.reg = job[w].reg
    BY <1>2, <2>2, <2>3 DEF JobRec
  <2>5. PICK b \in Takes(r) : Step(Recovery, b)
    BY <1>1, <1>4, <2>3 DEF RecoverWalk
  <2>6. UNCHANGED disk
    BY <1>4 DEF RecoverWalk
  <2> QED BY <1>2, <2>2, <2>4, <2>5, <2>6, RecoveryTakes
<1> QED BY <1>3, <1>4 DEF RecoverStep

-----------------------------------------------------------------------------
(* The promotion, the recording process, the kernel and the ends of the API. *)

(* A segment that was not in the directory is in nobody's hands. *)
LEMMA PromoteMoveKeeps ==
    ASSUME PipelineInv, NEW s \in Segments, PromoteMove(s)
    PROVE  PipelineInv' /\ DiskKeeps
<1>1. PICK w \in Workers : w = Promotion
  BY DEF Workers
<1>2. /\ ts[s] = "none" /\ ts' = [ts EXCEPT ![s] = "closed"] /\ UNCHANGED <<good, mp4, rows>>
      /\ ts \in [Segments -> TsStates] /\ mp4 \in [Segments -> Mp4States] /\ rows \in SUBSET Segments
  BY DEF PromoteMove, PipelineInv, TypeInv
<1>3. /\ ts' \in [Segments -> TsStates] /\ ts'[s] = "closed"
      /\ \A z \in Segments : z # s => ts'[z] = ts[z]
  BY <1>2 DEF TsStates
<1>4. PICK r : r = [Resting EXCEPT !.pc = "moved", !.s = s]
  OBVIOUS
<1>5. r \in JobRec /\ r.pc = "moved" /\ r.s = s /\ r.todo = {} /\ r.reg = {}
  BY <1>4, RestingOK DEF JobRec, JobPcs, AtFile, Resting
<1>6. FileOK(r)'
  BY <1>3, <1>5 DEF FileOK, ListOK
<1>7. Tidy(w, r)
  BY <1>5 DEF Tidy
<1>8. Free(w, r.s)
  <2>1. ASSUME NEW v \in Workers, Has(v, s)
        PROVE  FALSE
    <3>1. job[v] \in JobRec /\ job[v].pc \in AtFile /\ job[v].s = s
      BY <2>1 DEF PipelineInv, TypeInv, Has, JobRec, JobPcs
    <3> QED BY <1>2, <3>1, FileFacts
  <2> QED BY <1>5, <2>1 DEF Free
<1>9. LeavesOthers(w) /\ Born' /\ RowsPlayable' /\ DiskKeeps
  BY <1>2, <1>3 DEF LeavesOthers, Born, RowsPlayable, DiskKeeps, PipelineInv
<1>10. Step(w, r)
  BY <1>1, <1>4 DEF PromoteMove
<1> QED BY <1>2, <1>3, <1>5, <1>6, <1>7, <1>8, <1>9, <1>10, WorkerGoesOn

(* The workers stay where they are. *)
LEMMA DiskMoves ==
    ASSUME PipelineInv, ts' \in [Segments -> TsStates], mp4' \in [Segments -> Mp4States],
           \A s \in Segments : /\ mp4'[s] = mp4[s] \/ (mp4[s] = "whole" /\ mp4'[s] = "synced")
                               /\ ts[s] = "kept" => ts'[s] = "kept"
                               /\ ts[s] # "none" => ts'[s] # "none",
           UNCHANGED <<good, rows, job>>
    PROVE  PipelineInv' /\ DiskKeeps
<1>1. TypeInv'
  BY DEF PipelineInv, TypeInv
<1>2. FilesOK'
  <2>1. ASSUME NEW v \in Workers
        PROVE  FileOK(job[v])'
    <3>1. PICK q \in JobRec : q = job[v] /\ q = job'[v]
      BY DEF PipelineInv, TypeInv
    <3>2. FileOK(q)
      BY <3>1 DEF PipelineInv, FilesOK
    <3>3. ListOK(q.todo)'
      BY <3>2 DEF FileOK, ListOK
    <3>4. FileOK(q)'
      BY <3>2, <3>3 DEF FileOK, AtFile
    <3> QED BY <3>1, <3>4 DEF FileOK
  <2> QED BY <2>1 DEF FilesOK
<1>3. Apart' /\ Clean'
  BY DEF PipelineInv, Apart, Clean, Clear
<1>4. Born' /\ RowsPlayable' /\ DiskKeeps
  BY DEF PipelineInv, TypeInv, Born, RowsPlayable, DiskKeeps
<1> QED BY <1>1, <1>2, <1>3, <1>4 DEF PipelineInv

LEMMA ClosingOK ==
    ASSUME PipelineInv
    PROVE  /\ CloseFiles \in [Segments -> TsStates]
           /\ \A s \in Segments : ts[s] # "open" => CloseFiles[s] = ts[s]
           /\ \A s \in Segments : ts[s] = "open" => CloseFiles[s] = "closed"
BY DEF PipelineInv, TypeInv, CloseFiles, TsStates

LEMMA OpenSegmentKeeps ==
    ASSUME PipelineInv, OpenSegment
    PROVE  PipelineInv' /\ DiskKeeps
<1>1. PICK m \in Segments : m = Min(Unwritten) /\ ts[m] = "none"
  <2>1. Unwritten \in SUBSET Segments /\ Unwritten # {} /\ \A s \in Unwritten : ts[s] = "none"
    BY DEF OpenSegment, Unwritten
  <2> QED BY <2>1, MinOfSegments
<1>2. PICK c \in [Segments -> TsStates] :
         /\ c = CloseFiles
         /\ \A s \in Segments : ts[s] # "open" => c[s] = ts[s]
         /\ \A s \in Segments : ts[s] = "open" => c[s] = "closed"
  BY ClosingOK
<1>3. ts' = [c EXCEPT ![m] = "open"] /\ UNCHANGED <<good, mp4, rows, job>>
  BY <1>1, <1>2 DEF OpenSegment
<1>4. /\ ts' \in [Segments -> TsStates] /\ mp4 \in [Segments -> Mp4States]
      /\ \A s \in Segments : (ts[s] = "kept" => ts'[s] = "kept") /\ (ts[s] # "none" => ts'[s] # "none")
  BY <1>1, <1>2, <1>3 DEF TsStates, PipelineInv, TypeInv
<1> QED BY <1>3, <1>4, DiskMoves

LEMMA ProcessEndsKeeps ==
    ASSUME PipelineInv, ProcessEnds
    PROVE  PipelineInv' /\ DiskKeeps
<1>1. ts' = CloseFiles /\ UNCHANGED <<good, mp4, rows, job>>
  BY DEF ProcessEnds
<1>2. /\ ts' \in [Segments -> TsStates] /\ mp4 \in [Segments -> Mp4States]
      /\ \A s \in Segments : (ts[s] = "kept" => ts'[s] = "kept") /\ (ts[s] # "none" => ts'[s] # "none")
  BY <1>1, ClosingOK DEF PipelineInv, TypeInv
<1> QED BY <1>1, <1>2, DiskMoves

LEMMA WriteBackKeeps ==
    ASSUME PipelineInv, NEW s \in Segments, WriteBack(s)
    PROVE  PipelineInv' /\ DiskKeeps
<1>1. ts \in [Segments -> TsStates] /\ mp4 \in [Segments -> Mp4States]
  BY DEF PipelineInv, TypeInv
<1>2. /\ ts' \in [Segments -> TsStates]
      /\ \A z \in Segments : (ts[z] = "kept" => ts'[z] = "kept") /\ (ts[z] # "none" => ts'[z] # "none")
  BY <1>1 DEF WriteBack, TsStates
<1>3. /\ mp4' \in [Segments -> Mp4States]
      /\ \A z \in Segments : mp4'[z] = mp4[z] \/ (mp4[z] = "whole" /\ mp4'[z] = "synced")
  BY <1>1 DEF WriteBack, Mp4States
<1>4. UNCHANGED <<good, rows, job>>
  BY DEF WriteBack
<1> QED BY <1>2, <1>3, <1>4, DiskMoves

(* After an end of the API the workers rest. *)
LEMMA EndsKeep ==
    ASSUME PipelineInv, Forget, ts' \in [Segments -> TsStates], mp4' \in [Segments -> Mp4States],
           \A s \in Segments : /\ mp4[s] = "synced" => mp4'[s] = "synced"
                               /\ ts[s] = "kept" => ts'[s] = "kept"
                               /\ ts'[s] = "none" => ts[s] = "none"
                               /\ mp4[s] = "none" => mp4'[s] = "none",
           UNCHANGED <<good, rows>>
    PROVE  PipelineInv' /\ DiskKeeps
<1>1. job' = [w \in Workers |-> Resting]
  BY DEF Forget
<1>2. TypeInv'
  BY <1>1, RestingOK DEF PipelineInv, TypeInv
<1>3. FilesOK' /\ Apart' /\ Clean'
  BY <1>1 DEF FilesOK, FileOK, ListOK, Apart, Clean, Resting, AtFile
<1>4. Born' /\ RowsPlayable' /\ DiskKeeps
  BY DEF PipelineInv, TypeInv, Born, RowsPlayable, DiskKeeps
<1> QED BY <1>2, <1>3, <1>4 DEF PipelineInv

LEMMA ApiEndsKeeps ==
    ASSUME PipelineInv, ApiEnds
    PROVE  PipelineInv' /\ DiskKeeps
<1>1. /\ ts' \in [Segments -> TsStates]
      /\ \A s \in Segments : (ts[s] = "kept" => ts'[s] = "kept") /\ (ts'[s] = "none" => ts[s] = "none")
  BY ClosingOK DEF ApiEnds
<1>2. mp4 \in [Segments -> Mp4States] /\ UNCHANGED <<good, mp4, rows>> /\ Forget
  BY DEF PipelineInv, TypeInv, ApiEnds
<1> QED BY <1>1, <1>2, EndsKeep

LEMMA PowerLossKeeps ==
    ASSUME PipelineInv, PowerLoss
    PROVE  PipelineInv' /\ DiskKeeps
<1>1. Forget /\ UNCHANGED <<good, rows>>
  BY DEF PowerLoss
<1>2. /\ ts' \in [Segments -> TsStates]
      /\ \A s \in Segments : (ts[s] = "kept" => ts'[s] = "kept") /\ (ts'[s] = "none" => ts[s] = "none")
  <2>1. ts' \in [Segments -> {"none", "kept", "gone"}] /\ \A s \in Segments : ts'[s] \in TsAfter(s)
    BY DEF PowerLoss
  <2> QED BY <2>1 DEF TsStates, TsAfter
<1>3. /\ mp4' \in [Segments -> Mp4States]
      /\ \A s \in Segments : /\ mp4[s] = "synced" => mp4'[s] = "synced"
                             /\ mp4[s] = "none" => mp4'[s] = "none"
  <2>1. mp4' \in [Segments -> {"none", "partial", "synced"}] /\ \A s \in Segments : mp4'[s] \in Mp4After(s)
    BY DEF PowerLoss
  <2>2. \A s \in Segments : /\ mp4[s] = "synced" => Mp4After(s) = {"synced"}
                            /\ mp4[s] = "none" => Mp4After(s) = {"none"}
    BY DEF Mp4After
  <2> QED BY <2>1, <2>2 DEF Mp4States
<1> QED BY <1>1, <1>2, <1>3, EndsKeep

-----------------------------------------------------------------------------
LEMMA FileStepKeeps ==
    ASSUME PipelineInv, "fsyncFails" \notin Faults, NEW w \in Workers, FileStep(w)
    PROVE  PipelineInv' /\ DiskKeeps
BY RemuxBeginsKeeps, RemuxEndsKeeps, RemuxFailsKeeps, FsyncFileKeeps, ProbeSegmentKeeps,
   InsertRowKeeps, InsertFailsKeeps, UnlinkTsKeeps, WriteMarkerKeeps DEF FileStep

LEMMA NextKeeps ==
    ASSUME PipelineInv, {"overlap", "fsyncFails"} \cap Faults = {}, [Next]_vars
    PROVE  PipelineInv' /\ DiskKeeps
<1>1. "overlap" \notin Faults /\ "fsyncFails" \notin Faults
  OBVIOUS
<1>2. CASE UNCHANGED vars
  BY <1>2, NothingMoves DEF vars, disk
<1>3. CASE StartRecording
  BY <1>3, NothingMoves DEF StartRecording, disk
<1>4. CASE Next /\ ~StartRecording
  BY <1>1, <1>4, OpenSegmentKeeps, ProcessEndsKeeps, WriteBackKeeps, ScanTickKeeps,
     FinalScanKeeps, ScanStepKeeps, RecoverReadKeeps, RecoverStepKeeps, PromoteMoveKeeps,
     PromoteBeginsKeeps, FileStepKeeps, ApiEndsKeeps, PowerLossKeeps DEF Next
<1> QED BY <1>2, <1>3, <1>4

LEMMA InitKeeps == Init => PipelineInv
<1> SUFFICES ASSUME Init PROVE PipelineInv
  OBVIOUS
<1>1. job = [w \in Workers |-> Resting] /\ rows = {}
  BY DEF Init
<1>2. TypeInv
  BY <1>1, RestingOK DEF Init, TypeInv, TsStates, Mp4States
<1>3. FilesOK /\ Apart /\ Clean
  BY <1>1, RestingOK DEF FilesOK, Apart, Clean, AtFile
<1>4. Born /\ RowsPlayable
  BY <1>1 DEF Init, Born, RowsPlayable
<1> QED BY <1>2, <1>3, <1>4 DEF PipelineInv

(* A row never points to a file that is missing, cannot be played or would not
   survive a power loss, whatever ffmpeg, the database and the ends of the API
   do, as long as fsync does its work and no scan takes a file that the
   promotion or the recovery has in hand. *)
THEOREM RowsArePlayable ==
    ASSUME {"overlap", "fsyncFails"} \cap Faults = {}
    PROVE  Spec => []RowsPlayable
<1>1. PipelineInv /\ [Next]_vars => PipelineInv'
  BY NextKeeps
<1>2. PipelineInv => RowsPlayable
  BY DEF PipelineInv
<1> QED BY <1>1, <1>2, InitKeeps, PTL DEF Spec

(* Footage that has reached the disk stays there, in its .ts or in its .mp4,
   under the same two conditions. *)
THEOREM FootageIsKept ==
    ASSUME {"overlap", "fsyncFails"} \cap Faults = {}
    PROVE  Spec => FootageStays
<1>1. PipelineInv /\ [Next]_vars => PipelineInv'
  BY NextKeeps
<1>2. ASSUME PipelineInv, [Next]_vars
      PROVE  [\A s \in Segments : good[s] /\ OnDisk(s) => OnDisk(s)']_vars
  <2>1. DiskKeeps
    BY <1>2, NextKeeps
  <2> QED BY <2>1 DEF DiskKeeps, OnDisk
<1> QED BY <1>1, <1>2, InitKeeps, PTL DEF Spec, FootageStays
=============================================================================
