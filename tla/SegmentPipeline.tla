--------------------------- MODULE SegmentPipeline ---------------------------
(***************************************************************************)
(* From captured .ts files to registered recordings, for one camera:       *)
(* performSegmentScan, remuxAndRegisterTsSegment, registerSegment, the      *)
(* quarantine, recoverOrphanedSegments and promotePreRoll of               *)
(* apps/api/src/recordings/recording-process-manager.service.ts.           *)
(*                                                                         *)
(* Segments are numbered as their file names sort.  Three workers call     *)
(* remuxAndRegisterTsSegment on files of the camera's directory: the scans *)
(* of the active recording, which scanInFlight keeps one at a time, the    *)
(* periodic orphan recovery, and the promotion of the pre-event ring,      *)
(* which moves its files there first.  One action is the code from one     *)
(* await to the next.                                                      *)
(***************************************************************************)
EXTENDS Naturals, FiniteSets, FiniteSetsExt

CONSTANTS
    Segments,       \* 1..N: the segments the camera will ever record (bound)
    Ring,           \* those captured by the pre-event ring, not by the recorder
    Scan, Recovery, Promotion,  \* the three workers
    MaxAttempts,    \* RECORDING_SEGMENT_REMUX_MAX_ATTEMPTS
    Limit,          \* RECORDING_ORPHAN_RECOVERY_LIMIT
    MaxCrashes,     \* ends of the API process in a behaviour (bound)
    Faults          \* what may go wrong

ASSUME PipelineConstants ==
    /\ Segments \subseteq Nat \ {0}
    /\ Ring \subseteq Segments
    /\ Scan # Recovery /\ Scan # Promotion /\ Recovery # Promotion
    /\ MaxAttempts \in Nat \ {0}
    /\ Limit \in Nat
    /\ MaxCrashes \in Nat

Workers == {Scan, Recovery, Promotion}
Kinds   == {"ts", "mp4"}
Files   == Kinds \X Segments

VARIABLES
    good,       \* the capture of the segment can be remuxed and played
    ts,         \* the .ts in the camera's directory: not there yet, open, closed,
                \* on the disk, deleted
    mp4,        \* its .mp4: absent, incomplete, complete, complete and on disk
    rows,       \* segments with a row in the database
    mark,       \* files with a quarantine marker beside them
    fails,      \* this.segmentRemuxFailures
    rec,        \* the camera's entry of `active` and its ffmpeg
    known,      \* knownFiles of that entry
    job,        \* what each worker is doing
    crashes     \* ends of the API process so far

disk == <<good, ts, mp4, rows, mark>>
vars == <<good, ts, mp4, rows, mark, fails, rec, known, job, crashes>>

Resting == [pc |-> "idle", kind |-> "ts", s |-> 0, todo |-> {}, reg |-> {},
            final |-> FALSE]

-----------------------------------------------------------------------------
Present(s) == ts[s] \in {"open", "closed", "kept"}
At(w, pc)  == job[w].pc = pc
Step(w, r) == job' = [job EXCEPT ![w] = r]
Goto(w, pc) == Step(w, [job[w] EXCEPT !.pc = pc])
File(w)    == <<job[w].kind, job[w].s>>

(* knownFiles belongs to the scans; the other workers have no such set. *)
Know(w) == known' = IF w = Scan THEN known \cup {job[w].s} ELSE known

(* The worker is done with its file: the scan and the recovery take their next
   one, the promotion moves its next one first. *)
NextFile(w) == IF w = Promotion THEN Step(w, Resting) ELSE Goto(w, "next")

(* Nothing but time keeps two workers from the same file: the recovery's grace
   period outlasts a worker's time with a file, but a scan takes what another
   worker has in hand if it comes early enough ("overlap"). *)
Has(w, s)  == job[w].pc \notin {"idle", "walk", "next"} /\ job[w].s = s
Free(w, s) == \A v \in Workers \ {w} : ~Has(v, s)

CloseFiles == [s \in Segments |-> IF ts[s] = "open" THEN "closed" ELSE ts[s]]

-----------------------------------------------------------------------------
(* The recording process.                                                  *)

Unwritten == {s \in Segments \ Ring : ts[s] = "none"}

(* start(): a new entry in `active`. *)
StartRecording ==
    /\ rec = "off" /\ Unwritten # {}
    /\ rec' = "on" /\ known' = {}
    /\ UNCHANGED <<disk, fails, job, crashes>>

(* ffmpeg closes the segment it writes and opens the next one. *)
OpenSegment ==
    /\ rec = "on" /\ Unwritten # {}
    /\ ts' = [CloseFiles EXCEPT ![Min(Unwritten)] = "open"]
    /\ UNCHANGED <<good, mp4, rows, mark, fails, rec, known, job, crashes>>

(* ffmpeg exits: finalizeRecordingState begins. *)
ProcessEnds ==
    /\ rec = "on"
    /\ rec' = "closing" /\ ts' = CloseFiles
    /\ UNCHANGED <<good, mp4, rows, mark, fails, known, job, crashes>>

(* The kernel writes dirty pages to the disk. *)
WriteBack(s) ==
    /\ ts[s] = "closed" \/ mp4[s] = "whole"
    /\ ts'  = [ts  EXCEPT ![s] = IF @ = "closed" THEN "kept" ELSE @]
    /\ mp4' = [mp4 EXCEPT ![s] = IF @ = "whole" THEN "synced" ELSE @]
    /\ UNCHANGED <<good, rows, mark, fails, rec, known, job, crashes>>

-----------------------------------------------------------------------------
(* The scans of a recording.                                               *)

Listing == {s \in Segments : Present(s)}

(* What a scan has still to do: known and quarantined files are passed by. *)
ScanWork(r) == {s \in Segments : <<"ts", s>> \in r.todo \ mark /\ s \notin known}

(* The worker begins with file f: a .ts whose .mp4 is already there, whatever
   is in it, is not remuxed again. *)
Begins(r, f) ==
    [r EXCEPT !.kind = f[1], !.s = f[2], !.todo = @ \ {f},
              !.pc = IF f[1] = "mp4" THEN "probe"
                     ELSE IF mp4[f[2]] = "none" THEN "codec" ELSE "fsync"]

BeginsScan(r) ==
    /\ "overlap" \in Faults \/ Free(Scan, Min(ScanWork(r)))
    /\ Step(Scan, Begins(r, <<"ts", Min(ScanWork(r))>>))

(* The watcher's tick: every .ts but the newest, which ffmpeg may be writing.
   A scan without work changes nothing. *)
ScanTick ==
    LET r == [Resting EXCEPT !.todo = {"ts"} \X (Listing \ {Max(Listing)})] IN
    /\ rec = "on" /\ At(Scan, "idle") /\ Listing # {}
    /\ ScanWork(r) # {} /\ BeginsScan(r)
    /\ UNCHANGED <<disk, fails, rec, known, crashes>>

(* What becomes of the recording when scan r is over: after the final one the
   camera leaves `active`. *)
RecAfter(r) == IF r.final THEN "off" ELSE rec

(* finalizeRecordingState: once no scan is in flight, a scan of every .ts. *)
FinalScan ==
    LET r == [Resting EXCEPT !.final = TRUE, !.todo = {"ts"} \X Listing] IN
    /\ rec = "closing" /\ At(Scan, "idle")
    /\ IF ScanWork(r) = {} THEN rec' = RecAfter(r) /\ job' = job
                           ELSE rec' = rec /\ BeginsScan(r)
    /\ UNCHANGED <<disk, fails, known, crashes>>

(* The next file of a scan.  statSync of one that is gone throws:
   scanAndRegister catches what its own scan throws, but a finalisation that
   was awaiting scanInFlight is rejected with it and never releases the
   camera. *)
ScanNext ==
    LET r == job[Scan] IN
    /\ At(Scan, "next") /\ ScanWork(r) # {}
    /\ IF Present(Min(ScanWork(r)))
       THEN BeginsScan(r) /\ rec' = rec
       ELSE /\ Step(Scan, Resting)
            /\ rec' = IF RecAfter(r) = "closing" THEN "stuck" ELSE RecAfter(r)
    /\ UNCHANGED <<disk, fails, known, crashes>>

(* The last file is done. *)
ScanEnds ==
    /\ At(Scan, "next") /\ ScanWork(job[Scan]) = {}
    /\ Step(Scan, Resting)
    /\ rec' = RecAfter(job[Scan])
    /\ UNCHANGED <<disk, fails, known, crashes>>

-----------------------------------------------------------------------------
(* The orphan recovery.                                                    *)

(* The registered paths are read once, before the walk. *)
RecoverRead ==
    /\ At(Recovery, "idle")
    /\ Step(Recovery, [Resting EXCEPT !.pc = "walk", !.reg = rows])
    /\ UNCHANGED <<disk, fails, rec, known, crashes>>

(* Files older than the grace period, which outlasts the kernel's write-back
   and a worker's time with a file: every .ts and the .mp4 files without a
   row. *)
Orphans(reg) ==
    LET old == {s \in Segments : Free(Recovery, s)} IN
    {<<"ts", s>> : s \in {x \in old : ts[x] = "kept"}} \cup
    {<<"mp4", s>> : s \in {x \in old \ reg : mp4[x] \in {"partial", "synced"}}}

(* The recovery takes another file, in the order of the directory, passing by
   quarantined ones; a .ts whose .mp4 had a row when the run began is garbage.
   A camera that has become active is left alone. *)
TakesOrphan(r, f) ==
    IF f[1] = "ts" /\ f[2] \in r.reg THEN [Begins(r, f) EXCEPT !.pc = "unlink"]
                                     ELSE Begins(r, f)

Takes(r) == IF rec # "off" \/ r.todo \subseteq mark THEN {Resting}
            ELSE {TakesOrphan(r, f) : f \in {g \in r.todo \ mark : Free(Recovery, g[2])}}

(* The walk of an inactive camera stops at the limit, wherever it has got to. *)
RecoverWalk(found) ==
    LET all == IF rec = "off" THEN Orphans(job[Recovery].reg) ELSE {} IN
    /\ At(Recovery, "walk")
    /\ found \subseteq all
    /\ found = all \/ Cardinality(found) = Limit
    /\ \E r \in Takes([job[Recovery] EXCEPT !.todo = found]) : Step(Recovery, r)
    /\ UNCHANGED <<disk, fails, rec, known, crashes>>

RecoverNext ==
    /\ At(Recovery, "next")
    /\ \E r \in Takes(job[Recovery]) : Step(Recovery, r)
    /\ UNCHANGED <<disk, fails, rec, known, crashes>>

-----------------------------------------------------------------------------
(* The promotion of the pre-event ring.                                    *)

(* promotePreRoll moves a segment of the ring into the camera's directory, where
   the scans and the recovery find it, unless its name is taken.  It is called
   before start() and again right after, when the watcher is armed; the closed
   files of the ring are older than the one the recorder has open. *)
PromoteMove(s) ==
    /\ At(Promotion, "idle") /\ s \in Ring /\ ts[s] = "none"
    /\ \A q \in Segments \ Ring : q < s => ts[q] \notin {"none", "open"}
    /\ ts' = [ts EXCEPT ![s] = "closed"]
    /\ Step(Promotion, [Resting EXCEPT !.pc = "moved", !.s = s])
    /\ UNCHANGED <<good, mp4, rows, mark, fails, rec, known, crashes>>

(* The rename came back: the remux begins. *)
PromoteBegins ==
    /\ At(Promotion, "moved")
    /\ Step(Promotion, Begins(job[Promotion], <<"ts", job[Promotion].s>>))
    /\ UNCHANGED <<disk, fails, rec, known, crashes>>

-----------------------------------------------------------------------------
(* One file: remux, fsync, probe, row, unlink.                             *)

(* Mutant: no limit on the attempts. *)
CountFailure_NoLimit(w) ==
    fails' = fails /\ NextFile(w)

(* registerSegmentRemuxFailure: any failure counts, and the one that reaches
   the limit puts the file in quarantine.  The promotion only logs its own. *)
CountFailure(w) ==
    LET f == File(w)
        n == fails[f] + 1
    IN  IF w = Promotion THEN fails' = fails /\ NextFile(w)
        ELSE IF n < MaxAttempts
        THEN fails' = [fails EXCEPT ![f] = n] /\ Goto(w, "next")
        ELSE fails' = [fails EXCEPT ![f] = 0] /\ Goto(w, "mark")

(* ffmpeg -y truncates the .mp4, if the .ts can still be opened; otherwise it
   fails and the .mp4 path is unlinked. *)
RemuxBegins(w) ==
    LET s == job[w].s IN
    /\ At(w, "codec")
    /\ IF Present(s)
       THEN /\ mp4' = [mp4 EXCEPT ![s] = "partial"]
            /\ Goto(w, "remux") /\ fails' = fails
       ELSE /\ mp4' = [mp4 EXCEPT ![s] = "none"]
            /\ CountFailure(w)
    /\ UNCHANGED <<good, ts, rows, mark, rec, known, crashes>>

(* ffmpeg exits with 0.  What a bad capture gives cannot be played, and a file
   another ffmpeg is writing too is not complete. *)
RemuxEnds(w) ==
    LET s     == job[w].s
        alone == \A v \in Workers \ {w} : ~(At(v, "remux") /\ job[v].s = s)
    IN  /\ At(w, "remux")
        /\ mp4' = [mp4 EXCEPT ![s] = IF @ = "none" THEN @
                                     ELSE IF good[s] /\ alone THEN "whole" ELSE "partial"]
        /\ Goto(w, "fsync")
        /\ UNCHANGED <<good, ts, rows, mark, fails, rec, known, crashes>>

(* ffmpeg fails or is killed by its time limit: the .mp4 is unlinked. *)
RemuxFails(w) ==
    LET s == job[w].s IN
    /\ At(w, "remux") /\ (~good[s] \/ "ffmpegFails" \in Faults)
    /\ mp4' = [mp4 EXCEPT ![s] = "none"]
    /\ CountFailure(w)
    /\ UNCHANGED <<good, ts, rows, mark, rec, known, crashes>>

(* Mutant: the row is written without waiting for the bytes. *)
FsyncFile_NoSync(w) ==
    /\ At(w, "fsync")
    /\ Goto(w, "probe")
    /\ UNCHANGED <<disk, fails, rec, known, crashes>>

(* fsync, best effort: a failure is logged and the file registered anyway. *)
FsyncFile(w) ==
    LET s == job[w].s IN
    /\ At(w, "fsync")
    /\ \E done \in IF "fsyncFails" \in Faults THEN BOOLEAN ELSE {TRUE} :
          mp4' = [mp4 EXCEPT ![s] = IF @ = "whole" /\ done THEN "synced" ELSE @]
    /\ Goto(w, "probe")
    /\ UNCHANGED <<good, ts, rows, mark, fails, rec, known, crashes>>

(* registerSegment: no row for a file without duration or video. *)
ProbeSegment(w) ==
    /\ At(w, "probe")
    /\ IF mp4[job[w].s] \in {"whole", "synced"}
       THEN Goto(w, "insert") /\ fails' = fails
       ELSE CountFailure(w)
    /\ UNCHANGED <<disk, rec, known, crashes>>

(* The row is created, or updated if the path has one; the recovery adds it to
   the paths it knows, and the failures of the file are forgotten by the worker
   that counts them. *)
InsertRow(w) ==
    /\ At(w, "insert")
    /\ rows' = rows \cup {job[w].s}
    /\ fails' = IF w = Promotion THEN fails ELSE [fails EXCEPT ![File(w)] = 0]
    /\ Step(w, [job[w] EXCEPT !.pc = IF job[w].kind = "ts" THEN "unlink" ELSE "next",
                              !.reg = IF w = Recovery THEN @ \cup {job[w].s} ELSE @])
    /\ UNCHANGED <<good, ts, mp4, mark, rec, known, crashes>>

(* The database refuses: counted like a failed remux. *)
InsertFails(w) ==
    /\ At(w, "insert") /\ "dbFails" \in Faults
    /\ CountFailure(w)
    /\ UNCHANGED <<disk, rec, known, crashes>>

(* The .ts is removed, or not: the error is ignored. *)
UnlinkTs(w) ==
    LET s == job[w].s IN
    /\ At(w, "unlink")
    /\ \E kept \in IF "unlinkFails" \in Faults THEN BOOLEAN ELSE {FALSE} :
          ts' = IF kept THEN ts ELSE [ts EXCEPT ![s] = "gone"]
    /\ Know(w) /\ NextFile(w)
    /\ UNCHANGED <<good, mp4, rows, mark, fails, rec, crashes>>

(* Mutant: the quarantined file is dropped. *)
WriteMarker_Drops(w) ==
    /\ At(w, "mark")
    /\ mark' = mark \cup {File(w)}
    /\ ts' = [ts EXCEPT ![job[w].s] = "gone"]
    /\ Know(w) /\ Goto(w, "next")
    /\ UNCHANGED <<good, mp4, rows, fails, rec, crashes>>


(* The quarantine marker; if it cannot be written, only memory knows. *)
WriteMarker(w) ==
    /\ At(w, "mark")
    /\ \E written \in IF "markFails" \in Faults THEN BOOLEAN ELSE {TRUE} :
          mark' = IF written THEN mark \cup {File(w)} ELSE mark
    /\ Know(w) /\ Goto(w, "next")
    /\ UNCHANGED <<good, ts, mp4, rows, fails, rec, crashes>>

-----------------------------------------------------------------------------
(* The API process ends, with its ffmpeg children, and comes back.         *)

Forget ==
    /\ crashes < MaxCrashes /\ crashes' = crashes + 1
    /\ fails' = [f \in Files |-> 0]
    /\ rec' = "off" /\ known' = {}
    /\ job' = [w \in Workers |-> Resting]

ApiEnds ==
    /\ "apiEnds" \in Faults /\ Forget
    /\ ts' = CloseFiles
    /\ UNCHANGED <<good, mp4, rows, mark>>

(* What the power loss leaves of a file that was not on the disk. *)
TsAfter(s)  == IF ts[s] \in {"open", "closed"} THEN {"gone", "kept"} ELSE {ts[s]}
Mp4After(s) == CASE mp4[s] = "whole"   -> {"none", "partial", "synced"}
                 [] mp4[s] = "partial" -> {"none", "partial"}
                 [] OTHER              -> {mp4[s]}

PowerLoss ==
    /\ "powerLoss" \in Faults /\ Forget
    /\ ts'  \in {f \in [Segments -> {"none", "kept", "gone"}] :
                    \A s \in Segments : f[s] \in TsAfter(s)}
    /\ mp4' \in {f \in [Segments -> {"none", "partial", "synced"}] :
                    \A s \in Segments : f[s] \in Mp4After(s)}
    /\ UNCHANGED <<good, rows, mark>>

-----------------------------------------------------------------------------
Init ==
    /\ good \in [Segments -> BOOLEAN]
    /\ ts   = [s \in Segments |-> "none"]
    /\ mp4  = [s \in Segments |-> "none"]
    /\ rows = {} /\ mark = {}
    /\ fails = [f \in Files |-> 0]
    /\ rec = "off" /\ known = {}
    /\ job = [w \in Workers |-> Resting]
    /\ crashes = 0

FileStep(w) ==
    \/ RemuxBegins(w) \/ RemuxEnds(w) \/ RemuxFails(w) \/ FsyncFile(w)
    \/ ProbeSegment(w) \/ InsertRow(w) \/ InsertFails(w)
    \/ UnlinkTs(w) \/ WriteMarker(w)

ScanStep == ScanNext \/ ScanEnds

RecoverStep ==
    \/ \E found \in SUBSET Orphans(job[Recovery].reg) : RecoverWalk(found)
    \/ RecoverNext

Next ==
    \/ StartRecording \/ OpenSegment \/ ProcessEnds
    \/ \E s \in Segments : WriteBack(s)
    \/ ScanTick \/ FinalScan \/ ScanStep
    \/ RecoverRead \/ RecoverStep
    \/ \E s \in Segments : PromoteMove(s)
    \/ PromoteBegins
    \/ \E w \in Workers : FileStep(w)
    \/ ApiEnds \/ PowerLoss

Spec == Init /\ [][Next]_vars

(***************************************************************************)
(* Promises settle, intervals fire, dirty pages are written back, and an   *)
(* ffmpeg without a file opens one or exits.                               *)
(***************************************************************************)
FirstFile == (\A s \in Segments : ts[s] # "open") /\ (OpenSegment \/ ProcessEnds)

Fairness ==
    /\ \A s \in Segments : WF_vars(WriteBack(s))
    /\ \A w \in Workers : WF_vars(FileStep(w))
    /\ WF_vars(FirstFile)
    /\ WF_vars(ScanTick) /\ WF_vars(FinalScan) /\ WF_vars(ScanStep)
    /\ WF_vars(RecoverRead) /\ WF_vars(RecoverStep) /\ WF_vars(PromoteBegins)

LiveSpec == Spec /\ Fairness

-----------------------------------------------------------------------------
(* Properties.                                                             *)

(* "fsync ANTES de registrar no Postgres": a row never points to a file that
   is missing, cannot be played or would not survive a power loss. *)
RowsPlayable == \A s \in rows : mp4[s] = "synced"

OnDisk(s) == ts[s] = "kept" \/ mp4[s] = "synced"

(* "Aqui NÃO se apaga": footage that has reached the disk stays there, in its
   .ts or in its .mp4, whatever fails on the way to a row. *)
FootageStays == [][\A s \in Segments : good[s] /\ OnDisk(s) => OnDisk(s)']_vars


(* "um único arquivo envenenado gerava ffmpeg/ffprobe nascendo em LOOP": from
   some moment on no worker touches a segment that cannot be remuxed. *)
PoisonStops ==
    \A s \in Segments :
        ~good[s] => <>[](\A w \in Workers : ~(job[w].pc # "idle" /\ job[w].s = s))
=============================================================================
