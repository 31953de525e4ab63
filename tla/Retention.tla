------------------------------ MODULE Retention ------------------------------
(***************************************************************************)
(* The retention of recordings (recordings/retention.service.ts): the pass *)
(* that expires clips, recordings and events by age, in pages, and the     *)
(* disk guardian that removes the oldest recordings when the disk is full. *)
(* A pass ends with the guardian; with BullMQ the guardian also runs on a  *)
(* timer of its own, concurrently.  Beside them, operators export clips    *)
(* and place or lift holds, and recordings found on disk are registered.   *)
(*                                                                         *)
(* A step ends at an await of the code.  The deletion of a row with its    *)
(* files is one step that succeeds or fails: module FileDeletion has its   *)
(* protocol.  Time is counted in days, space in recordings.                *)
(***************************************************************************)
EXTENDS Integers, FiniteSets, Sequences, FiniteSetsExt

CONSTANTS
    Recordings,        \* ids, numbers: the order of the pages
    CameraOf, StartedAt, MotionScore, \* of each recording; a score of -1 is unknown
    CloudOnly,         \* recordings whose file has left the disk
    Late,              \* recordings that are registered after the start
    Clips, Source,     \* ids, numbers; the recording a clip was cut from
    Events, OccurredAt,
    CameraDays,        \* retentionDays of the registered cameras, -1: null
    Policies,          \* the two-tier policies the environment may configure
    FirstHolds,        \* the hold rows there are at the start
    HoldRows,          \* the hold rows an operator may write
    Evidence,          \* the other items of the investigations
    UseBullmq,         \* retentionUseBullmq: the guardian has a timer of its own
    GlobalDays, EventDays, BatchSize, MaxPerCycle,
    GuardBatch, TriggerPercent, TargetPercent, MaxNoProgress, MaxIterations,
    DiskBlocks, FirstOutside, MaxOutside,
    MaxToday, MaxHolds, MaxFailures \* bounds

ASSUME RetentionConstants ==
    /\ IsFiniteSet(Recordings) /\ IsFiniteSet(Clips)
    /\ Recordings \subseteq Nat /\ Clips \subseteq Nat /\ Events \subseteq Nat
    /\ Late \subseteq Recordings /\ CloudOnly \subseteq Recordings
    /\ StartedAt \in [Recordings -> Int] /\ MotionScore \in [Recordings -> Int]
    /\ Source \in [Clips -> Recordings] /\ CameraDays \in [DOMAIN CameraDays -> Int]
    /\ Policies \subseteq [enabled : BOOLEAN, dryRun : BOOLEAN, all : Int, motion : Int]
    /\ GlobalDays \in Nat \ {0} /\ BatchSize \in Nat \ {0} /\ MaxPerCycle \in Nat \ {0}
    /\ GuardBatch \in Nat \ {0} /\ MaxNoProgress \in Nat \ {0} /\ DiskBlocks \in Nat \ {0}
    /\ TargetPercent < TriggerPercent
    /\ FirstOutside \in Nat /\ MaxToday \in Nat /\ MaxFailures \in Nat

Procs == {"pass", "guard"}

VARIABLES
    rows, clipRows, clipFiles, events,
    pending,       \* recordings not registered and clips not exported yet
    holds,         \* the hold rows, in the order they were written
    today, policy,
    outside,       \* space taken by other files on the disk
    failures,
    st             \* the state of each process

db == <<rows, clipRows, clipFiles, events, pending>>
vars == <<rows, clipRows, clipFiles, events, pending, holds, today, policy, outside, failures, st>>

-----------------------------------------------------------------------------
(* Protection: an item is [kind, id].                                      *)

Item(kind, ids) == {[kind |-> kind, id |-> x] : x \in ids}

(* At the start no clip has been exported; what is held is a recording or an
   event. *)
ASSUME HoldsAtStart ==
    /\ FirstHolds \in Seq([investigation : Nat, enabled : BOOLEAN,
                           items : SUBSET (Item("rec", Recordings) \cup Item("event", Events))])
    /\ HoldRows \subseteq [investigation : Nat, enabled : BOOLEAN,
                           items : SUBSET (Item("rec", Recordings) \cup Item("clip", Clips)
                                              \cup Item("event", Events))]
    /\ Evidence \subseteq Item("rec", Recordings) \cup Item("event", Events)

(* Only the latest hold row of an investigation counts. *)
LatestHolds ==
    {holds[k] : k \in {m \in DOMAIN holds :
        \A j \in DOMAIN holds : holds[j].investigation = holds[m].investigation => j <= m}}

HeldItems == Evidence \cup UNION {h.items : h \in {l \in LatestHolds : l.enabled}}

HeldVideo == {x \in HeldItems : x.kind # "event"}

Held(kind) == {x.id : x \in {y \in HeldItems : y.kind = kind}}

\* mutant: the clips of a hold are forgotten
ProtectionSets_NoClips == [rec |-> Held("rec"), clip |-> {}, event |-> Held("event")]

(* getProtectionSets *)
ProtectionSets ==
    [rec   |-> Held("rec") \cup {Source[k] : k \in Held("clip") \cap clipRows},
     clip  |-> Held("clip"),
     event |-> Held("event")]

-----------------------------------------------------------------------------
(* The windows.                                                            *)

\* The windows of the policy, each falling back to the one below it.
Configured(base) ==
    IF ~policy.enabled THEN [all |-> base, motion |-> base]
    ELSE [all    |-> IF policy.all > 0 THEN policy.all ELSE base,
          motion |-> IF policy.motion > 0 THEN policy.motion ELSE base]

(* resolveRetentionWindow *)
Window(base) ==
    LET w == Configured(base)
    IN  [w EXCEPT !.motion = Max({w.all, w.motion})]

\* mutant: the filter lets unknown activity go with the empty ones
ExpiryWhere_Unknown(r, w, now) ==
    /\ StartedAt[r] < now - w.all
    /\ w.motion > w.all => StartedAt[r] < now - w.motion \/ MotionScore[r] <= 0

(* buildExpiryWhere, the camera's part aside *)
ExpiryWhere(r, w, now) ==
    /\ StartedAt[r] < now - w.all
    /\ w.motion > w.all => StartedAt[r] < now - w.motion \/ MotionScore[r] = 0

(* isExpiredByAge, decided again in memory *)
IsExpiredByAge(r, w, now) ==
    LET age == now - StartedAt[r]
    IN  age > w.motion \/ (age > w.all /\ MotionScore[r] = 0)

(* loadRetentionGroups: one group for each number of days, those of the cameras
   that leave it to the installation among them, and one for the recordings of
   no registered camera.  The last one is empty wherever the schema's cascade
   holds (a camera goes with its recordings); the code has it all the same. *)
DaysOf(c) == IF CameraDays[c] = -1 THEN GlobalDays ELSE CameraDays[c]

GroupOf(d) ==
    [days |-> d,
     recs |-> {r \in Recordings : CameraOf[r] \in DOMAIN CameraDays /\ DaysOf(CameraOf[r]) = d}]

CameraGroups == {GroupOf(DaysOf(c)) : c \in DOMAIN CameraDays}

Orphans == [days |-> GlobalDays,
            recs |-> {r \in Recordings : CameraOf[r] \notin DOMAIN CameraDays}]

\* mutant: only the days a camera has of its own make a group
RetentionGroups_OwnDays ==
    {GroupOf(CameraDays[c]) : c \in {k \in DOMAIN CameraDays : CameraDays[k] # -1}} \cup {Orphans}

RetentionGroups == CameraGroups \cup {Orphans}

(* The group a pass is at: the cameras come in no particular order, the
   orphans last. *)
Group(groups) == CHOOSE g \in groups : g = Orphans => groups = {g}

-----------------------------------------------------------------------------
(* Paging.                                                                 *)

Least(a, b) == IF a <= b THEN a ELSE b

Older(a, b) == StartedAt[a] < StartedAt[b] \/ (StartedAt[a] = StartedAt[b] /\ a < b)

OlderClip(a, b) ==
    \/ StartedAt[Source[a]] < StartedAt[Source[b]]
    \/ StartedAt[Source[a]] = StartedAt[Source[b]] /\ a < b

(* orderBy, skip, take: a page is the set of the ids that are left of it, *)
Page(xs, Before(_, _), skip, take) ==
    {x \in xs : LET n == Cardinality({y \in xs : Before(y, x)})
                IN  skip <= n /\ n < skip + take}

(* and its first one is the next. *)
First(page, Before(_, _)) == CHOOSE x \in page : \A y \in page : y = x \/ Before(x, y)

Percent == (100 * (outside + Cardinality(rows \ CloudOnly)) + DiskBlocks \div 2) \div DiskBlocks

Idle == [pc |-> "idle", now |-> 0, prot |-> [rec |-> {}, clip |-> {}, event |-> {}],
         groups |-> {}, skip |-> 0, budget |-> 0, full |-> FALSE, page |-> {}, clips |-> {},
         current |-> 0, iteration |-> 0, noProgress |-> 0, batchDeleted |-> 0,
         \* history: the items that have been held since the protection was read,
         \* the recordings this pass could not delete, whether somebody else changed
         \* the rows, and the deletions since the guardian last saw the usage fall
         covered |-> {}, failed |-> {}, disturbed |-> FALSE,
         wasted |-> 0]

Expiring == st["pass"].pc \in {"clips", "clip", "recs", "rec", "recTx"}

Disturbed == [st EXCEPT !["pass"].disturbed = @ \/ Expiring]

Set(p, s) == st' = [st EXCEPT ![p] = s]

\* the same for a step that changes the rows
SetRows(p, s) ==
    st' = [Disturbed EXCEPT ![p] = s]

(* A deletion that fails for no reason of the model is counted. *)
Fault(expected) ==
    IF expected THEN UNCHANGED failures
    ELSE failures < MaxFailures /\ failures' = failures + 1

\* mutant: the next group is entered with the rows skipped in this one
NextGroup_KeepsSkip(s, pc) == [s EXCEPT !.pc = pc, !.groups = @ \ {Group(@)}, !.page = {}]

NextGroup(s, pc) == [s EXCEPT !.pc = pc, !.groups = @ \ {Group(@)}, !.skip = 0, !.page = {}]

\* mutant: a row that stays is not counted
Skip_Forgets(s) == s

(* A row that stays behind is skipped by the next query; one that is deleted
   leaves the result by itself. *)
Skip(s) == [s EXCEPT !.skip = @ + 1]

(* The next row of the page; after the last one the next page is fetched, or
   the next group when this page was not full. *)
NextInPage(s, x, pc) ==
    IF s.page \ {x} # {} THEN [s EXCEPT !.page = @ \ {x}]
    ELSE IF s.full THEN [s EXCEPT !.pc = pc, !.page = {}]
    ELSE NextGroup(s, pc)
-----------------------------------------------------------------------------
(* The pass.                                                               *)

(* handleRetention up to the first query, the automatic cleanup being on *)
PassStart ==
    /\ st["pass"].pc = "idle"
    /\ Set("pass", [Idle EXCEPT !.pc = "clips", !.now = today, !.prot = ProtectionSets,
                                !.groups = RetentionGroups, !.budget = MaxPerCycle,
                                !.covered = HeldItems])
    /\ UNCHANGED <<db, holds, today, policy, outside, failures>>

(* expireClipsInBatches: the query for a page, or the end of the phase *)
FetchClips ==
    LET s    == st["pass"]
        left == s.groups # {} /\ s.budget > 0
        take == Least(BatchSize, s.budget)
        g    == Group(s.groups)
        page == Page({k \in clipRows : /\ StartedAt[Source[k]] < s.now - g.days
                                       /\ Source[k] \in g.recs}, OlderClip, s.skip, take)
    IN  /\ s.pc = "clips"
        /\ Set("pass",
               IF ~left THEN [s EXCEPT !.pc = "recs", !.groups = RetentionGroups, !.skip = 0,
                                       !.budget = MaxPerCycle]
               ELSE IF page = {} THEN NextGroup(s, "clips")
               ELSE [s EXCEPT !.pc = "clip", !.page = page, !.full = Cardinality(page) = take])
        /\ UNCHANGED <<db, holds, today, policy, outside, failures>>

(* deleteClip, or the clip stays: protected, gone already, or a failure. *)
ExpireClip(ok) ==
    LET s == st["pass"]
        k == First(s.page, OlderClip)
        kept == k \in s.prot.clip
    IN  /\ s.pc = "clip"
        /\ ok => ~kept /\ k \in clipRows
        /\ IF ok
           THEN /\ clipRows' = clipRows \ {k} /\ clipFiles' = clipFiles \ {k}
                /\ Set("pass", NextInPage([s EXCEPT !.budget = @ - 1], k, "clips"))
                /\ UNCHANGED failures
           ELSE /\ Fault(kept \/ k \notin clipRows)
                /\ Set("pass", NextInPage(Skip(s), k, "clips"))
                /\ UNCHANGED <<clipRows, clipFiles>>
        /\ UNCHANGED <<rows, events, pending, holds, today, policy, outside>>

(* expireRecordingsInBatches: the query for a page, or the end of the phase *)
FetchRecs ==
    LET s    == st["pass"]
        left == s.groups # {} /\ s.budget > 0
        take == Least(BatchSize, s.budget)
        g    == Group(s.groups)
        page == Page({r \in rows \cap g.recs : ExpiryWhere(r, Window(g.days), s.now)}, Older,
                     s.skip, take)
    IN  /\ s.pc = "recs"
        /\ Set("pass",
               IF ~left THEN [Idle EXCEPT !.pc = "events", !.now = s.now, !.prot = s.prot,
                                          !.covered = s.covered]
               ELSE IF page = {} THEN NextGroup(s, "recs")
               ELSE [s EXCEPT !.pc = "rec", !.page = page, !.full = Cardinality(page) = take])
        /\ UNCHANGED <<db, holds, today, policy, outside, failures>>

ClipsOf(r) == {k \in clipRows : Source[k] = r}

(* The first half of deleteRecording: is the recording, or one of its clips,
   protected? *)
MayDelete(s, r) == r \notin s.prot.rec /\ ClipsOf(r) \cap s.prot.clip = {}

(* A recording of the page: kept, counted only (dry run), or on to the
   transaction with the clips that have been read. *)
ExpireRec ==
    LET s == st["pass"]
        r == First(s.page, Older)
        skipped == NextInPage(Skip(s), r, "recs")
    IN  /\ s.pc = "rec"
        /\ \/ /\ ~IsExpiredByAge(r, Window(Group(s.groups).days), s.now)
              /\ Set("pass", skipped)
           \/ /\ IsExpiredByAge(r, Window(Group(s.groups).days), s.now)
              /\ policy.enabled /\ policy.dryRun
              /\ Set("pass", IF r \in s.prot.rec THEN skipped
                             ELSE NextInPage([Skip(s) EXCEPT !.budget = @ - 1], r, "recs"))
           \/ /\ IsExpiredByAge(r, Window(Group(s.groups).days), s.now)
              /\ ~(policy.enabled /\ policy.dryRun)
              /\ Set("pass", IF MayDelete(s, r) THEN [s EXCEPT !.pc = "recTx", !.clips = ClipsOf(r)]
                             ELSE skipped)
        /\ UNCHANGED <<db, holds, today, policy, outside, failures>>

\* mutant: the clips' rows outlive the recording
RemoveRow_NoCascade(r, read) ==
    /\ rows' = rows \ {r} /\ UNCHANGED clipRows
    /\ clipFiles' = clipFiles \ read

(* The transaction of deleteRecording: the row, its clips by cascade, and the
   files of the clips that were read. *)
RemoveRow(r, read) ==
    /\ rows' = rows \ {r}
    /\ clipRows' = clipRows \ ClipsOf(r)
    /\ clipFiles' = clipFiles \ read

ExpireRecTx(ok) ==
    LET s == st["pass"]
        r == First(s.page, Older)
    IN  /\ s.pc = "recTx"
        /\ ok => r \in rows
        /\ IF ok
           THEN /\ RemoveRow(r, s.clips)
                /\ SetRows("pass", NextInPage([s EXCEPT !.pc = "rec", !.clips = {},
                                                        !.budget = @ - 1], r, "recs"))
                /\ UNCHANGED failures
           ELSE /\ Fault(r \notin rows)
                /\ Set("pass", NextInPage([Skip(s) EXCEPT !.pc = "rec", !.clips = {},
                                                          !.failed = @ \cup {r}], r, "recs"))
                /\ UNCHANGED <<rows, clipRows, clipFiles>>
        /\ UNCHANGED <<events, pending, holds, today, policy, outside>>

(* The events, in one statement; then the guardian. *)
ExpireEvents ==
    LET s == st["pass"]
    IN  /\ s.pc = "events"
        /\ events' = {e \in events : OccurredAt[e] >= s.now - EventDays \/ e \in s.prot.event}
        /\ Set("pass", [s EXCEPT !.pc = "check", !.now = 0, !.prot.event = {},
                                 !.covered = @ \cap HeldVideo])
        /\ UNCHANGED <<rows, clipRows, clipFiles, pending, holds, today, policy,
                       outside, failures>>

-----------------------------------------------------------------------------
(* The disk guardian, at the end of a pass or on its own timer.            *)

(* checkDiskUsage up to the loop; auto is the setting of the automatic cleanup.
   On its own the guardian reads the protection. *)
GuardStart(p, auto) ==
    LET s == st[p]
    IN  /\ IF p = "pass" THEN s.pc = "check" ELSE UseBullmq /\ s.pc = "idle"
        /\ IF Percent > TriggerPercent /\ auto
           THEN Set(p, [s EXCEPT !.pc = "guard", !.current = Percent,
                                 !.prot = IF p = "pass" THEN @
                                          ELSE [ProtectionSets EXCEPT !.event = {}],
                                 !.covered = IF p = "pass" THEN @ ELSE HeldVideo])
           ELSE p = "pass" /\ Set(p, Idle)
        /\ UNCHANGED <<db, holds, today, policy, outside, failures>>

GuardFetch(p) ==
    LET s    == st[p]
        page == Page(rows \ s.prot.rec, Older, 0, GuardBatch)
    IN  /\ s.pc = "guard"
        /\ Set(p, IF s.iteration < MaxIterations /\ s.current > TargetPercent /\ page # {}
                  THEN [s EXCEPT !.pc = "guardRec", !.page = page, !.batchDeleted = 0]
                  ELSE Idle)
        /\ UNCHANGED <<db, holds, today, policy, outside, failures>>

NextInBatch(s) ==
    LET left == s.page \ {First(s.page, Older)}
    IN  [s EXCEPT !.pc = IF left # {} THEN "guardRec" ELSE "measure", !.page = left, !.clips = {}]

GuardRec(p) ==
    LET s == st[p]
        r == First(s.page, Older)
    IN  /\ s.pc = "guardRec"
        /\ Set(p, IF MayDelete(s, r) THEN [s EXCEPT !.pc = "guardTx", !.clips = ClipsOf(r)]
                  ELSE NextInBatch(s))
        /\ UNCHANGED <<db, holds, today, policy, outside, failures>>

GuardTx(p, ok) ==
    LET s == st[p]
        r == First(s.page, Older)
    IN  /\ s.pc = "guardTx"
        /\ ok => r \in rows
        /\ IF ok
           THEN /\ RemoveRow(r, s.clips)
                /\ SetRows(p, [NextInBatch(s) EXCEPT !.batchDeleted = @ + 1, !.wasted = @ + 1])
                /\ UNCHANGED failures
           ELSE /\ Fault(r \notin rows)
                /\ Set(p, NextInBatch(s))
                /\ UNCHANGED <<rows, clipRows, clipFiles>>
        /\ UNCHANGED <<events, pending, holds, today, policy, outside>>

\* mutant: a batch that does not help is forgotten
AfterBatch_NoBrake(s, now) ==
    IF s.batchDeleted = 0 THEN Idle
    ELSE [s EXCEPT !.pc = "guard", !.current = now, !.iteration = @ + 1,
                   !.wasted = IF now < s.current THEN 0 ELSE @]

(* The end of a batch: the guardian gives up when nothing could be deleted, or
   when MaxNoProgress batches in a row did not lower the usage. *)
AfterBatch(s, now) ==
    LET stuck == IF now < s.current THEN 0 ELSE s.noProgress + 1
    IN  IF s.batchDeleted = 0 \/ stuck >= MaxNoProgress THEN Idle
        ELSE [s EXCEPT !.pc = "guard", !.current = now, !.iteration = @ + 1,
                       !.noProgress = stuck, !.wasted = IF stuck = 0 THEN 0 ELSE @]

GuardMeasure(p) ==
    /\ st[p].pc = "measure"
    /\ Set(p, AfterBatch(st[p], Percent))
    /\ UNCHANGED <<db, holds, today, policy, outside, failures>>
-----------------------------------------------------------------------------
(* What happens meanwhile.                                                 *)

proc == <<today, policy, outside, failures>>

(* A recording found on disk is registered (module SegmentPipeline). *)
Register(r) ==
    /\ r \in Late /\ Item("rec", {r}) \subseteq pending
    /\ pending' = pending \ Item("rec", {r}) /\ rows' = rows \cup {r}
    /\ st' = Disturbed
    /\ UNCHANGED <<clipRows, clipFiles, events, holds, proc>>

(* exportClip: the file is cut, *)
ExportFile(k) ==
    /\ Source[k] \in rows \ CloudOnly /\ Item("clip", {k}) \subseteq pending
    /\ pending' = pending \ Item("clip", {k}) /\ clipFiles' = clipFiles \cup {k}
    /\ UNCHANGED <<rows, clipRows, events, holds, proc, st>>

(* and then its row is inserted, which fails without the source. *)
ExportRow(k) ==
    /\ k \in clipFiles \ clipRows /\ Source[k] \in rows
    /\ clipRows' = clipRows \cup {k}
    /\ UNCHANGED <<rows, clipFiles, events, pending, holds, proc, st>>

Covered == [p \in Procs |-> [st[p] EXCEPT !.covered = @ \cap HeldItems']]

Existing == Item("rec", rows) \cup Item("clip", clipRows) \cup Item("event", events)

(* setLegalHold: a hold is placed, changed or lifted by a further hold row. *)
WriteHold(h) ==
    /\ Len(holds) < MaxHolds /\ (h.enabled => h.items \subseteq Existing)
    /\ holds' = Append(holds, h)
    /\ UNCHANGED <<db, proc>>
    /\ st' = Covered

(* Only the start of a pass reads the date. *)
NextDay ==
    /\ today < MaxToday /\ st["pass"].pc = "idle" /\ today' = today + 1
    /\ UNCHANGED <<db, holds, policy, outside, failures, st>>

(* Something else on the disk grows; only the guardian looks. *)
Guarding == {"check", "guard", "guardRec", "guardTx", "measure"}

OutsideGrows ==
    /\ outside < MaxOutside /\ \E p \in Procs : st[p].pc \in Guarding
    /\ outside' = outside + 1
    /\ UNCHANGED <<db, holds, today, policy, failures, st>>

-----------------------------------------------------------------------------
Init ==
    /\ rows = Recordings \ Late /\ pending = Item("rec", Late) \cup Item("clip", Clips)
    /\ clipRows = {} /\ clipFiles = {} /\ events = Events
    /\ holds = FirstHolds
    /\ today = 0 /\ policy \in Policies
    /\ outside = FirstOutside /\ failures = 0
    /\ st = [p \in Procs |-> Idle]

Work(p) ==
    \/ GuardFetch(p) \/ GuardRec(p) \/ GuardMeasure(p)
    \/ \E ok \in BOOLEAN : GuardTx(p, ok)

PassWork ==
    \/ FetchClips \/ FetchRecs \/ ExpireRec \/ ExpireEvents
    \/ \E ok \in BOOLEAN : ExpireClip(ok) \/ ExpireRecTx(ok)
    \/ (\E auto \in BOOLEAN : GuardStart("pass", auto)) \/ Work("pass")

Environment ==
    \/ \E r \in Late : Register(r)
    \/ \E k \in Clips : ExportFile(k) \/ ExportRow(k)
    \/ \E h \in HoldRows : WriteHold(h)
    \/ NextDay \/ OutsideGrows

Next == PassStart \/ PassWork \/ GuardStart("guard", TRUE) \/ Work("guard") \/ Environment

(* Both processes go on after an await, and the timer starts pass after pass. *)
Fairness == WF_vars(PassStart) /\ WF_vars(PassWork) /\ WF_vars(Work("guard"))

Spec == Init /\ [][Next]_vars /\ Fairness

-----------------------------------------------------------------------------
(* What the retention promises.                                            *)

(* Every variable has its type; a clip's row has its file and its recording,
   and the counters of the pages stay in their bounds. *)
TypeOK ==
    /\ rows \subseteq Recordings /\ pending \cap Item("rec", rows) = {}
    /\ clipRows \subseteq clipFiles /\ clipFiles \subseteq Clips
    /\ \A k \in clipRows : Source[k] \in rows
    /\ events \subseteq Events
    /\ today \in 0..MaxToday /\ failures \in 0..MaxFailures
    /\ \A p \in Procs : /\ st[p].budget \in 0..MaxPerCycle
                        /\ st[p].skip \in 0..(Cardinality(Recordings) + Cardinality(Clips))
                        /\ st[p].noProgress \in 0..(MaxNoProgress - 1)

Lost ==
    Item("rec", rows \ rows') \cup Item("clip", clipRows \ clipRows')
        \cup Item("event", events \ events')

(* What an investigation holds survives: whoever deletes, by age or for space,
   a recording, a clip, an event or a clip with its recording, nothing goes
   that has been held since that process read the holds. *)
HeldSurvive ==
    [][\A p \in Procs :
          st'[p].pc # st[p].pc \/ st'[p].page # st[p].page => Lost \cap st[p].covered = {}]_vars

(* The filter of the database and the rule in memory say the same of every
   recording (buildExpiryWhere: "precisa ser identica"). *)
FilterIsTheRule ==
    \A g \in RetentionGroups : \A r \in rows :
        LET w == Window(g.days)
        IN  ExpiryWhere(r, w, today) <=> IsExpiredByAge(r, w, today)

(* The group, and with it the window, of a recording. *)
GroupDays(r) ==
    IF CameraOf[r] \in DOMAIN CameraDays THEN DaysOf(CameraOf[r]) ELSE GlobalDays

Expired(r, now) == IsExpiredByAge(r, Window(GroupDays(r)), now)

Simulated == policy.enabled /\ policy.dryRun

(* A pass that ends within its budget has dealt with every expired recording,
   whatever was protected or failed on the pages before it: the ones that are
   left are protected or failed. *)
PassThorough ==
    [][LET s == st["pass"]
       IN  s.pc = "recs" /\ st'["pass"].pc = "events" /\ s.budget > 0 /\ ~s.disturbed /\ ~Simulated
           => \A r \in rows : Expired(r, s.now) =>
                 \/ r \in s.failed \cup s.prot.rec
                 \/ \E k \in Clips : Source[k] = r /\ k \in s.prot.clip]_vars

(* The guardian cannot grind the archive down: without any fall of the usage
   it removes at most MaxNoProgress batches. *)
BrakeHolds == \A p \in Procs : st[p].wasted <= MaxNoProgress * GuardBatch

(* A pass always comes to its end. *)
PassEnds == []<>(st["pass"].pc = "idle") /\ []<>(st["guard"].pc = "idle")

(* A recording that stays expired and is not held goes in the end, however
   many others are protected or fail, and however small the budget. *)
ExpiredGoes ==
    \A r \in Recordings :
        ~<>[](r \in rows /\ Expired(r, today) /\ ~Simulated /\ r \notin ProtectionSets.rec)
=============================================================================
