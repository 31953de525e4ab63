--------------------------- MODULE MotionRecording ---------------------------
(***************************************************************************)
(* Recording on movement of one camera of a node in local mode, with the   *)
(* pre-event ring on (MOTION_PRE_EVENT_SECONDS > 0): handleMotionDetected, *)
(* the quiet timer, setMotionRecording and the ring of short segments, in  *)
(* apps/api/src/recordings/recording-process-manager.service.ts.           *)
(*                                                                         *)
(* Time passes in slots of one ring segment (2 s).  Slot t is the footage  *)
(* that is complete when now = t.  A query takes no slot; the probe of     *)
(* start() takes up to MaxStart of them, a promotion or a kill up to one.  *)
(* Within a slot the awaits of all calls interleave in any order.  Crash   *)
(* and restart of a recorder are the subject of RecordingControl.          *)
(***************************************************************************)
EXTENDS Naturals, FiniteSetsExt

CONSTANTS
    Motions,        \* detections handled at the same time (bound)
    None,
    PreEvent,       \* preEventSeconds, in slots
    MaxStart,       \* the longest probe of start(), in slots
    PostRoll,       \* MOTION_RECORDING_POST_ROLL_SECONDS, in slots
    Horizon, MaxMotions,
    MaxTrouble      \* bounds; the last one is of the operator's requests, whose own
                    \* steps may all fail, and of the other failures

Calls == Motions \cup {"quiet", "operator", "arming"}

\* What gaps may hold.  overlap: the operator's request runs beside another call;
\* unattended: a failing query leaves a recorder without a timer; rollback: a
\* recorder others may count on is taken back; orphans: a ring ended and left its
\* segments behind; twice: a ring is started beside another one, which goes on writing
\* after both; unheard: a movement counts on a recorder that the quiet timer is about
\* to stop.

\* The defaults: 60 s of post-roll, a probe that gives up after 12 s.
ASSUME Constants ==
    /\ PreEvent \in Nat \ {0} /\ MaxStart \in Nat
    /\ PostRoll \in Nat /\ PostRoll > MaxStart + 2
    /\ None \notin Motions /\ Motions \cap {"quiet", "operator", "arming"} = {}

VARIABLES
    mode,       \* Camera.recordingMode
    desired,    \* Camera.recordingEnabled
    active,     \* this.active: the recorder of the camera, or None
    recs,       \* the recorder processes alive, each named by its starter
    ring,       \* preBufferProcs.has(camera)
    stray,      \* a ring process that is out of the map
    buffer,     \* the complete segments in the ring's directory
    kept,       \* the segments of buffer whose slot a recorder wrote too
    timer,      \* motionStopTimers: the slot it is due in, 0 for none
    call,       \* the calls in flight
    now,
    motions, trouble,   \* counted against the bounds
    last,       \* history: the slot of the last movement
    dark,       \* history: the last attempt to run a ring failed, or it died
    gaps        \* history: the gaps of the code met so far

db     == <<mode, desired>>
rec    == <<active, recs>>
rings  == <<ring, stray, buffer, kept, dark>>
vars   == <<mode, desired, active, recs, ring, stray, buffer, kept, timer, call,
            now, motions, trouble, last, dark, gaps>>

Quick == {"row", "start", "keep", "commit", "ring", "event", "stop", "write"}
Slow  == {"promote", "again", "rollback", "kill"}
Idle  == [pc |-> "idle", at |-> 0, trigger |-> 0, todo |-> {}, victim |-> None,
          want |-> "motion"]

At(c, pc)   == call[c].pc = pc
Busy(c)     == call[c].pc # "idle"
Go(c, pc)   == call' = [call EXCEPT ![c].pc = pc, ![c].at = now, ![c].todo = {}]
Finish(c)   == call' = [call EXCEPT ![c] = Idle]
Quietly     == UNCHANGED <<now, motions, last>>
Healthy     == UNCHANGED <<trouble, gaps>> /\ Quietly
Trouble     == trouble < MaxTrouble /\ trouble' = trouble + 1
Fails       == Trouble /\ Quietly
FailsIn(c)  == IF c = "operator" THEN UNCHANGED trouble /\ Quietly ELSE Fails

-----------------------------------------------------------------------------
(* The ring *)

\* promotePreRoll: the segments of the window, without the one being written
Candidates(triggerAt) ==
    {t \in buffer : t + PreEvent >= triggerAt /\ t <= triggerAt + 1}

StartPreBuffer ==
    /\ ring' = TRUE /\ stray' = (stray \/ ring) /\ dark' = FALSE
    /\ gaps' = gaps \cup {g \in {"twice"} : ring}
    /\ UNCHANGED <<buffer, kept>>

StopPreBuffer ==
    /\ ring' = FALSE
    /\ buffer' = IF ring THEN {} ELSE buffer
    /\ kept' = kept \cap buffer'
    /\ UNCHANGED <<stray, dark>>

\* The oldest segment of todo, if it is still there, is moved and then remuxed and
\* registered; the call waits for the remux.
Promote(c, pc, at, todo) ==
    LET t == Min(todo) IN
      /\ buffer' = buffer \ {t} /\ kept' = kept \ {t}
      /\ call' = [call EXCEPT ![c].pc = pc, ![c].at = at, ![c].todo = todo \ {t}]
      /\ UNCHANGED <<ring, stray, dark>>

PromoteNext(c) ==
    /\ call[c].pc \in {"promote", "again"} /\ call[c].todo # {}
    /\ Promote(c, call[c].pc, call[c].at, call[c].todo)
    /\ UNCHANGED <<db, rec, timer>> /\ Healthy

\* The answer of getCameraOrThrow inside startPreBuffer, and the spawn.
AfterRing(c) == IF c = "quiet" THEN Go(c, "stop") ELSE Finish(c)

RingUp(c) ==
    /\ At(c, "ring") /\ AfterRing(c) /\ StartPreBuffer
    /\ UNCHANGED <<db, rec, timer, trouble>> /\ Quietly

RingFails(c) ==
    /\ At(c, "ring") /\ AfterRing(c) /\ dark' = TRUE
    /\ UNCHANGED <<db, rec, ring, stray, buffer, kept, timer, gaps>> /\ Fails

RingDies ==
    /\ ring /\ ring' = FALSE /\ dark' = TRUE /\ gaps' = gaps \cup {"orphans"}
    /\ UNCHANGED <<db, rec, stray, buffer, kept, timer, call>> /\ Fails

PrunePreBuffers ==
    /\ ring /\ \E t \in buffer : t + PreEvent + 3 < now
    /\ buffer' = {t \in buffer : t + PreEvent + 3 >= now} /\ kept' = kept \cap buffer'
    /\ UNCHANGED <<db, rec, ring, stray, dark, timer, call>> /\ Healthy

-----------------------------------------------------------------------------
(* handleMotionDetected and the start() it calls *)

\* mutant: the timer is cleared after it was set
ScheduleMotionStop_Cleared == timer' = 0
ScheduleMotionStop == timer' = now + PostRoll

Detect(m) ==
    /\ ~Busy(m) /\ motions < MaxMotions
    /\ motions' = motions + 1 /\ last' = now
    /\ gaps' = gaps \cup {g \in {"overlap"} : Busy("operator")}
    /\ call' = [call EXCEPT ![m] = [Idle EXCEPT !.pc = "row", !.at = now, !.trigger = now]]
    /\ UNCHANGED <<db, rec, rings, timer, now, trouble>>

\* A movement that finds a recorder only moves the quiet timer.
ReadRow(m) ==
    /\ At(m, "row")
    /\ \/ mode # "motion" /\ Finish(m) /\ UNCHANGED <<rings, timer, gaps>>
       \/ /\ mode = "motion" /\ active # None
          /\ Finish(m) /\ ScheduleMotionStop /\ UNCHANGED rings
          /\ gaps' = gaps \cup {g \in {"unheard"} : Busy("quiet")}
       \/ /\ mode = "motion" /\ active = None /\ UNCHANGED <<timer, gaps>>
          /\ LET todo == Candidates(call[m].trigger) IN
               IF ring /\ todo # {} THEN Promote(m, "promote", now, todo)
               ELSE Go(m, "start") /\ UNCHANGED rings
    /\ UNCHANGED <<db, rec, trouble>> /\ Quietly

ReadRowFails(m) ==
    /\ At(m, "row") /\ Finish(m)
    /\ UNCHANGED <<db, rec, rings, timer, gaps>> /\ Fails

Promoted(m) ==
    /\ At(m, "promote") /\ call[m].todo = {} /\ Go(m, "start")
    /\ UNCHANGED <<db, rec, rings, timer>> /\ Healthy

\* The catch: the ring is the only cover left, and no timer is set.
Failed(m) == IF ring THEN Finish(m) ELSE Go(m, "ring")

StartChecks(m) ==
    /\ At(m, "start") /\ Go(m, IF active # None THEN "keep" ELSE "probe")
    /\ UNCHANGED <<db, rec, rings, timer>> /\ Healthy

StartFails(m) ==
    /\ call[m].pc \in {"start", "probe", "keep"} /\ Failed(m)
    /\ UNCHANGED <<db, rec, rings, timer, gaps>> /\ Fails

Spawn(m) ==
    /\ At(m, "probe") /\ m \notin recs
    /\ active' = m /\ recs' = recs \cup {m} /\ Go(m, "commit")
    /\ UNCHANGED <<db, rings, timer>> /\ Healthy

\* mutant: the ring goes with what it wrote during the start
Started_OnePromotion(m) == StopPreBuffer /\ Go(m, "event")

\* start() has returned: what the ring wrote meanwhile is promoted, then it goes.
Started(m) ==
    IF ring /\ Candidates(now) # {} THEN Promote(m, "again", now, Candidates(now))
    ELSE StopPreBuffer /\ Go(m, "event")

Commit(m) ==
    /\ call[m].pc \in {"commit", "keep"}
    /\ desired' = TRUE /\ Started(m)
    /\ UNCHANGED <<mode, rec, timer>> /\ Healthy

CommitFails(m) ==
    /\ At(m, "commit") /\ Go(m, "rollback") /\ gaps' = gaps \cup {"rollback"}
    /\ UNCHANGED <<db, rec, rings, timer>> /\ Fails

Ended(p) == recs' = recs \ {p} /\ active' = (IF active = p THEN None ELSE active)

Rollback(m) ==
    /\ At(m, "rollback") /\ Ended(m) /\ Failed(m)
    /\ UNCHANGED <<db, rings, timer>> /\ Healthy

PromotedAgain(m) ==
    /\ At(m, "again") /\ call[m].todo = {} /\ StopPreBuffer /\ Go(m, "event")
    /\ UNCHANGED <<db, rec, timer>> /\ Healthy

RegisterEvent(m) ==
    /\ At(m, "event") /\ ScheduleMotionStop /\ Finish(m)
    /\ UNCHANGED <<db, rec, rings>> /\ Healthy

\* The same catch serves a recording that did start.
RegisterEventFails(m) ==
    /\ At(m, "event") /\ Failed(m) /\ gaps' = gaps \cup {"unattended"}
    /\ UNCHANGED <<db, rec, rings, timer>> /\ Fails

-----------------------------------------------------------------------------
(* stopMotionRecordingAfterQuiet, setMotionRecording and the stop() they call *)

Quiet ==
    /\ timer # 0 /\ now >= timer /\ ~Busy("quiet")
    /\ timer' = 0 /\ Go("quiet", "row")
    /\ UNCHANGED <<db, rec, rings>> /\ Healthy

\* mutant: the recording is stopped and the ring left for later
QuietRow_NoRing ==
    /\ At("quiet", "row")
    /\ IF mode = "motion" /\ desired THEN Go("quiet", "stop") ELSE Finish("quiet")
    /\ UNCHANGED <<db, rec, rings, timer>> /\ Healthy

QuietRow ==
    /\ At("quiet", "row")
    /\ IF mode = "motion" /\ desired
         THEN Go("quiet", IF ring THEN "stop" ELSE "ring")
         ELSE Finish("quiet")
    /\ UNCHANGED <<db, rec, rings, timer>> /\ Healthy

QuietRowFails ==
    /\ At("quiet", "row") /\ Finish("quiet") /\ gaps' = gaps \cup {"unattended"}
    /\ UNCHANGED <<db, rec, rings, timer>> /\ Fails

SetMotionRecording(want) ==
    /\ ~Busy("operator") /\ Trouble /\ timer' = 0
    /\ gaps' = gaps \cup {g \in {"overlap"} : \E c \in Calls : Busy(c)}
    /\ call' = [call EXCEPT !["operator"] = [Idle EXCEPT !.pc = "stop", !.at = now, !.want = want]]
    /\ UNCHANGED <<db, rec, rings, now, motions, last>>

\* What follows stop(): the operator's request also ends the ring when it disarms.
AfterStop(c) ==
    IF c = "quiet" THEN Finish(c) /\ UNCHANGED rings
    ELSE /\ Go(c, "write")
         /\ IF call[c].want = "manual" THEN StopPreBuffer ELSE UNCHANGED rings

Stop(c) ==
    /\ At(c, "stop") /\ desired' = FALSE
    /\ IF active = None THEN AfterStop(c)
       ELSE /\ call' = [call EXCEPT ![c].pc = "kill", ![c].at = now, ![c].victim = active]
            /\ UNCHANGED rings
    /\ UNCHANGED <<mode, rec, timer>> /\ Healthy

StopFails(c) ==
    /\ At(c, "stop") /\ AfterStop(c) /\ gaps' = gaps \cup {"unattended"}
    /\ UNCHANGED <<db, rec, timer>> /\ FailsIn(c)

Kill(c) ==
    /\ At(c, "kill") /\ Ended(call[c].victim) /\ AfterStop(c)
    /\ UNCHANGED <<db, timer>> /\ Healthy

\* Arming starts the ring without waiting for it.
Write ==
    /\ At("operator", "write") /\ ~Busy("arming")
    /\ mode' = call["operator"].want /\ desired' = FALSE
    /\ call' = [call EXCEPT !["operator"] = Idle,
                            !["arming"].pc = IF mode' = "motion" /\ ~ring THEN "ring" ELSE "idle"]
    /\ UNCHANGED <<rec, rings, timer>> /\ Healthy

WriteFails ==
    /\ At("operator", "write") /\ Finish("operator") /\ gaps' = gaps \cup {"unattended"}
    /\ UNCHANGED <<db, rec, rings, timer>> /\ FailsIn("operator")

-----------------------------------------------------------------------------
\* A slot passes: whoever records has written it.
Tick ==
    /\ now < Horizon /\ now' = now + 1
    /\ \A c \in Calls :
         /\ call[c].pc \notin Quick
         /\ call[c].pc \in Slow => now = call[c].at
         /\ At(c, "probe") => now < call[c].at + MaxStart
    /\ timer # 0 => now < timer
    /\ buffer' = IF ring \/ stray THEN buffer \cup {now'} ELSE buffer
    /\ kept' = kept \cup {t \in buffer' \ buffer : recs # {}}
    /\ UNCHANGED <<db, rec, ring, stray, dark, timer, call, motions, trouble, last, gaps>>

\* The API ends and its children with it; 20 s after it is back, the ring of an
\* armed camera is started.
ApiRestarts ==
    /\ active' = None /\ recs' = {} /\ ring' = FALSE /\ stray' = FALSE /\ timer' = 0
    /\ call' = [c \in Calls |->
                  IF c = "arming" /\ mode = "motion" THEN [Idle EXCEPT !.pc = "ring", !.at = now]
                  ELSE Idle]
    /\ gaps' = gaps \cup {"orphans"}
    /\ UNCHANGED <<db, buffer, kept, dark>> /\ Fails

Init ==
    /\ mode = "motion" /\ desired = FALSE
    /\ active = None /\ recs = {} /\ ring = FALSE /\ stray = FALSE
    /\ buffer = {} /\ kept = {} /\ timer = 0
    /\ call = [c \in Calls |-> IF c = "arming" THEN [Idle EXCEPT !.pc = "ring"] ELSE Idle]
    /\ now = 0 /\ motions = 0 /\ trouble = 0
    /\ last = 0 /\ dark = FALSE /\ gaps = {}

Motion(m) ==
    \/ Detect(m) \/ ReadRow(m) \/ ReadRowFails(m) \/ Promoted(m) \/ PromoteNext(m)
    \/ StartChecks(m) \/ StartFails(m) \/ Spawn(m) \/ Commit(m) \/ CommitFails(m)
    \/ Rollback(m) \/ PromotedAgain(m) \/ RegisterEvent(m) \/ RegisterEventFails(m)

Operator ==
    \/ \E want \in {"motion", "manual"} : SetMotionRecording(want)
    \/ Stop("operator") \/ StopFails("operator") \/ Kill("operator")
    \/ Write \/ WriteFails

Next ==
    \/ \E m \in Motions : Motion(m)
    \/ \E c \in Calls \ {"operator"} : RingUp(c) \/ RingFails(c)
    \/ Quiet \/ QuietRow \/ QuietRowFails
    \/ Stop("quiet") \/ StopFails("quiet") \/ Kill("quiet")
    \/ Operator
    \/ RingDies \/ PrunePreBuffers \/ Tick \/ ApiRestarts

Spec == Init /\ [][Next]_vars

-----------------------------------------------------------------------------
(* Properties *)

\* "ORDEM E INVARIANTE" (handleMotionDetected, stopMotionRecordingAfterQuiet): no
\* handling of a movement and no end of one takes the last of ring and recorder
\* away.  Left out: a ring that failed or died, a restart of the API, what the
\* operator asks for, and the gaps: his request overlaps a handler, a recorder that
\* another handler found is rolled back, or a movement met a recorder that was
\* being stopped, so that its timer ends the next recording while that starts.
CoverageKept ==
    [][(ring \/ recs # {}) /\ ~(ring' \/ recs' # {})
         => \/ dark' \/ ApiRestarts \/ Operator
            \/ gaps \cap {"overlap", "rollback", "unheard"} # {}]_vars

\* The ring is not taken down with footage of an event that nobody has: when a
\* handler drops the ring, every complete segment since PreEvent before the
\* trigger of a handler in flight has become a recording.  Left out: the gaps in
\* which the recorder that takes over is stopped or rolled back under the handler,
\* and the segments of an earlier ring or of a second one, which no promotion looked
\* for.  It needs a pre-event window that is not shorter than the longest start.
BeginningKept ==
    [][\A m \in Motions :
         (call[m].pc # "event" /\ call'[m].pc = "event"
            /\ gaps \subseteq {"unattended"}) =>
           \A h \in Motions : Busy(h) =>
             \A t \in buffer \ (buffer' \cup kept) : t + PreEvent < call[h].trigger]_vars

\* A recording on movement ends: once nothing moves, the recorder in the map is
\* gone after the longest handler, the post-roll and the kill, however movements,
\* timers and failing starts overlap.  Left out are the gaps: the event
\* row of a started recording, the row read or the stop of the quiet timer fails,
\* or the operator's request overlaps a call in flight.
RecordingEnds ==
    active # None /\ gaps \cap {"overlap", "unattended"} = {}
      => now <= last + MaxStart + 2 + PostRoll + 1
=============================================================================
