-------------------------- MODULE RecordingControl --------------------------
(***************************************************************************)
(* Control of the recording processes of one API node, in local mode:      *)
(* apps/api/src/recordings/recording-process-manager.service.ts and the    *)
(* callers of start() and stop().                                          *)
(*                                                                         *)
(* The database row of a camera holds what the client WANTS (enabled and   *)
(* recordingEnabled); the map `active` holds what this node DOES.  Every   *)
(* handler is asynchronous: between two awaits any other handler may run.  *)
(* A call in flight is a record in `call` whose pc names the await it is   *)
(* suspended in, and one action is the code from one await to the next.    *)
(***************************************************************************)
EXTENDS Naturals

CONSTANTS
    Cameras,
    Procs,          \* ffmpeg processes that may exist at the same time (bound)
    Users,          \* concurrent operator requests (bound)
    Restarts,       \* concurrent runs of restartRecordingAfterCrash (bound)
    Health, Guard, StopAll, Boot,   \* the single-instance background routines
    NoCam, NoProc,
    MaxAttempts,    \* RECORDING_AUTO_RESTART_MAX_ATTEMPTS
    UserOps,        \* the requests operators make
    Flags,          \* "autoRestart", "reconnect", "autoStart": the env switches
    Faults          \* what the environment may do to the node

Routines == {Health, Guard, StopAll, Boot}
Calls    == Users \cup Restarts \cup Routines

ASSUME Constants ==
    /\ MaxAttempts \in Nat
    /\ NoCam \notin Cameras
    /\ NoProc \notin Procs
    /\ Health # Guard /\ Health # StopAll /\ Health # Boot
    /\ Guard # StopAll /\ Guard # Boot /\ StopAll # Boot
    /\ Users \cap Restarts = {}
    /\ Routines \cap (Users \cup Restarts) = {}

VARIABLES
    enabled,        \* Camera.enabled
    desired,        \* Camera.recordingEnabled: the state the client wants
    mode,           \* Camera.recordingMode
    active,         \* this.active
    proc,           \* RecordingProcessState and the child process it holds
    timer,          \* this.restartTimers.has(camera)
    attempts,       \* restartAttempts of the camera inside the window
    shuttingDown,   \* this.shuttingDown
    call,           \* the handlers in flight
    diskFree,       \* the volume is above the guard's and the start's floors
    licensed,       \* the policy allows 'localRecording'
    intent          \* history: the last request of an operator that was accepted

db   == <<enabled, desired, mode>>
mem  == <<active, proc, timer, attempts, shuttingDown, call>>
env  == <<diskFree, licensed>>
vars == <<enabled, desired, mode, active, proc, timer, attempts,
          shuttingDown, call, diskFree, licensed, intent>>

StartPcs == {"startCheck", "startLookup", "startKeep", "startProbe",
             "startCommit", "rollWait", "rollFin"}
StopPcs  == {"stopWrite", "stopMark", "stopWait", "stopFin"}
Pcs      == StartPcs \cup StopPcs \cup
            {"idle", "next", "restartRead", "provRead", "bootRead"}

CamPcs  == StartPcs \cup StopPcs \cup {"restartRead", "provRead"}
ProcPcs == {"startCommit", "rollWait", "rollFin", "stopWait", "stopFin"}

CallRec == [pc: Pcs, cam: Cameras \cup {NoCam}, p: Procs \cup {NoProc},
            todo: SUBSET Cameras, manual: BOOLEAN]
(* displaced is history: a later start() has put its own process in `active`
   over this one. *)
ProcRec == [os: {"free", "running", "dead"}, cam: Cameras \cup {NoCam},
            stopRequested: BOOLEAN, fin: {"no", "scan", "done"},
            abnormal: BOOLEAN, displaced: BOOLEAN]

IdleCall == [pc |-> "idle", cam |-> NoCam, p |-> NoProc, todo |-> {},
             manual |-> FALSE]
FreeProc == [os |-> "free", cam |-> NoCam, stopRequested |-> FALSE,
             fin |-> "no", abnormal |-> FALSE, displaced |-> FALSE]

(* A call that works on a camera knows it; one that has spawned or marked a
   process knows that process. *)
CallsKnowTheirWork ==
    \A t \in Calls : /\ call[t].pc \in CamPcs  => call[t].cam \in Cameras
                     /\ call[t].pc \in ProcPcs => call[t].p \in Procs

(* Every variable stays in its type. *)
TypeOK ==
    /\ enabled  \in [Cameras -> BOOLEAN]
    /\ desired  \in [Cameras -> BOOLEAN]
    /\ mode     \in [Cameras -> {"continuous", "manual"}]
    /\ active   \in [Cameras -> Procs \cup {NoProc}]
    /\ proc     \in [Procs -> ProcRec]
    /\ timer    \in [Cameras -> BOOLEAN]
    /\ attempts \in [Cameras -> 0..MaxAttempts]
    /\ call     \in [Calls -> CallRec] /\ CallsKnowTheirWork
    /\ intent   \in [Cameras -> BOOLEAN]
    /\ shuttingDown \in BOOLEAN
    /\ diskFree \in BOOLEAN
    /\ licensed \in BOOLEAN

-----------------------------------------------------------------------------
(* Calls, returns and the loops over cameras.                              *)

Begin(c, pc, manual) ==
    [pc |-> pc, cam |-> c, p |-> NoProc, todo |-> {}, manual |-> manual]

At(t, pc)   == call[t].pc = pc
Goto(t, pc) == [call[t] EXCEPT !.pc = pc]
Step(t, r)  == call' = [call EXCEPT ![t] = r]

(* The loop of a routine goes on with the cameras it still has to visit. *)
Loop(todo) == IF todo = {} THEN IdleCall
                           ELSE [IdleCall EXCEPT !.pc = "next", !.todo = todo]

(* start() returned or threw: every caller either ends or goes on with its
   next camera. *)
StartReturns(t) == Loop(call[t].todo)

(* stop() returned: the health check goes on with start() for the same
   camera; the others end or take their next camera. *)
StopReturns(t) ==
    IF t = Health THEN [call[t] EXCEPT !.pc = "startCheck", !.p = NoProc]
                  ELSE Loop(call[t].todo)

(* stop() threw: stopAll() has no catch and leaves the rest running; the
   health check reports the failure and takes its next camera. *)
StopThrows(t) ==
    IF t = StopAll THEN IdleCall ELSE Loop(call[t].todo)

-----------------------------------------------------------------------------
(* A process and its finalisation.                                         *)

(* The record of a child that has exited, is finalised and is awaited by none
   of the calls is garbage; it may stand for a new child. *)
Released(p, r, calls) ==
    IF r.os = "dead" /\ r.fin = "done" /\ \A t \in calls : call[t].p # p
    THEN FreeProc ELSE r

Running(p) == proc[p].os = "running"

(* finalizeRecordingState is memoised: only the first of its callers decides
   whether the death was abnormal and starts the final scan. *)
Finalizing(r) ==
    IF r.fin = "no" THEN [r EXCEPT !.fin = "scan", !.abnormal = ~r.stopRequested]
                    ELSE r

(* The child exits: by itself when the environment lets it, or because of
   SIGTERM/SIGKILL, which every setter of stopRequested sends next. *)
ProcDies(p) ==
    /\ Running(p)
    /\ proc[p].stopRequested \/ "procDies" \in Faults
    /\ proc' = [proc EXCEPT ![p] = Released(p, [@ EXCEPT !.os = "dead"], Calls)]
    /\ UNCHANGED <<db, env, active, timer, attempts, shuttingDown, call, intent>>

(* proc.on('close') / proc.on('error'). *)
ProcClosed(p) ==
    /\ proc[p].os = "dead" /\ proc[p].fin = "no"
    /\ proc' = [proc EXCEPT ![p] = Finalizing(@)]
    /\ UNCHANGED <<db, env, active, timer, attempts, shuttingDown, call, intent>>

(* Mutant: the brake lets one restart too many through. *)
PlanAllows_OneMore(c) == attempts[c] <= MaxAttempts

(* planRecordingRestart: fewer than MaxAttempts restarts in the window. *)
PlanAllows(c) == attempts[c] < MaxAttempts

(* Mutant: a crash during the shutdown is restarted. *)
MaySchedule_InShutdown(c, p, act) ==
    /\ proc[p].abnormal /\ ~proc[p].stopRequested /\ "autoRestart" \in Flags
    /\ ~timer[c] /\ act[c] = NoProc /\ PlanAllows(c)

(* The guards of scheduleRecordingRestart, once the camera has left `active`. *)
MaySchedule(c, p, act) ==
    /\ proc[p].abnormal
    /\ ~proc[p].stopRequested
    /\ ~shuttingDown
    /\ "autoRestart" \in Flags
    /\ ~timer[c]
    /\ act[c] = NoProc
    /\ PlanAllows(c)

(* Mutant: the finalised state is left in `active`. *)
FinalScanDone_KeepsEntry(p) ==
    /\ proc[p].fin = "scan"
    /\ proc' = [proc EXCEPT ![p].fin = "done"]
    /\ UNCHANGED <<db, env, active, timer, attempts, shuttingDown, call, intent>>

(* The last segments are registered; the state leaves `active` if it is still
   the camera's, and an abnormal death arms the restart timer. *)
FinalScanDone(p) ==
    LET c   == proc[p].cam
        act == IF active[c] = p THEN [active EXCEPT ![c] = NoProc] ELSE active
        sch == MaySchedule(c, p, act)
    IN  /\ proc[p].fin = "scan"
        /\ proc' = [proc EXCEPT ![p] = Released(p, [@ EXCEPT !.fin = "done"], Calls)]
        /\ active' = act
        /\ timer' = [timer EXCEPT ![c] = @ \/ sch]
        /\ attempts' = [attempts EXCEPT ![c] = IF sch THEN @ + 1 ELSE @]
        /\ UNCHANGED <<db, env, shuttingDown, call, intent>>

(* The oldest attempt leaves the sliding window. *)
WindowSlides(c) ==
    /\ attempts[c] > 0
    /\ attempts' = [attempts EXCEPT ![c] = @ - 1]
    /\ UNCHANGED <<db, env, active, proc, timer, shuttingDown, call, intent>>

-----------------------------------------------------------------------------
(* start(): checks, lookup, probe, spawn, commit.                          *)

(* Camera enabled, policy, storage writable, minimum free space: each check
   throws. *)
StartCheck(t) ==
    LET c == call[t].cam IN
    /\ At(t, "startCheck")
    /\ Step(t, IF enabled[c] /\ licensed /\ diskFree
               THEN Goto(t, "startLookup") ELSE StartReturns(t))
    /\ UNCHANGED <<db, env, active, proc, timer, attempts, shuttingDown, intent>>

(* getCameraOrThrow came back: active.has decides between the two branches. *)
StartLookup(t) ==
    /\ At(t, "startLookup")
    /\ Step(t, Goto(t, IF active[call[t].cam] # NoProc THEN "startKeep"
                                                       ELSE "startProbe"))
    /\ UNCHANGED <<db, env, active, proc, timer, attempts, shuttingDown, intent>>

(* The row is written: recordingEnabled and, on an operator's request,
   recordingMode = 'manual'.  (The cameras of the model are not in 'motion'
   mode, whose rows keep their mode.) *)
CommitDesired(t, value) ==
    LET c == call[t].cam IN
    /\ desired' = [desired EXCEPT ![c] = value]
    /\ mode' = IF call[t].manual THEN [mode EXCEPT ![c] = "manual"] ELSE mode
    /\ enabled' = enabled

(* 'already_recording' *)
StartKeep(t) ==
    /\ At(t, "startKeep")
    /\ CommitDesired(t, TRUE)
    /\ Step(t, StartReturns(t))
    /\ intent' = [intent EXCEPT ![call[t].cam] = @ \/ t \in Users]
    /\ UNCHANGED <<env, active, proc, timer, attempts, shuttingDown>>

NewProc(c) == [FreeProc EXCEPT !.os = "running", !.cam = c]

(* Process p is spawned for camera c; the one in `active` is overwritten there
   and keeps running. *)
Spawned(p, c) ==
    [q \in Procs |-> IF q = p THEN NewProc(c)
                     ELSE [proc[q] EXCEPT !.displaced = @ \/ q = active[c]]]

(* The probe came back, with a codec or with null: spawn and active.set run
   without another look at `active`. *)
StartSpawn(t) ==
    LET c == call[t].cam IN
    /\ At(t, "startProbe")
    /\ \E p \in Procs :
          /\ proc[p].os = "free"
          /\ proc' = Spawned(p, c)
          /\ active' = [active EXCEPT ![c] = p]
          /\ Step(t, [call[t] EXCEPT !.pc = "startCommit", !.p = p])
    /\ UNCHANGED <<db, env, timer, attempts, shuttingDown, intent>>

(* Where a call on its way to a running process may fail without having
   changed anything: a row cannot be read or written, ffmpeg is missing, the
   output directory cannot be made.  Every caller catches. *)
FailPcs == {"startCheck", "startLookup", "startKeep", "startProbe",
            "restartRead", "provRead", "bootRead"}

CallFails(t) ==
    /\ call[t].pc \in FailPcs /\ "dbFails" \in Faults
    /\ Step(t, StartReturns(t))
    /\ UNCHANGED <<db, env, active, proc, timer, attempts, shuttingDown, intent>>

(* 'recording_started' *)
StartCommit(t) ==
    /\ At(t, "startCommit")
    /\ CommitDesired(t, TRUE)
    /\ proc' = [proc EXCEPT ![call[t].p] = Released(call[t].p, @, Calls \ {t})]
    /\ Step(t, StartReturns(t))
    /\ intent' = [intent EXCEPT ![call[t].cam] = @ \/ t \in Users]
    /\ UNCHANGED <<env, active, timer, attempts, shuttingDown>>

(* Mutant: start() throws without stopping what it spawned. *)
StartRollback_NoKill(t) ==
    /\ At(t, "startCommit") /\ "dbFails" \in Faults
    /\ Step(t, StartReturns(t))
    /\ UNCHANGED <<db, env, active, proc, timer, attempts, shuttingDown, intent>>

(* The row could not be written: the start is rolled back. *)
StartRollback(t) ==
    /\ At(t, "startCommit") /\ "dbFails" \in Faults
    /\ proc' = [proc EXCEPT ![call[t].p].stopRequested = TRUE]
    /\ Step(t, Goto(t, "rollWait"))
    /\ UNCHANGED <<db, env, active, timer, attempts, shuttingDown, intent>>

-----------------------------------------------------------------------------
(* stop(): write the desired state, cancel the restart, kill, finalise.    *)

StopWrite(t) ==
    /\ At(t, "stopWrite")
    /\ CommitDesired(t, FALSE)
    /\ Step(t, Goto(t, "stopMark"))
    /\ UNCHANGED <<env, active, proc, timer, attempts, shuttingDown, intent>>

StopWriteFails(t) ==
    /\ At(t, "stopWrite") /\ "dbFails" \in Faults
    /\ Step(t, StopThrows(t))
    /\ UNCHANGED <<db, env, active, proc, timer, attempts, shuttingDown, intent>>

(* cancelPendingRestart, then stopRequested before the kill. *)
StopMark(t) ==
    LET c == call[t].cam
        p == active[c]
    IN  /\ At(t, "stopMark")
        /\ timer' = [timer EXCEPT ![c] = FALSE]
        /\ attempts' = [attempts EXCEPT ![c] = 0]
        /\ IF p = NoProc
           THEN /\ Step(t, StopReturns(t))
                /\ proc' = proc
           ELSE /\ Step(t, [call[t] EXCEPT !.pc = "stopWait", !.p = p])
                /\ proc' = [proc EXCEPT ![p].stopRequested = TRUE]
        /\ UNCHANGED <<db, env, active, shuttingDown, intent>>

(* Mutant: waits for a close event that may have been delivered already. *)
WaitOver_NeedsClose(p) == proc[p].os = "dead" /\ proc[p].fin = "no"

(* stopProcessAndWait resolves when the child is gone, or by the give-up
   timer; the caller then finalises. *)
WaitOver(p) == proc[p].os = "dead" \/ "killHangs" \in Faults

KillWait(t) ==
    /\ call[t].pc \in {"stopWait", "rollWait"}
    /\ WaitOver(call[t].p)
    /\ proc' = [proc EXCEPT ![call[t].p] = Finalizing(@)]
    /\ Step(t, Goto(t, IF At(t, "stopWait") THEN "stopFin" ELSE "rollFin"))
    /\ UNCHANGED <<db, env, active, timer, attempts, shuttingDown, intent>>

(* Mutant: stop() returns without awaiting the finalisation. *)
FinalizeAwaited_NoAwait(t) ==
    /\ call[t].pc \in {"stopFin", "rollFin"}
    /\ Step(t, IF At(t, "stopFin") THEN StopReturns(t) ELSE StartReturns(t))
    /\ UNCHANGED <<db, env, active, proc, timer, attempts, shuttingDown, intent>>

(* The memoised finalisation resolved. *)
FinalizeAwaited(t) ==
    /\ call[t].pc \in {"stopFin", "rollFin"}
    /\ proc[call[t].p].fin = "done"
    /\ proc' = [proc EXCEPT ![call[t].p] = Released(call[t].p, @, Calls \ {t})]
    /\ Step(t, IF At(t, "stopFin") THEN StopReturns(t) ELSE StartReturns(t))
    /\ UNCHANGED <<db, env, active, timer, attempts, shuttingDown, intent>>

-----------------------------------------------------------------------------
(* Requests of operators (recordings.controller, cameras.controller).      *)

UserStart(u, c) ==
    /\ "start" \in UserOps /\ At(u, "idle") /\ ~shuttingDown
    /\ Step(u, Begin(c, "startCheck", TRUE))
    /\ UNCHANGED <<db, env, active, proc, timer, attempts, shuttingDown, intent>>

UserStop(u, c) ==
    /\ "stop" \in UserOps /\ At(u, "idle") /\ ~shuttingDown
    /\ Step(u, Begin(c, "stopWrite", TRUE))
    /\ intent' = [intent EXCEPT ![c] = FALSE]
    /\ UNCHANGED <<db, env, active, proc, timer, attempts, shuttingDown>>

(* PATCH enabled=false: the row first, then stop(). *)
UserDisable(u, c) ==
    /\ "disable" \in UserOps /\ At(u, "idle") /\ ~shuttingDown /\ enabled[c]
    /\ enabled' = [enabled EXCEPT ![c] = FALSE]
    /\ Step(u, Begin(c, "stopWrite", FALSE))
    /\ intent' = [intent EXCEPT ![c] = FALSE]
    /\ UNCHANGED <<desired, mode, env, active, proc, timer, attempts, shuttingDown>>

(* PATCH enabled=true: the row, then the provisioning of a new camera. *)
UserEnable(u, c) ==
    /\ "disable" \in UserOps /\ At(u, "idle") /\ ~shuttingDown /\ ~enabled[c]
    /\ enabled' = [enabled EXCEPT ![c] = TRUE]
    /\ Step(u, Begin(c, "provRead", FALSE))
    /\ UNCHANGED <<desired, mode, env, active, proc, timer, attempts, shuttingDown, intent>>

ProvisionRead(u) ==
    LET c == call[u].cam IN
    /\ At(u, "provRead")
    /\ Step(u, IF desired[c] /\ mode[c] = "continuous"
               THEN Goto(u, "startCheck") ELSE IdleCall)
    /\ UNCHANGED <<db, env, active, proc, timer, attempts, shuttingDown, intent>>

-----------------------------------------------------------------------------
(* Automatic routines.                                                     *)

(* The restart timer fires. *)
RestartFires(r, c) ==
    /\ timer[c] /\ At(r, "idle")
    /\ timer' = [timer EXCEPT ![c] = FALSE]
    /\ Step(r, IF shuttingDown \/ active[c] # NoProc THEN IdleCall
               ELSE Begin(c, "restartRead", FALSE))
    /\ UNCHANGED <<db, env, active, proc, attempts, shuttingDown, intent>>

(* The second barrier: the desired state read from the database. *)
RestartRead(r) ==
    LET c == call[r].cam IN
    /\ At(r, "restartRead")
    /\ Step(r, IF desired[c] /\ enabled[c]
               THEN Goto(r, "startCheck") ELSE IdleCall)
    /\ UNCHANGED <<db, env, active, proc, timer, attempts, shuttingDown, intent>>

(* Mutant: only cameras that still have a process are reconnected. *)
HealthRun_OnlyActive(stale) ==
    /\ "reconnect" \in Flags /\ At(Health, "idle") /\ ~shuttingDown
    /\ stale # {} /\ \A c \in stale : desired[c] /\ active[c] # NoProc
    /\ Step(Health, Loop(stale))
    /\ UNCHANGED <<db, env, active, proc, timer, attempts, shuttingDown, intent>>

(* checkRecordingStaleness reads the armed cameras and their last segments
   once; `stale` is the part of them without a recent segment. *)
HealthRun(stale) ==
    /\ "reconnect" \in Flags /\ At(Health, "idle") /\ ~shuttingDown
    /\ stale # {} /\ \A c \in stale : desired[c]
    /\ Step(Health, Loop(stale))
    /\ UNCHANGED <<db, env, active, proc, timer, attempts, shuttingDown, intent>>

(* enforceDiskGuard: the space is short, every active camera is suspended. *)
GuardRun ==
    /\ At(Guard, "idle") /\ ~diskFree /\ ~shuttingDown
    /\ \E c \in Cameras : active[c] # NoProc
    /\ Step(Guard, Loop({c \in Cameras : active[c] # NoProc}))
    /\ UNCHANGED <<db, env, active, proc, timer, attempts, shuttingDown, intent>>

(* stopAll() because the licence lost local recording. *)
RestrictRun ==
    /\ At(StopAll, "idle") /\ ~licensed /\ ~shuttingDown
    /\ \E c \in Cameras : active[c] # NoProc
    /\ Step(StopAll, Loop({c \in Cameras : active[c] # NoProc}))
    /\ UNCHANGED <<db, env, active, proc, timer, attempts, shuttingDown, intent>>

(* onApplicationShutdown: no restart from here on, then stopAll(). *)
Shutdown ==
    /\ "shutdown" \in Faults /\ At(StopAll, "idle") /\ ~shuttingDown
    /\ shuttingDown' = TRUE
    /\ timer' = [c \in Cameras |-> FALSE]
    /\ attempts' = [c \in Cameras |-> IF timer[c] THEN 0 ELSE attempts[c]]
    /\ Step(StopAll, Loop({c \in Cameras : active[c] # NoProc}))
    /\ UNCHANGED <<db, env, active, proc, intent>>

(* Mutant: the guard goes through stop(), which writes the desired state. *)
GuardSuspend_Disarms(c) ==
    /\ At(Guard, "next") /\ c \in call[Guard].todo
    /\ Step(Guard, [Begin(c, "stopWrite", FALSE) EXCEPT !.todo = call[Guard].todo \ {c}])
    /\ UNCHANGED <<db, env, active, proc, timer, attempts, shuttingDown, intent>>

(* suspendRecordingForDiskGuard: the process goes, the desired state stays. *)
GuardSuspend(c) ==
    LET p    == active[c]
        rest == call[Guard].todo \ {c}
    IN  /\ At(Guard, "next") /\ c \in call[Guard].todo
        /\ IF p = NoProc
           THEN /\ Step(Guard, Loop(rest))
                /\ proc' = proc
           ELSE /\ Step(Guard, [Begin(c, "stopWait", FALSE) EXCEPT !.p = p, !.todo = rest])
                /\ proc' = [proc EXCEPT ![p].stopRequested = TRUE]
        /\ UNCHANGED <<db, env, active, timer, attempts, shuttingDown, intent>>

(* The next camera of the health check and of stopAll() is stopped, the next
   one of the boot is started. *)
FirstPc(t) == IF t = Boot THEN "startCheck" ELSE "stopWrite"

NextCamera(t, c) ==
    /\ At(t, "next") /\ t # Guard /\ c \in call[t].todo
    /\ Step(t, [Begin(c, FirstPc(t), FALSE) EXCEPT !.todo = call[t].todo \ {c}])
    /\ UNCHANGED <<db, env, active, proc, timer, attempts, shuttingDown, intent>>

(* startEnabledContinuousRecordings *)
BootRead ==
    /\ At(Boot, "bootRead")
    /\ Step(Boot, Loop({c \in Cameras : enabled[c] /\ desired[c] /\ mode[c] = "continuous"}))
    /\ UNCHANGED <<db, env, active, proc, timer, attempts, shuttingDown, intent>>

(* The API process is gone, with its memory and its children; a new one boots. *)
FreshCalls == [t \in Calls |->
                 IF t = Boot /\ "autoStart" \in Flags
                 THEN [IdleCall EXCEPT !.pc = "bootRead"] ELSE IdleCall]

ApiRestarts ==
    /\ "apiRestarts" \in Faults
    /\ active' = [c \in Cameras |-> NoProc]
    /\ proc' = [p \in Procs |-> FreeProc]
    /\ timer' = [c \in Cameras |-> FALSE]
    /\ attempts' = [c \in Cameras |-> 0]
    /\ shuttingDown' = FALSE
    /\ call' = FreshCalls
    /\ UNCHANGED <<db, env, intent>>

-----------------------------------------------------------------------------
(* The environment.                                                        *)

DiskChanges ==
    /\ "diskFills" \in Faults
    /\ diskFree' = ~diskFree
    /\ UNCHANGED <<db, mem, licensed, intent>>

LicenceChanges ==
    /\ "licenceLapses" \in Faults
    /\ licensed' = ~licensed
    /\ UNCHANGED <<db, mem, diskFree, intent>>

-----------------------------------------------------------------------------
(* An API that has just booted, over rows left by an earlier one: a camera is
   armed exactly when its operator asked for it. *)
Init ==
    /\ desired \in [Cameras -> BOOLEAN]
    /\ intent = desired
    /\ enabled = [c \in Cameras |-> TRUE]
    /\ mode \in [Cameras -> {"continuous", "manual"}]
    /\ active = [c \in Cameras |-> NoProc]
    /\ proc = [p \in Procs |-> FreeProc]
    /\ timer = [c \in Cameras |-> FALSE]
    /\ attempts = [c \in Cameras |-> 0]
    /\ shuttingDown = FALSE
    /\ call = FreshCalls
    /\ diskFree = TRUE
    /\ licensed = TRUE

ProcStep(p) == ProcDies(p) \/ ProcClosed(p) \/ FinalScanDone(p)

CallStep(t) ==
    \/ StartCheck(t) \/ StartLookup(t) \/ StartKeep(t) \/ CallFails(t)
    \/ StartSpawn(t) \/ StartCommit(t) \/ StartRollback(t)
    \/ StopWrite(t) \/ StopWriteFails(t) \/ StopMark(t)
    \/ KillWait(t) \/ FinalizeAwaited(t)
    \/ ProvisionRead(t) \/ RestartRead(t)
    \/ \E c \in Cameras : NextCamera(t, c)

UserStep(u, c) == UserStart(u, c) \/ UserStop(u, c) \/ UserDisable(u, c) \/ UserEnable(u, c)

Next ==
    \/ \E p \in Procs : ProcStep(p)
    \/ \E t \in Calls : CallStep(t)
    \/ \E u \in Users, c \in Cameras : UserStep(u, c)
    \/ \E r \in Restarts, c \in Cameras : RestartFires(r, c)
    \/ \E c \in Cameras : WindowSlides(c) \/ GuardSuspend(c)
    \/ \E stale \in SUBSET Cameras : HealthRun(stale)
    \/ GuardRun \/ RestrictRun \/ Shutdown \/ BootRead \/ ApiRestarts
    \/ DiskChanges \/ LicenceChanges

Spec == Init /\ [][Next]_vars

(***************************************************************************)
(* Promises settle, timers fire, a signalled child exits and its close     *)
(* event is delivered.  The health job is repeated by its queue: a camera  *)
(* that should record and has no process is stale sooner or later.         *)
(***************************************************************************)
Missing == {c \in Cameras : desired[c] /\ active[c] = NoProc}

HealthDue == \E stale \in SUBSET Cameras : Missing \subseteq stale /\ HealthRun(stale)

Fairness ==
    /\ \A p \in Procs : /\ WF_vars(ProcDies(p) /\ proc[p].stopRequested)
                        /\ WF_vars(ProcClosed(p))
                        /\ WF_vars(FinalScanDone(p))
    /\ \A t \in Calls : WF_vars(CallStep(t))
    /\ \A c \in Cameras : WF_vars(\E r \in Restarts : RestartFires(r, c))
    /\ WF_vars(\E c \in Cameras : GuardSuspend(c))
    /\ WF_vars(BootRead)
    /\ WF_vars(HealthDue)

LiveSpec == Spec /\ Fairness

-----------------------------------------------------------------------------
(* Properties.                                                             *)

Recording(c) == active[c] # NoProc /\ Running(active[c])

(* No call is working on the camera. *)
Quiet(c) == \A t \in Calls : call[t].cam # c

Live(r, c) == r.cam = c /\ r.os # "free" /\ r.fin # "done"

(* `active` never holds a recording that was already finalised, nor one of
   another camera: a stale entry would make every later start() answer
   'already_recording' for a camera that records nothing. *)
ActiveIsLive ==
    \A c \in Cameras : active[c] # NoProc => Live(proc[active[c]], c)

(* A call answers for process p of camera c: it started p and has not
   committed, or it is about to stop the camera, or it is stopping p. *)
Owns(r, c, p) ==
    r.cam = c /\ (r.pc = "stopMark" \/ (r.pc \in ProcPcs /\ r.p = p))

(* Two ways in which the code lets a running ffmpeg out of its hands: a start
   that overlapped with another has put its own process in `active` over it, or
   the kill gave up and the process was finalised while it still ran. *)
GaveUp(p)    == proc[p].stopRequested /\ proc[p].fin = "done"
Abandoned(p) == proc[p].displaced \/ GaveUp(p)

(* Of the processes of a camera that the client does not want recorded, every
   one that is in `active` and every one that still runs, wherever it is, has a
   call in flight that is going to stop it or to commit the opposite.  The
   processes the code has abandoned are left out by name. *)
DisarmedIsOwned ==
    \A c \in Cameras, p \in Procs :
        /\ proc[p].cam = c /\ ~desired[c]
        /\ active[c] = p \/ (Running(p) /\ ~Abandoned(p))
        => \E t \in Calls : Owns(call[t], c, p)

(* Once every call on the camera has returned, no ffmpeg of a camera the client
   does not want recorded is running, whatever order starts, stops, crashes,
   suspensions and rollbacks came in, except one the code has abandoned. *)
DisarmedStops ==
    \A c \in Cameras : Quiet(c) /\ ~desired[c] =>
        /\ active[c] = NoProc
        /\ \A p \in Procs : proc[p].cam = c /\ Running(p) => Abandoned(p)

(* "a parada vence a corrida": when no call works on a camera whose operator
   asked for a stop last, no ffmpeg of it runs.  Two things break it: a restart
   that is in its probe when the stop comes commits recordingEnabled = true after
   it, and of two starts that overlap between the look at `active` and its
   update the stop reaches the later one only. *)
StopWins ==
    \A c \in Cameras : Quiet(c) /\ ~intent[c] =>
        \A p \in Procs : proc[p].cam = c => ~Running(p)

(* "parada PEDIDA JAMAIS reinicia": a restart timer is armed only by the end
   of a process that died by itself, that nobody had asked to stop by then,
   outside a shutdown, and that left no other recording of the camera. *)
RestartOnlyAfterCrash ==
    [][\A c \in Cameras : ~timer[c] /\ timer'[c] =>
          \E p \in Procs : /\ proc[p].cam = c /\ proc[p].os = "dead"
                           /\ proc[p].fin = "scan" /\ proc'[p].fin # "scan"
                           /\ ~proc[p].stopRequested
                           /\ ~shuttingDown /\ active'[c] = NoProc]_vars

(* "Só uma ação explícita (stop/modo) muda o desejado": while no call works on
   the camera, one whose operator asked for recording is still armed. *)
IntentKept ==
    \A c \in Cameras : Quiet(c) /\ intent[c] => desired[c]

(* A camera its operator wants recorded does come (back) to recording: by the
   boot, by the restart after a crash or, with the brake on, by the health
   check. *)
WantedIsRecorded ==
    \A c \in Cameras : intent[c] ~> (Recording(c) \/ ~intent[c])

(* stop() always comes back, also when the process dies by itself while it is
   being stopped. *)
StopComesBack ==
    \A t \in Calls : (call[t].pc \in StopPcs) ~> (call[t].pc \notin StopPcs)
=============================================================================
