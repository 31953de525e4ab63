----------------------- MODULE RecordingControlProofs -----------------------
(***************************************************************************)
(* Proofs about RecordingControl, for any number of cameras, processes,    *)
(* operators and restarts in flight, and any set of faults.                *)
(*                                                                         *)
(* The inductive invariant is IndInv: types, ActiveIsLive (an entry of the *)
(* active map is not finalised) and ActiveOwned (the process that `active` *)
(* holds for a disarmed camera is answered for by a call).  ActiveOwned    *)
(* needs ActiveIsLive: a call that awaits a finalisation gives its process *)
(* up only when that is done, and then it has left the active map.         *)
(*                                                                         *)
(* Three more invariants rest on it.  CrashInv: whoever waits for a        *)
(* process has marked it, so that only a child that died by itself is      *)
(* abnormal (RestartOnlyAfterCrash).  TrackInv: a child is in `active`     *)
(* until its finalisation is done, unless another start displaced it; with *)
(* ActiveOwned this makes DisarmedIsOwned and DisarmedStops, which speak   *)
(* of every process.  WishInv: a call that will disarm a camera is the     *)
(* operator's, who has changed his mind (IntentKept).                      *)
(***************************************************************************)
EXTENDS RecordingControl, TLAPS

CallOK(r) ==
    /\ r \in CallRec
    /\ r.pc \in CamPcs => r.cam \in Cameras
    /\ r.pc \in ProcPcs => r.p \in Procs

(* The entry that a disarmed camera has in `active` is answered for. *)
ActiveOwned ==
    \A c \in Cameras : ~desired[c] /\ active[c] # NoProc =>
        \E t \in Calls : Owns(call[t], c, active[c])

IndInv == TypeOK /\ ActiveIsLive /\ ActiveOwned

-----------------------------------------------------------------------------
(* The records that the actions write.                                     *)

(* What a loop over cameras writes is a well-formed call that owns nothing. *)
LEMMA LoopOK ==
    ASSUME NEW S \in SUBSET Cameras
    PROVE  CallOK(Loop(S)) /\ Loop(S).pc \in {"idle", "next"}
  BY DEF CallOK, Loop, IdleCall, CallRec, Pcs, StartPcs, StopPcs, CamPcs, ProcPcs

(* So is the record of a slot without a call. *)
LEMMA IdleOK == CallOK(IdleCall) /\ IdleCall.pc = "idle"
  BY DEF CallOK, IdleCall, CallRec, Pcs, StartPcs, StopPcs, CamPcs, ProcPcs

(* A call on a camera begins well-formed, with any cameras left to visit. *)
LEMMA BeginOK ==
    ASSUME NEW c \in Cameras, NEW pc \in Pcs \ ProcPcs, NEW m \in BOOLEAN,
           NEW S \in SUBSET Cameras
    PROVE  /\ CallOK(Begin(c, pc, m))
           /\ CallOK([Begin(c, pc, m) EXCEPT !.todo = S])
  BY DEF CallOK, Begin, CallRec, Pcs, StartPcs, StopPcs, CamPcs, ProcPcs

(* The disk guard begins its wait for a process with that process in hand. *)
LEMMA BeginWaitOK ==
    ASSUME NEW c \in Cameras, NEW p \in Procs, NEW S \in SUBSET Cameras
    PROVE  CallOK([Begin(c, "stopWait", FALSE) EXCEPT !.p = p, !.todo = S])
  BY DEF CallOK, Begin, CallRec, Pcs, StartPcs, StopPcs, CamPcs, ProcPcs

(* A call that goes on to another await stays well-formed. *)
LEMMA GotoOK ==
    ASSUME NEW r, CallOK(r), NEW pc \in Pcs, r.cam \in Cameras,
           pc \in ProcPcs => r.p \in Procs
    PROVE  CallOK([r EXCEPT !.pc = pc])
  BY DEF CallOK, CallRec, Pcs, StartPcs, StopPcs, CamPcs, ProcPcs

(* The same when it also takes or drops a process. *)
LEMMA TakeOK ==
    ASSUME NEW r, CallOK(r), NEW pc \in Pcs, r.cam \in Cameras,
           NEW p \in Procs \cup {NoProc}, pc \in ProcPcs => p \in Procs
    PROVE  CallOK([r EXCEPT !.pc = pc, !.p = p])
  BY DEF CallOK, CallRec, Pcs, StartPcs, StopPcs, CamPcs, ProcPcs

(* The fields of a call that went on. *)
LEMMA Fields ==
    ASSUME NEW r, CallOK(r), NEW pc, NEW p
    PROVE  /\ [r EXCEPT !.pc = pc].pc = pc
           /\ [r EXCEPT !.pc = pc].cam = r.cam
           /\ [r EXCEPT !.pc = pc].p = r.p
           /\ [r EXCEPT !.pc = pc, !.p = p].pc = pc
           /\ [r EXCEPT !.pc = pc, !.p = p].cam = r.cam
           /\ [r EXCEPT !.pc = pc, !.p = p].p = p
  BY DEF CallOK, CallRec

(* The updates of a process record keep its type. *)
LEMMA ProcOK ==
    ASSUME NEW r \in ProcRec, NEW p, NEW S
    PROVE  /\ Finalizing(r) \in ProcRec
           /\ Released(p, r, S) \in ProcRec
           /\ [r EXCEPT !.os = "dead"] \in ProcRec
           /\ [r EXCEPT !.fin = "done"] \in ProcRec
           /\ [r EXCEPT !.stopRequested = TRUE] \in ProcRec
  BY DEF Finalizing, Released, FreeProc, ProcRec

(* A new child's record. *)
LEMMA NewProcOK ==
    ASSUME NEW c \in Cameras
    PROVE  /\ NewProc(c) \in ProcRec /\ Live(NewProc(c), c)
           /\ NewProc(c).os = "running" /\ NewProc(c).cam = c
           /\ NewProc(c).fin = "no" /\ ~NewProc(c).displaced /\ ~NewProc(c).abnormal
  BY DEF NewProc, FreeProc, ProcRec, Live

(* The records after a spawn: the new child's, and the others, of which one may
   be displaced. *)
LEMMA SpawnedOK ==
    ASSUME TypeOK, NEW p \in Procs, NEW c \in Cameras, proc' = Spawned(p, c)
    PROVE  /\ proc' \in [Procs -> ProcRec]
           /\ proc'[p] = NewProc(c)
           /\ \A q \in Procs \ {p} :
                 /\ proc'[q].os = proc[q].os /\ proc'[q].cam = proc[q].cam
                 /\ proc'[q].fin = proc[q].fin
                 /\ proc'[q].stopRequested = proc[q].stopRequested
                 /\ proc'[q].abnormal = proc[q].abnormal
                 /\ ~proc'[q].displaced => ~proc[q].displaced /\ q # active[c]
  <1>1. proc'[p] = NewProc(c) /\ NewProc(c) \in ProcRec  BY NewProcOK DEF Spawned
  <1>2. ASSUME NEW q \in Procs \ {p}
        PROVE  /\ proc'[q] \in ProcRec
               /\ proc'[q].os = proc[q].os /\ proc'[q].cam = proc[q].cam
               /\ proc'[q].fin = proc[q].fin
               /\ proc'[q].stopRequested = proc[q].stopRequested
               /\ proc'[q].abnormal = proc[q].abnormal
               /\ ~proc'[q].displaced => ~proc[q].displaced /\ q # active[c]
      <2>1. PICK b \in BOOLEAN : b <=> (proc[q].displaced \/ q = active[c])  OBVIOUS
      <2>2. proc[q] \in ProcRec  BY DEF TypeOK
      <2>3. proc'[q] = [proc[q] EXCEPT !.displaced = proc[q].displaced \/ q = active[c]]
          BY DEF Spawned
      <2>4. (proc[q].displaced \/ q = active[c]) = b  BY <2>1, Zenon
      <2>5. proc'[q] = [proc[q] EXCEPT !.displaced = b]  BY <2>3, <2>4
      <2>6. proc'[q].displaced = b  BY <2>2, <2>5 DEF ProcRec
      <2>7. QED  BY <2>1, <2>2, <2>5, <2>6 DEF ProcRec
  <1>3. \A q \in Procs : proc'[q] \in ProcRec  BY <1>1, <1>2
  <1>4. proc' \in [Procs -> ProcRec]  BY <1>3 DEF Spawned
  <1>5. QED  BY <1>1, <1>2, <1>4

-----------------------------------------------------------------------------
(* What one updated call, or one updated process, leaves true.             *)

(* Typed calls are well-formed. *)
LEMMA CallsTyped == TypeOK => \A t \in Calls : CallOK(call[t]) /\ call[t].todo \in SUBSET Cameras
  BY DEF TypeOK, CallsKnowTheirWork, CallOK, CallRec

(* One call is replaced by a well-formed one: the calls stay well-formed. *)
LEMMA StepTyped ==
    ASSUME TypeOK, NEW t \in Calls, NEW r, CallOK(r), Step(t, r)
    PROVE  /\ call' \in [Calls -> CallRec] /\ CallsKnowTheirWork'
           /\ call'[t] = r /\ \A u \in Calls : u # t => call'[u] = call[u]
  BY DEF TypeOK, CallsKnowTheirWork, CallOK, Step

(* One process record changes without ending the life of an active one. *)
LEMMA LiveKept ==
    ASSUME TypeOK, ActiveIsLive, UNCHANGED active, NEW p \in Procs, NEW r,
           proc' = [proc EXCEPT ![p] = r],
           \A c \in Cameras : Live(proc[p], c) => Live(r, c)
    PROVE  ActiveIsLive'
  BY DEF TypeOK, ActiveIsLive

(* One call changes: if it owned processes of disarmed cameras, it still does. *)
LEMMA OwnedKept ==
    ASSUME TypeOK, ActiveOwned, NEW t \in Calls, NEW r, CallOK(r), Step(t, r),
           UNCHANGED <<desired, active>>,
           \A c \in Cameras : Owns(call[t], c, active[c]) => Owns(r, c, active[c])
    PROVE  ActiveOwned'
  <1> SUFFICES ASSUME NEW c \in Cameras, ~desired[c], active[c] # NoProc
               PROVE  \E u \in Calls : Owns(call'[u], c, active[c])
      BY DEF ActiveOwned, Owns
  <1>1. PICK u \in Calls : Owns(call[u], c, active[c])
      BY DEF ActiveOwned
  <1>2. CASE u = t
      <2>1. call'[t] = r  BY StepTyped
      <2>2. Owns(call'[u], c, active[c])  BY <1>1, <1>2, <2>1
      <2>3. QED  BY <2>2
  <1>3. CASE u # t
      <2>1. call'[u] = call[u]  BY <1>3, StepTyped
      <2>2. QED  BY <1>1, <2>1
  <1>4. QED  BY <1>2, <1>3

(* A call that owns nothing may change at will. *)
LEMMA OwnedKeptIdle ==
    ASSUME TypeOK, ActiveOwned, NEW t \in Calls, NEW r, CallOK(r), Step(t, r),
           UNCHANGED <<desired, active>>,
           call[t].pc # "stopMark", call[t].pc \notin ProcPcs
    PROVE  ActiveOwned'
  BY OwnedKept DEF Owns

(* A step of a call that owns nothing, and that leaves the desired state, the
   active map and the processes alone. *)
LEMMA CallOnly ==
    ASSUME IndInv, NEW t \in Calls, NEW r, CallOK(r), Step(t, r),
           call[t].pc # "stopMark", call[t].pc \notin ProcPcs,
           UNCHANGED <<desired, mode, active, proc, env>>,
           enabled' \in [Cameras -> BOOLEAN], timer' \in [Cameras -> BOOLEAN],
           attempts' \in [Cameras -> 0..MaxAttempts],
           shuttingDown' \in BOOLEAN, intent' \in [Cameras -> BOOLEAN]
    PROVE  IndInv'
  <1>1. call' \in [Calls -> CallRec] /\ CallsKnowTheirWork'
      BY StepTyped DEF IndInv
  <1>2. TypeOK'  BY <1>1 DEF IndInv, TypeOK, env
  <1>3. ActiveIsLive'  BY DEF IndInv, ActiveIsLive
  <1>4. ActiveOwned'  BY OwnedKeptIdle DEF IndInv
  <1>5. QED  BY <1>2, <1>3, <1>4 DEF IndInv

(* start() up to the probe, and the failures that change nothing. *)
LEMMA StartReadsKeep ==
    ASSUME IndInv, NEW t \in Calls,
           StartCheck(t) \/ StartLookup(t) \/ CallFails(t)
    PROVE  IndInv'
  <1> USE DEF db, env
  <1>1. CallOK(call[t]) /\ call[t].todo \in SUBSET Cameras
      BY CallsTyped DEF IndInv
  <1>2. CallOK(StartReturns(t))  BY <1>1, LoopOK DEF StartReturns
  <1>3. call[t].pc \in FailPcs
      BY DEF StartCheck, StartLookup, CallFails, At, FailPcs
  <1>5. ASSUME StartCheck(t) \/ StartLookup(t),
               NEW pc \in {"startLookup", "startKeep", "startProbe"}
        PROVE  CallOK(Goto(t, pc))
      <2>1. call[t].cam \in Cameras
          BY <1>1, <1>5 DEF CallOK, CamPcs, StartPcs, StartCheck, StartLookup, At
      <2>2. QED  BY <1>1, <2>1, GotoOK DEF Goto, Pcs, StartPcs, ProcPcs
  <1>6. \E r : CallOK(r) /\ Step(t, r)
      <2>1. CASE StartCheck(t)  BY <1>2, <1>5, <2>1 DEF StartCheck
      <2>2. CASE StartLookup(t)  BY <1>5, <2>2 DEF StartLookup
      <2>3. CASE CallFails(t)  BY <1>2, <2>3 DEF CallFails
      <2>4. QED  BY <2>1, <2>2, <2>3
  <1>7. PICK r : CallOK(r) /\ Step(t, r)  BY <1>6
  <1>8. UNCHANGED <<enabled, desired, mode, active, proc, timer, attempts,
                    shuttingDown, intent, diskFree, licensed>>
      BY DEF StartCheck, StartLookup, CallFails
  <1>9. QED  BY <1>3, <1>7, <1>8, CallOnly DEF IndInv, TypeOK, ProcPcs, FailPcs

(* The other reads and failures of the calls. *)
LEMMA OtherReadsKeep ==
    ASSUME IndInv, NEW t \in Calls,
           StopWriteFails(t) \/ ProvisionRead(t) \/ RestartRead(t)
    PROVE  IndInv'
  <1> USE DEF db, env
  <1>1. CallOK(call[t]) /\ call[t].todo \in SUBSET Cameras
      BY CallsTyped DEF IndInv
  <1>2. CallOK(StopThrows(t))  BY <1>1, LoopOK, IdleOK DEF StopThrows
  <1>3. call[t].pc \in {"stopWrite", "provRead", "restartRead"}
      BY DEF StopWriteFails, ProvisionRead, RestartRead, At
  <1>4. call[t].cam \in Cameras  BY <1>1, <1>3 DEF CallOK, CamPcs, StopPcs
  <1>5. CallOK(Goto(t, "startCheck"))
      BY <1>1, <1>4, GotoOK DEF Goto, Pcs, StartPcs, ProcPcs
  <1>6. \E r : CallOK(r) /\ Step(t, r)
      <2>1. CASE StopWriteFails(t)  BY <1>2, <2>1 DEF StopWriteFails
      <2>2. CASE ProvisionRead(t)  BY <1>5, IdleOK, <2>2 DEF ProvisionRead
      <2>3. CASE RestartRead(t)  BY <1>5, IdleOK, <2>3 DEF RestartRead
      <2>4. QED  BY <2>1, <2>2, <2>3
  <1>7. PICK r : CallOK(r) /\ Step(t, r)  BY <1>6
  <1>8. UNCHANGED <<enabled, desired, mode, active, proc, timer, attempts,
                    shuttingDown, intent, diskFree, licensed>>
      BY DEF StopWriteFails, ProvisionRead, RestartRead
  <1>9. QED  BY <1>3, <1>7, <1>8, CallOnly DEF IndInv, TypeOK, ProcPcs

(* The requests of operators and the next camera of a loop. *)
LEMMA BeginsKeep ==
    ASSUME IndInv, NEW t \in Calls, NEW c \in Cameras,
           NextCamera(t, c) \/ UserStep(t, c) \/ RestartFires(t, c)
    PROVE  IndInv'
  <1> USE DEF db, env
  <1>1. call[t].todo \in SUBSET Cameras  BY CallsTyped DEF IndInv
  <1>2. \A pc \in {"startCheck", "stopWrite", "provRead", "restartRead"}, m \in BOOLEAN :
            CallOK(Begin(c, pc, m)) /\ CallOK([Begin(c, pc, m) EXCEPT !.todo = call[t].todo \ {c}])
      BY <1>1, BeginOK DEF Pcs, StartPcs, StopPcs, ProcPcs
  <1>3. call[t].pc \in {"idle", "next"}
      BY DEF NextCamera, UserStep, UserStart, UserStop, UserDisable, UserEnable, RestartFires, At
  <1>4. \E r : CallOK(r) /\ Step(t, r)
      <2>1. CASE NextCamera(t, c)  BY <1>2, <2>1 DEF NextCamera, FirstPc
      <2>2. CASE UserStep(t, c)
          BY <1>2, <2>2 DEF UserStep, UserStart, UserStop, UserDisable, UserEnable
      <2>3. CASE RestartFires(t, c)  BY <1>2, IdleOK, <2>3 DEF RestartFires
      <2>4. QED  BY <2>1, <2>2, <2>3
  <1>5. PICK r : CallOK(r) /\ Step(t, r)  BY <1>4
  <1>6. /\ UNCHANGED <<desired, mode, active, proc, attempts, shuttingDown, diskFree, licensed>>
        /\ enabled' \in [Cameras -> BOOLEAN] /\ timer' \in [Cameras -> BOOLEAN]
        /\ intent' \in [Cameras -> BOOLEAN]
      BY DEF IndInv, TypeOK, NextCamera, UserStep, UserStart, UserStop, UserDisable,
             UserEnable, RestartFires
  <1>7. QED  BY <1>3, <1>5, <1>6, CallOnly DEF IndInv, TypeOK, ProcPcs

(* The background routines collect the cameras they will visit. *)
LEMMA RoutinesKeep ==
    ASSUME IndInv,
           \/ \E stale \in SUBSET Cameras : HealthRun(stale)
           \/ GuardRun \/ RestrictRun \/ Shutdown \/ BootRead
    PROVE  IndInv'
  <1> USE DEF db, env
  <1>1. {Health, Guard, StopAll, Boot} \subseteq Calls  BY DEF Calls, Routines
  <1>2. \E t \in Calls, S \in SUBSET Cameras :
            Step(t, Loop(S)) /\ call[t].pc \in {"idle", "bootRead"}
      <2>1. CASE \E stale \in SUBSET Cameras : HealthRun(stale)
          BY <1>1, <2>1 DEF HealthRun, At
      <2>2. CASE GuardRun  BY <1>1, <2>2 DEF GuardRun, At
      <2>3. CASE RestrictRun  BY <1>1, <2>3 DEF RestrictRun, At
      <2>4. CASE Shutdown  BY <1>1, <2>4 DEF Shutdown, At
      <2>5. CASE BootRead  BY <1>1, <2>5 DEF BootRead, At
      <2>6. QED  BY <2>1, <2>2, <2>3, <2>4, <2>5
  <1>3. PICK t \in Calls, S \in SUBSET Cameras :
            Step(t, Loop(S)) /\ call[t].pc \in {"idle", "bootRead"}
      BY <1>2
  <1>4. CallOK(Loop(S))  BY LoopOK
  <1>5. /\ UNCHANGED <<enabled, desired, mode, active, proc, intent, diskFree, licensed>>
        /\ timer' \in [Cameras -> BOOLEAN] /\ attempts' \in [Cameras -> 0..MaxAttempts]
        /\ shuttingDown' \in BOOLEAN
      <2>1. CASE Shutdown  BY <2>1, Constants DEF IndInv, TypeOK, Shutdown
      <2>2. CASE ~Shutdown
          BY <2>2 DEF IndInv, TypeOK, HealthRun, GuardRun, RestrictRun, BootRead
      <2>3. QED  BY <2>1, <2>2
  <1>6. QED  BY <1>3, <1>4, <1>5, CallOnly DEF IndInv, TypeOK, ProcPcs

-----------------------------------------------------------------------------
(* The steps of a process.                                                 *)

(* An exit, its close event and the end of its final scan keep the invariant:
   only the last one takes an entry out of the active map. *)
LEMMA ProcStepKeeps ==
    ASSUME IndInv, NEW p \in Procs, ProcStep(p)
    PROVE  IndInv'
  <1> USE DEF db, env
  <1>1. proc[p] \in ProcRec  BY DEF IndInv, TypeOK
  <1>2. CASE ProcDies(p)
      <2> DEFINE d == [proc[p] EXCEPT !.os = "dead"]
                 r == Released(p, d, Calls)
      <2>1. proc' = [proc EXCEPT ![p] = r]  BY <1>2 DEF ProcDies
      <2>2. r \in ProcRec  BY <1>1, ProcOK
      <2>3. TypeOK'  BY <1>2, <2>1, <2>2 DEF ProcDies, IndInv, TypeOK, CallsKnowTheirWork
      <2>4. \A c \in Cameras : Live(proc[p], c) => Live(r, c)
          BY <1>1 DEF Live, Released, ProcRec
      <2>5. ActiveIsLive'  BY <1>2, <2>1, <2>4, LiveKept DEF ProcDies, IndInv
      <2>6. ActiveOwned'  BY <1>2 DEF ProcDies, IndInv, ActiveOwned, Owns
      <2>7. QED  BY <2>3, <2>5, <2>6 DEF IndInv
  <1>3. CASE ProcClosed(p)
      <2> DEFINE r == Finalizing(proc[p])
      <2>1. proc' = [proc EXCEPT ![p] = r]  BY <1>3 DEF ProcClosed
      <2>2. r \in ProcRec  BY <1>1, ProcOK
      <2>3. TypeOK'  BY <1>3, <2>1, <2>2 DEF ProcClosed, IndInv, TypeOK, CallsKnowTheirWork
      <2>4. \A c \in Cameras : Live(proc[p], c) => Live(r, c)
          BY <1>1 DEF Live, Finalizing, ProcRec
      <2>5. ActiveIsLive'  BY <1>3, <2>1, <2>4, LiveKept DEF ProcClosed, IndInv
      <2>6. ActiveOwned'  BY <1>3 DEF ProcClosed, IndInv, ActiveOwned, Owns
      <2>7. QED  BY <2>3, <2>5, <2>6 DEF IndInv
  <1>4. CASE FinalScanDone(p)
      <2> DEFINE r == Released(p, [proc[p] EXCEPT !.fin = "done"], Calls)
                 k == proc[p].cam
      <2>1. proc' = [proc EXCEPT ![p] = r]  BY <1>4 DEF FinalScanDone
      <2>2. r \in ProcRec  BY <1>1, ProcOK
      <2>3. active' = IF active[k] = p THEN [active EXCEPT ![k] = NoProc] ELSE active
          BY <1>4 DEF FinalScanDone
      <2>4. timer' \in [Cameras -> BOOLEAN]
          BY <1>4 DEF FinalScanDone, IndInv, TypeOK, MaySchedule
      <2>5. attempts' \in [Cameras -> 0..MaxAttempts]
          <3>1. PICK b \in BOOLEAN :
                    /\ b => attempts[k] < MaxAttempts
                    /\ attempts' = [attempts EXCEPT ![k] = IF b THEN @ + 1 ELSE @]
              BY <1>4 DEF FinalScanDone, MaySchedule, PlanAllows
          <3>2. attempts \in [Cameras -> 0..MaxAttempts]  BY DEF IndInv, TypeOK
          <3>3. k \in Cameras => attempts[k] \in 0..MaxAttempts  BY <3>2
          <3>4. CASE b
              <4>1. k \in Cameras => attempts[k] + 1 \in 0..MaxAttempts
                  BY <3>1, <3>3, <3>4, Constants
              <4>2. attempts' = [attempts EXCEPT ![k] = attempts[k] + 1]  BY <3>1, <3>4
              <4>3. QED  BY <3>2, <4>1, <4>2
          <3>5. CASE ~b
              <4>1. attempts' = [attempts EXCEPT ![k] = attempts[k]]  BY <3>1, <3>5
              <4>2. QED  BY <3>2, <3>3, <4>1
          <3>6. QED  BY <3>4, <3>5
      <2>6. TypeOK'
          BY <1>4, <2>1, <2>2, <2>3, <2>4, <2>5
          DEF FinalScanDone, IndInv, TypeOK, CallsKnowTheirWork
      <2>7. \A c \in Cameras : active'[c] # NoProc => active'[c] = active[c] /\ active[c] # p
          BY <2>3 DEF IndInv, TypeOK, ActiveIsLive, Live
      <2>8. ActiveIsLive'  BY <2>1, <2>7 DEF IndInv, TypeOK, ActiveIsLive
      <2>9. ActiveOwned'
          BY <1>4, <2>7 DEF FinalScanDone, IndInv, ActiveOwned, Owns
      <2>10. QED  BY <2>6, <2>8, <2>9 DEF IndInv
  <1>5. QED  BY <1>2, <1>3, <1>4 DEF ProcStep

-----------------------------------------------------------------------------
(* The steps of start() and stop() that write.                             *)

(* 'already_recording' arms the camera. *)
LEMMA StartKeepKeeps ==
    ASSUME IndInv, NEW t \in Calls, StartKeep(t)
    PROVE  IndInv'
  <1> USE DEF db, env
  <1>1. CallOK(StartReturns(t))  BY CallsTyped, LoopOK DEF IndInv, StartReturns
  <1>2. Step(t, StartReturns(t))  BY DEF StartKeep
  <1>3. /\ call' \in [Calls -> CallRec] /\ CallsKnowTheirWork'
        /\ \A u \in Calls : u # t => call'[u] = call[u]
      BY <1>1, <1>2, StepTyped DEF IndInv
  <1>4. TypeOK'  BY <1>3 DEF IndInv, TypeOK, StartKeep, CommitDesired
  <1>5. ActiveIsLive'  BY DEF IndInv, ActiveIsLive, StartKeep
  <1>6. ActiveOwned'
      <2> SUFFICES ASSUME NEW c \in Cameras, ~desired'[c], active[c] # NoProc
                   PROVE  \E u \in Calls : Owns(call'[u], c, active[c])
          BY DEF ActiveOwned, Owns, StartKeep
      <2>1. ~desired[c]  BY DEF IndInv, TypeOK, StartKeep, CommitDesired
      <2>2. PICK u \in Calls : Owns(call[u], c, active[c])
          BY <2>1 DEF IndInv, ActiveOwned
      <2>3. u # t  BY <2>2 DEF StartKeep, At, Owns, ProcPcs
      <2>4. QED  BY <1>3, <2>2, <2>3
  <1>7. QED  BY <1>4, <1>5, <1>6 DEF IndInv

(* The new process is owned by the start that spawned it. *)
LEMMA StartSpawnKeeps ==
    ASSUME IndInv, NEW t \in Calls, StartSpawn(t)
    PROVE  IndInv'
  <1> USE DEF db, env
  <1> DEFINE k == call[t].cam
  <1>1. CallOK(call[t]) /\ k \in Cameras
      BY CallsTyped DEF IndInv, CallOK, StartSpawn, At, CamPcs, StartPcs
  <1>2. PICK p \in Procs :
            /\ proc[p].os = "free"
            /\ proc' = Spawned(p, k)
            /\ active' = [active EXCEPT ![k] = p]
            /\ Step(t, [call[t] EXCEPT !.pc = "startCommit", !.p = p])
      BY DEF StartSpawn
  <1> DEFINE r == [call[t] EXCEPT !.pc = "startCommit", !.p = p]
             n == NewProc(k)
  <1>3. CallOK(r) /\ r.pc = "startCommit" /\ r.cam = k /\ r.p = p
      <2>1. "startCommit" \in Pcs /\ p \in Procs \cup {NoProc}  BY DEF Pcs, StartPcs
      <2>2. CallOK(r)  BY <1>1, <2>1, TakeOK
      <2>3. QED  BY <1>1, <2>2, Fields
  <1>4. n \in ProcRec /\ Live(n, k)  BY <1>1, NewProcOK
  <1>5. /\ call' \in [Calls -> CallRec] /\ CallsKnowTheirWork'
        /\ call'[t] = r /\ \A u \in Calls : u # t => call'[u] = call[u]
      BY <1>2, <1>3, StepTyped DEF IndInv
  <1> HIDE DEF k, n, r
  <1>8. /\ proc' \in [Procs -> ProcRec] /\ proc'[p] = n
        /\ \A q \in Procs, c \in Cameras : q # p => (Live(proc[q], c) => Live(proc'[q], c))
      BY <1>1, <1>2, SpawnedOK DEF IndInv, Live, n
  <1>6. TypeOK'
      BY <1>1, <1>2, <1>5, <1>8 DEF IndInv, TypeOK, StartSpawn
  <1>7. \A c \in Cameras : active[c] # p
      BY <1>2, Constants DEF IndInv, ActiveIsLive, Live
  <1>9. ActiveIsLive'
      BY <1>1, <1>2, <1>4, <1>7, <1>8 DEF IndInv, TypeOK, ActiveIsLive
  <1>10. ActiveOwned'
      <2> SUFFICES ASSUME NEW c \in Cameras, ~desired[c], active'[c] # NoProc
                   PROVE  \E u \in Calls : Owns(call'[u], c, active'[c])
          BY DEF ActiveOwned, Owns, StartSpawn
      <2> USE DEF k
      <2>1. CASE c = k
          <3>1. active'[c] = p  BY <1>1, <1>2, <2>1 DEF IndInv, TypeOK
          <3>2. Owns(call'[t], c, active'[c])  BY <1>3, <1>5, <2>1, <3>1 DEF Owns, ProcPcs
          <3>3. QED  BY <3>2
      <2>2. CASE c # k
          <3>1. active'[c] = active[c]  BY <1>2, <2>2 DEF IndInv, TypeOK
          <3>2. PICK u \in Calls : Owns(call[u], c, active[c])
              BY <3>1 DEF IndInv, ActiveOwned
          <3>3. u # t  BY <3>2 DEF StartSpawn, At, Owns, ProcPcs
          <3>4. QED  BY <1>5, <3>1, <3>2, <3>3
      <2>3. QED  BY <2>1, <2>2
  <1>11. QED  BY <1>6, <1>9, <1>10 DEF IndInv

(* The commit arms the camera, so it may give its process up. *)
LEMMA StartCommitKeeps ==
    ASSUME IndInv, NEW t \in Calls, StartCommit(t)
    PROVE  IndInv'
  <1> USE DEF db, env
  <1> DEFINE p == call[t].p
             k == call[t].cam
             r == Released(p, proc[p], Calls \ {t})
  <1>1. CallOK(call[t]) /\ k \in Cameras /\ p \in Procs
      BY CallsTyped DEF IndInv, CallOK, StartCommit, At, CamPcs, StartPcs, ProcPcs
  <1>2. CallOK(StartReturns(t)) /\ Step(t, StartReturns(t))
      BY CallsTyped, LoopOK DEF IndInv, StartReturns, StartCommit
  <1>3. /\ call' \in [Calls -> CallRec] /\ CallsKnowTheirWork'
        /\ \A u \in Calls : u # t => call'[u] = call[u]
      BY <1>2, StepTyped DEF IndInv
  <1>4. proc[p] \in ProcRec /\ r \in ProcRec  BY <1>1, ProcOK DEF IndInv, TypeOK
  <1>5. proc' = [proc EXCEPT ![p] = r]  BY DEF StartCommit
  <1>6. TypeOK'
      BY <1>3, <1>4, <1>5 DEF IndInv, TypeOK, StartCommit, CommitDesired
  <1>7. \A c \in Cameras : Live(proc[p], c) => Live(r, c)  BY DEF Live, Released
  <1>8. ActiveIsLive'  BY <1>1, <1>5, <1>7, LiveKept DEF IndInv, StartCommit
  <1>9. ActiveOwned'
      <2> SUFFICES ASSUME NEW c \in Cameras, ~desired'[c], active[c] # NoProc
                   PROVE  \E u \in Calls : Owns(call'[u], c, active[c])
          BY DEF ActiveOwned, Owns, StartCommit
      <2>1. ~desired[c] /\ c # k  BY DEF IndInv, TypeOK, StartCommit, CommitDesired
      <2>2. PICK u \in Calls : Owns(call[u], c, active[c])
          BY <2>1 DEF IndInv, ActiveOwned
      <2>3. u # t  BY <2>1, <2>2 DEF Owns
      <2>4. QED  BY <1>3, <2>2, <2>3
  <1>10. QED  BY <1>6, <1>8, <1>9 DEF IndInv

(* A call keeps its process while it marks it, waits for its exit and starts
   its finalisation. *)
LEMMA HoldsOn ==
    ASSUME IndInv, NEW t \in Calls, NEW q \in ProcPcs, call[t].pc \in ProcPcs,
           NEW r \in ProcRec, \A c \in Cameras : Live(proc[call[t].p], c) => Live(r, c),
           proc' = [proc EXCEPT ![call[t].p] = r], Step(t, Goto(t, q)),
           UNCHANGED <<db, env, active, timer, attempts, shuttingDown, intent>>
    PROVE  IndInv'
  <1> USE DEF db, env
  <1>1. CallOK(call[t]) /\ call[t].cam \in Cameras /\ call[t].p \in Procs
      BY CallsTyped DEF IndInv, CallOK, CamPcs, StartPcs, StopPcs, ProcPcs
  <1>2. q \in Pcs  BY DEF Pcs, StartPcs, StopPcs, ProcPcs
  <1>3. CallOK(Goto(t, q))  BY <1>1, <1>2, GotoOK DEF Goto
  <1>4. Goto(t, q).pc = q /\ Goto(t, q).cam = call[t].cam /\ Goto(t, q).p = call[t].p
      BY <1>1, Fields DEF Goto
  <1>5. call' \in [Calls -> CallRec] /\ CallsKnowTheirWork'
      BY <1>3, StepTyped DEF IndInv
  <1>6. TypeOK'  BY <1>5 DEF IndInv, TypeOK
  <1>7. ActiveIsLive'  BY <1>1, LiveKept DEF IndInv
  <1>8. \A c \in Cameras : Owns(call[t], c, active[c]) => Owns(Goto(t, q), c, active[c])
      BY <1>4 DEF Owns, ProcPcs
  <1>9. ActiveOwned'  BY <1>3, <1>8, OwnedKept DEF IndInv
  <1>10. QED  BY <1>6, <1>7, <1>9 DEF IndInv

(* The rollback of a start, and the end of the wait for an exit. *)
LEMMA WaitsKeep ==
    ASSUME IndInv, NEW t \in Calls, StartRollback(t) \/ KillWait(t)
    PROVE  IndInv'
  <1> DEFINE p == call[t].p
  <1>1. p \in Procs /\ proc[p] \in ProcRec
      BY CallsTyped DEF IndInv, CallOK, TypeOK, StartRollback, KillWait, At, ProcPcs
  <1>2. CASE StartRollback(t)
      <2> DEFINE r == [proc[p] EXCEPT !.stopRequested = TRUE]
      <2>1. r \in ProcRec  BY <1>1, ProcOK
      <2>2. \A c \in Cameras : Live(proc[p], c) => Live(r, c)  BY <1>1 DEF Live, ProcRec
      <2>3. proc' = [proc EXCEPT ![p] = r] /\ Step(t, Goto(t, "rollWait"))
            /\ call[t].pc \in ProcPcs /\ "rollWait" \in ProcPcs
          BY <1>2 DEF StartRollback, At, ProcPcs
      <2>4. QED  BY <1>2, <2>1, <2>2, <2>3, HoldsOn DEF StartRollback
  <1>3. CASE KillWait(t)
      <2> DEFINE r == Finalizing(proc[p])
                 q == IF At(t, "stopWait") THEN "stopFin" ELSE "rollFin"
      <2>1. r \in ProcRec  BY <1>1, ProcOK
      <2>2. \A c \in Cameras : Live(proc[p], c) => Live(r, c)
          BY <1>1 DEF Live, Finalizing, ProcRec
      <2>3. proc' = [proc EXCEPT ![p] = r] /\ Step(t, Goto(t, q))
            /\ call[t].pc \in ProcPcs /\ q \in ProcPcs
          BY <1>3 DEF KillWait, ProcPcs
      <2>4. QED  BY <1>3, <2>1, <2>2, <2>3, HoldsOn DEF KillWait
  <1>4. QED  BY <1>2, <1>3

(* stop() disarms the camera and is then about to mark its process. *)
LEMMA StopWriteKeeps ==
    ASSUME IndInv, NEW t \in Calls, StopWrite(t)
    PROVE  IndInv'
  <1> USE DEF db, env
  <1> DEFINE k == call[t].cam
             r == Goto(t, "stopMark")
  <1>1. CallOK(call[t]) /\ k \in Cameras
      BY CallsTyped DEF IndInv, CallOK, StopWrite, At, CamPcs, StopPcs
  <1>2. CallOK(r)  BY <1>1, GotoOK DEF Goto, Pcs, StopPcs, ProcPcs
  <1>3. r.pc = "stopMark" /\ r.cam = k  BY <1>1, Fields DEF Goto
  <1>4. /\ call' \in [Calls -> CallRec] /\ CallsKnowTheirWork'
        /\ call'[t] = r /\ \A u \in Calls : u # t => call'[u] = call[u]
      BY <1>2, StepTyped DEF IndInv, StopWrite
  <1>5. TypeOK'  BY <1>4 DEF IndInv, TypeOK, StopWrite, CommitDesired
  <1>6. ActiveIsLive'  BY DEF IndInv, ActiveIsLive, StopWrite
  <1>7. ActiveOwned'
      <2> SUFFICES ASSUME NEW c \in Cameras, ~desired'[c], active[c] # NoProc
                   PROVE  \E u \in Calls : Owns(call'[u], c, active[c])
          BY DEF ActiveOwned, Owns, StopWrite
      <2>1. CASE c = k  BY <1>3, <1>4, <2>1 DEF Owns
      <2>2. CASE c # k
          <3>1. ~desired[c]  BY <2>2 DEF IndInv, TypeOK, StopWrite, CommitDesired
          <3>2. PICK u \in Calls : Owns(call[u], c, active[c])
              BY <3>1 DEF IndInv, ActiveOwned
          <3>3. u # t  BY <3>2, <2>2 DEF Owns
          <3>4. QED  BY <1>4, <3>2, <3>3
      <2>3. QED  BY <2>1, <2>2
  <1>8. QED  BY <1>5, <1>6, <1>7 DEF IndInv

(* A process taken from the active map is marked, and the call that marks it
   owns it from then on. *)
LEMMA MarkKeeps ==
    ASSUME IndInv, NEW t \in Calls, NEW k \in Cameras, active[k] # NoProc,
           NEW r, CallOK(r), r.pc = "stopWait", r.cam = k, r.p = active[k],
           call[t].pc \in {"stopMark", "next"},
           call[t].pc = "stopMark" => call[t].cam = k, Step(t, r),
           proc' = [proc EXCEPT ![active[k]].stopRequested = TRUE],
           UNCHANGED <<db, env, active, shuttingDown, intent>>,
           timer' \in [Cameras -> BOOLEAN], attempts' \in [Cameras -> 0..MaxAttempts]
    PROVE  IndInv'
  <1> USE DEF db, env
  <1> DEFINE p == active[k]
             m == [proc[p] EXCEPT !.stopRequested = TRUE]
  <1>1. p \in Procs /\ proc[p] \in ProcRec  BY DEF IndInv, TypeOK
  <1>2. m \in ProcRec /\ proc' = [proc EXCEPT ![p] = m]  BY <1>1, ProcOK
  <1>3. call' \in [Calls -> CallRec] /\ CallsKnowTheirWork'
      BY StepTyped DEF IndInv
  <1>4. TypeOK'  BY <1>2, <1>3 DEF IndInv, TypeOK
  <1>5. \A c \in Cameras : Live(proc[p], c) => Live(m, c)  BY <1>1 DEF Live, ProcRec
  <1>6. ActiveIsLive'  BY <1>1, <1>2, <1>5, LiveKept DEF IndInv
  <1>7. \A c \in Cameras : Owns(call[t], c, active[c]) => Owns(r, c, active[c])
      BY DEF Owns, ProcPcs
  <1>8. ActiveOwned'  BY <1>7, OwnedKept DEF IndInv
  <1>9. QED  BY <1>4, <1>6, <1>8 DEF IndInv

(* What a returning stop() leaves behind is well-formed. *)
LEMMA StopReturnsOK ==
    ASSUME TypeOK, NEW t \in Calls, call[t].cam \in Cameras
    PROVE  CallOK(StopReturns(t)) /\ CallOK(StartReturns(t))
  <1>1. CallOK(Loop(call[t].todo))  BY CallsTyped, LoopOK
  <1>2. "startCheck" \in Pcs /\ "startCheck" \notin ProcPcs  BY DEF Pcs, StartPcs, ProcPcs
  <1>3. CallOK([call[t] EXCEPT !.pc = "startCheck", !.p = NoProc])
      BY <1>2, CallsTyped, TakeOK
  <1>4. QED  BY <1>1, <1>3 DEF StopReturns, StartReturns

(* stop() either marks the active process or finds none. *)
LEMMA StopMarkKeeps ==
    ASSUME IndInv, NEW t \in Calls, StopMark(t)
    PROVE  IndInv'
  <1> DEFINE k == call[t].cam
             p == active[k]
             r == [call[t] EXCEPT !.pc = "stopWait", !.p = p]
  <1>1. CallOK(call[t]) /\ k \in Cameras /\ p \in Procs \cup {NoProc}
      BY CallsTyped DEF IndInv, TypeOK, CallOK, StopMark, At, CamPcs, StopPcs
  <1>2. timer' \in [Cameras -> BOOLEAN] /\ attempts' \in [Cameras -> 0..MaxAttempts]
      <2>1. 0 \in 0..MaxAttempts  BY Constants
      <2>2. timer' \in [Cameras -> BOOLEAN]  BY DEF IndInv, TypeOK, StopMark
      <2>3. attempts' \in [Cameras -> 0..MaxAttempts]  BY <2>1 DEF IndInv, TypeOK, StopMark
      <2>4. QED  BY <2>2, <2>3
  <1>3. CASE p = NoProc
      <2> USE DEF db, env
      <2>1. CallOK(StopReturns(t)) /\ Step(t, StopReturns(t))
          BY <1>1, <1>3, StopReturnsOK DEF IndInv, StopMark
      <2>2. call' \in [Calls -> CallRec] /\ CallsKnowTheirWork'
          BY <2>1, StepTyped DEF IndInv
      <2>3. TypeOK'  BY <1>2, <1>3, <2>2 DEF IndInv, TypeOK, StopMark
      <2>4. ActiveIsLive'  BY <1>3 DEF IndInv, ActiveIsLive, StopMark
      <2>5. ActiveOwned'
          <3> SUFFICES ASSUME NEW c \in Cameras, ~desired[c], active[c] # NoProc
                       PROVE  \E u \in Calls : Owns(call'[u], c, active[c])
              BY DEF ActiveOwned, Owns, StopMark
          <3>1. PICK u \in Calls : Owns(call[u], c, active[c])
              BY DEF IndInv, ActiveOwned
          <3>2. u # t  BY <1>3, <3>1 DEF Owns
          <3>3. call'[u] = call[u]  BY <2>1, <3>2, StepTyped DEF IndInv
          <3>4. QED  BY <3>1, <3>3
      <2>6. QED  BY <2>3, <2>4, <2>5 DEF IndInv
  <1>4. CASE p # NoProc
      <2>1. "stopWait" \in Pcs  BY DEF Pcs, StopPcs
      <2>2. p \in Procs  BY <1>1, <1>4
      <2>3. CallOK(r)  BY <1>1, <2>1, <2>2, TakeOK
      <2>4. r.pc = "stopWait" /\ r.cam = k /\ r.p = p  BY <1>1, Fields
      <2>5. /\ Step(t, r) /\ proc' = [proc EXCEPT ![p].stopRequested = TRUE]
            /\ call[t].pc = "stopMark"
            /\ UNCHANGED <<db, env, active, shuttingDown, intent>>
          BY <1>4 DEF StopMark, At
      <2>6. QED  BY <1>1, <1>2, <1>4, <2>3, <2>4, <2>5, MarkKeeps
  <1>5. QED  BY <1>3, <1>4

(* The disk guard marks a process in the same way, without disarming. *)
LEMMA GuardSuspendKeeps ==
    ASSUME IndInv, NEW k \in Cameras, GuardSuspend(k)
    PROVE  IndInv'
  <1> DEFINE p == active[k]
             rest == call[Guard].todo \ {k}
             r == [Begin(k, "stopWait", FALSE) EXCEPT !.p = p, !.todo = rest]
  <1>1. Guard \in Calls  BY DEF Calls, Routines
  <1>2. rest \in SUBSET Cameras  BY <1>1, CallsTyped DEF IndInv
  <1>3. CASE p = NoProc
      <2>1. CallOK(Loop(rest)) /\ Step(Guard, Loop(rest)) /\ call[Guard].pc = "next"
          BY <1>2, <1>3, LoopOK DEF GuardSuspend, At
      <2>2. UNCHANGED <<enabled, desired, mode, active, proc, timer, attempts,
                        shuttingDown, intent, env>>
          BY <1>3 DEF GuardSuspend, db
      <2>3. QED  BY <1>1, <2>1, <2>2, CallOnly DEF IndInv, TypeOK, ProcPcs
  <1>4. CASE p # NoProc
      <2>1. p \in Procs  BY <1>4 DEF IndInv, TypeOK
      <2>2. CallOK(r) /\ r.pc = "stopWait" /\ r.cam = k /\ r.p = p
          <3>1. CallOK(r)  BY <1>2, <2>1, BeginWaitOK
          <3>2. QED  BY <3>1 DEF Begin, CallOK, CallRec
      <2>3. /\ Step(Guard, r) /\ proc' = [proc EXCEPT ![p].stopRequested = TRUE]
            /\ call[Guard].pc = "next"
            /\ UNCHANGED <<db, env, active, timer, attempts, shuttingDown, intent>>
          BY <1>4 DEF GuardSuspend, At
      <2>4. QED  BY <1>1, <1>4, <2>2, <2>3, MarkKeeps DEF IndInv, TypeOK
  <1>5. QED  BY <1>3, <1>4

(* A call that awaited a finalisation returns: its process is done, so it is
   not in the active map and needs no owner. *)
LEMMA FinalizeAwaitedKeeps ==
    ASSUME IndInv, NEW t \in Calls, FinalizeAwaited(t)
    PROVE  IndInv'
  <1> USE DEF db, env
  <1> DEFINE p == call[t].p
             r == Released(p, proc[p], Calls \ {t})
             n == IF At(t, "stopFin") THEN StopReturns(t) ELSE StartReturns(t)
  <1>1. call[t].cam \in Cameras /\ p \in Procs
      BY CallsTyped DEF IndInv, CallOK, FinalizeAwaited, CamPcs, StartPcs, StopPcs, ProcPcs
  <1>2. CallOK(n) /\ Step(t, n)
      BY <1>1, StopReturnsOK DEF IndInv, FinalizeAwaited
  <1>3. call' \in [Calls -> CallRec] /\ CallsKnowTheirWork'
      BY <1>2, StepTyped DEF IndInv
  <1>4. r \in ProcRec  BY <1>1, ProcOK DEF IndInv, TypeOK
  <1>5. proc' = [proc EXCEPT ![p] = r] /\ UNCHANGED active  BY DEF FinalizeAwaited
  <1>6. TypeOK'  BY <1>3, <1>4, <1>5 DEF IndInv, TypeOK, FinalizeAwaited
  <1>7. \A c \in Cameras : Live(proc[p], c) => Live(r, c)  BY DEF Live, Released
  <1>8. ActiveIsLive'  BY <1>1, <1>5, <1>7, LiveKept DEF IndInv
  <1>9. \A c \in Cameras : active[c] # NoProc => active[c] # p
      BY DEF IndInv, ActiveIsLive, Live, FinalizeAwaited
  <1>10. ActiveOwned'
      <2> SUFFICES ASSUME NEW c \in Cameras, ~desired[c], active[c] # NoProc
                   PROVE  \E u \in Calls : Owns(call'[u], c, active[c])
          BY DEF ActiveOwned, Owns, FinalizeAwaited
      <2>1. PICK u \in Calls : Owns(call[u], c, active[c])
          BY DEF IndInv, ActiveOwned
      <2>2. u # t  BY <1>9, <2>1 DEF Owns, FinalizeAwaited
      <2>3. call'[u] = call[u]  BY <1>2, <2>2, StepTyped DEF IndInv
      <2>4. QED  BY <2>1, <2>3
  <1>11. QED  BY <1>6, <1>8, <1>10 DEF IndInv

-----------------------------------------------------------------------------
(* The window, the environment and the restart of the API.                 *)

(* None of them touches what the invariant relates, or they reset it all. *)
LEMMA EnvironmentKeeps ==
    ASSUME IndInv,
           \/ \E c \in Cameras : WindowSlides(c)
           \/ ApiRestarts \/ DiskChanges \/ LicenceChanges
    PROVE  IndInv'
  <1> USE DEF db, env, mem
  <1>1. CASE \E c \in Cameras : WindowSlides(c)
      <2>1. PICK k \in Cameras : WindowSlides(k)  BY <1>1
      <2>2. attempts[k] \in 0..MaxAttempts /\ attempts[k] > 0
          BY <2>1 DEF IndInv, TypeOK, WindowSlides
      <2>3. attempts[k] - 1 \in 0..MaxAttempts  BY <2>2, Constants
      <2>4. attempts' \in [Cameras -> 0..MaxAttempts]
          BY <2>1, <2>3 DEF IndInv, TypeOK, WindowSlides
      <2>5. TypeOK'  BY <2>1, <2>4 DEF IndInv, TypeOK, CallsKnowTheirWork, WindowSlides
      <2>6. QED
          BY <2>1, <2>5 DEF IndInv, ActiveIsLive, ActiveOwned, Owns, WindowSlides
  <1>2. CASE ApiRestarts
      <2>1. FreeProc \in ProcRec  BY DEF FreeProc, ProcRec
      <2>2. \A t \in Calls : CallOK(FreshCalls[t])
          <3>1. CallOK([IdleCall EXCEPT !.pc = "bootRead"])
              BY DEF CallOK, IdleCall, CallRec, Pcs, StartPcs, StopPcs, CamPcs, ProcPcs
          <3>2. QED  BY <3>1, IdleOK DEF FreshCalls
      <2>3. call' = FreshCalls  BY <1>2 DEF ApiRestarts
      <2>4. call' \in [Calls -> CallRec] /\ CallsKnowTheirWork'
          BY <2>2, <2>3 DEF CallOK, CallsKnowTheirWork, FreshCalls
      <2>5. TypeOK'
          <3>1. 0 \in 0..MaxAttempts  BY Constants
          <3>2. proc' \in [Procs -> ProcRec] /\ active' \in [Cameras -> Procs \cup {NoProc}]
              BY <1>2, <2>1 DEF ApiRestarts
          <3>3. attempts' \in [Cameras -> 0..MaxAttempts]  BY <1>2, <3>1 DEF ApiRestarts
          <3>4. timer' \in [Cameras -> BOOLEAN] /\ shuttingDown' \in BOOLEAN
              BY <1>2 DEF ApiRestarts
          <3>5. QED
              BY <1>2, <2>4, <3>2, <3>3, <3>4 DEF IndInv, TypeOK, ApiRestarts
      <2>6. \A c \in Cameras : active'[c] = NoProc  BY <1>2 DEF ApiRestarts
      <2>7. QED  BY <2>5, <2>6 DEF IndInv, ActiveIsLive, ActiveOwned
  <1>3. CASE DiskChanges \/ LicenceChanges
      <2>1. TypeOK'
          BY <1>3 DEF IndInv, TypeOK, CallsKnowTheirWork, DiskChanges, LicenceChanges
      <2>2. QED
          BY <1>3, <2>1 DEF IndInv, ActiveIsLive, ActiveOwned, Owns,
                            DiskChanges, LicenceChanges
  <1>4. QED  BY <1>1, <1>2, <1>3

(* A freshly booted node. *)
LEMMA InitIndInv == Init => IndInv
  <1> SUFFICES ASSUME Init PROVE IndInv  OBVIOUS
  <1>1. FreeProc \in ProcRec  BY DEF FreeProc, ProcRec
  <1>2. \A t \in Calls : CallOK(FreshCalls[t])
      <2>1. CallOK([IdleCall EXCEPT !.pc = "bootRead"])
          BY DEF CallOK, IdleCall, CallRec, Pcs, StartPcs, StopPcs, CamPcs, ProcPcs
      <2>2. QED  BY <2>1, IdleOK DEF FreshCalls
  <1>3. call \in [Calls -> CallRec] /\ CallsKnowTheirWork
      BY <1>2 DEF Init, CallOK, CallsKnowTheirWork, FreshCalls
  <1>4. TypeOK
      <2>1. 0 \in 0..MaxAttempts  BY Constants
      <2>2. proc \in [Procs -> ProcRec] /\ active \in [Cameras -> Procs \cup {NoProc}]
          BY <1>1 DEF Init
      <2>3. attempts \in [Cameras -> 0..MaxAttempts]  BY <2>1 DEF Init
      <2> HIDE DEF FreshCalls
      <2>4. QED  BY <1>3, <2>2, <2>3, Zenon DEF Init, TypeOK
  <1>5. \A c \in Cameras : active[c] = NoProc  BY DEF Init
  <1>6. QED  BY <1>4, <1>5 DEF IndInv, ActiveIsLive, ActiveOwned

-----------------------------------------------------------------------------
(* Every step keeps the inductive invariant. *)
LEMMA NextIndInv == IndInv /\ [Next]_vars => IndInv'
  <1> SUFFICES ASSUME IndInv, [Next]_vars PROVE IndInv'  OBVIOUS
  <1>1. CASE UNCHANGED vars
      BY <1>1 DEF vars, IndInv, TypeOK, CallsKnowTheirWork, ActiveIsLive,
                  ActiveOwned, Owns
  <1>2. CASE \E p \in Procs : ProcStep(p)  BY <1>2, ProcStepKeeps
  <1>3. CASE \E t \in Calls : CallStep(t)
      <2>1. PICK t \in Calls : CallStep(t)  BY <1>3
      <2>2. CASE \E c \in Cameras : NextCamera(t, c)  BY <2>2, BeginsKeep
      <2>3. CASE ~\E c \in Cameras : NextCamera(t, c)
          BY <2>1, <2>3, StartReadsKeep, OtherReadsKeep, StartKeepKeeps, StartSpawnKeeps,
             StartCommitKeeps, WaitsKeep, StopWriteKeeps, StopMarkKeeps, FinalizeAwaitedKeeps
          DEF CallStep
      <2>4. QED  BY <2>2, <2>3
  <1>4. CASE \E u \in Users, c \in Cameras : UserStep(u, c)
      BY <1>4, BeginsKeep DEF Calls
  <1>5. CASE \E r \in Restarts, c \in Cameras : RestartFires(r, c)
      BY <1>5, BeginsKeep DEF Calls
  <1>6. CASE \E c \in Cameras : WindowSlides(c) \/ GuardSuspend(c)
      BY <1>6, EnvironmentKeeps, GuardSuspendKeeps
  <1>7. CASE \/ \E stale \in SUBSET Cameras : HealthRun(stale)
             \/ GuardRun \/ RestrictRun \/ Shutdown \/ BootRead
      BY <1>7, RoutinesKeep
  <1>8. CASE ApiRestarts \/ DiskChanges \/ LicenceChanges  BY <1>8, EnvironmentKeeps
  <1>9. QED  BY <1>1, <1>2, <1>3, <1>4, <1>5, <1>6, <1>7, <1>8 DEF Next

(* The inductive invariant holds in every reachable state. *)
THEOREM Inductive == Spec => []IndInv
  BY InitIndInv, NextIndInv, PTL DEF Spec

(* Every variable keeps its type, and a call in flight always knows the camera
   and the process it works on. *)
THEOREM Typing == Spec => []TypeOK
  <1>1. IndInv => TypeOK  BY DEF IndInv
  <1>2. QED  BY <1>1, Inductive, PTL

(* The active map never holds a finalised recording. *)
THEOREM ActiveEntriesLive == Spec => []ActiveIsLive
  <1>1. IndInv => ActiveIsLive  BY DEF IndInv
  <1>2. QED  BY <1>1, Inductive, PTL

-----------------------------------------------------------------------------
(* A requested stop is never restarted.                                    *)

(* A death counts as abnormal only once the child is dead. *)
Sane(r) == r.abnormal => r.os = "dead"

(* A process that a call holds stands for a child, and who waits for its end
   has asked it to stop: so the finalisation that a kill begins, maybe of a
   child that still runs, is not abnormal. *)
Holds(k, r) ==
    /\ k.pc \in ProcPcs => r.os # "free"
    /\ k.pc \in ProcPcs \ {"startCommit"} => r.stopRequested

CrashInv ==
    /\ \A p \in Procs : Sane(proc[p])
    /\ \A t \in Calls : Holds(call[t], proc[call[t].p])

(* A process record that may replace another under those who hold it. *)
Follows(r, q) == (q.os # "free" => r.os # "free") /\ (q.stopRequested => r.stopRequested)

LEMMA HoldsFollows ==
    ASSUME NEW k, NEW r, NEW q, Holds(k, q), Follows(r, q)
    PROVE  Holds(k, r)
  BY DEF Holds, Follows

(* The updates of a process record. *)
LEMMA SaneUpdates ==
    ASSUME NEW r \in ProcRec, Sane(r), NEW p, NEW S
    PROVE  /\ Sane(Released(p, r, S))
           /\ Released(p, r, S) = r \/ \A t \in S : call[t].p # p
           /\ Sane([r EXCEPT !.os = "dead"]) /\ Follows([r EXCEPT !.os = "dead"], r)
           /\ Sane([r EXCEPT !.fin = "done"]) /\ Follows([r EXCEPT !.fin = "done"], r)
           /\ r.os = "dead" \/ r.stopRequested => Sane(Finalizing(r))
           /\ Follows(Finalizing(r), r)
           /\ Sane([r EXCEPT !.stopRequested = TRUE])
           /\ Follows([r EXCEPT !.stopRequested = TRUE], r)
           /\ [r EXCEPT !.stopRequested = TRUE].stopRequested
  <1>1. Sane(Released(p, r, S)) /\ (Released(p, r, S) = r \/ \A t \in S : call[t].p # p)
      BY DEF Sane, Released, FreeProc
  <1>2. /\ Sane([r EXCEPT !.os = "dead"]) /\ Sane([r EXCEPT !.fin = "done"])
        /\ Follows([r EXCEPT !.os = "dead"], r) /\ Follows([r EXCEPT !.fin = "done"], r)
      BY DEF Sane, Follows, ProcRec
  <1>3. /\ r.os = "dead" \/ r.stopRequested => Sane(Finalizing(r))
        /\ Follows(Finalizing(r), r)
      BY DEF Sane, Follows, ProcRec, Finalizing
  <1>4. /\ Sane([r EXCEPT !.stopRequested = TRUE]) /\ Follows([r EXCEPT !.stopRequested = TRUE], r)
        /\ [r EXCEPT !.stopRequested = TRUE].stopRequested
      BY DEF Sane, Follows, ProcRec
  <1>5. QED  BY <1>1, <1>2, <1>3, <1>4

(* One process changes and no call: nobody who holds it notices. *)
LEMMA CrashProc ==
    ASSUME TypeOK, CrashInv, NEW p \in Procs, NEW r, Sane(r), UNCHANGED call,
           proc' = [proc EXCEPT ![p] = r],
           Follows(r, proc[p]) \/ \A t \in Calls : call[t].p # p
    PROVE  CrashInv'
  <1>1. proc'[p] = r /\ \A q \in Procs : q # p => proc'[q] = proc[q]
      BY DEF TypeOK
  <1>2. \A q \in Procs : Sane(proc'[q])
      BY <1>1 DEF CrashInv
  <1>3. ASSUME NEW t \in Calls
        PROVE  Holds(call[t], proc'[call[t].p])
      <2>1. Holds(call[t], proc[call[t].p])  BY DEF CrashInv
      <2>2. CASE call[t].p = p  BY <1>1, <2>1, <2>2, HoldsFollows
      <2>3. CASE call[t].p # p /\ call[t].p \in Procs  BY <1>1, <2>1, <2>3
      <2>4. CASE call[t].p \notin Procs
          BY <2>4 DEF Holds, TypeOK, CallsKnowTheirWork
      <2>5. QED  BY <2>2, <2>3, <2>4
  <1>4. QED  BY <1>2, <1>3 DEF CrashInv, Sane, Holds

(* An exit, its close event, the end of its final scan. *)
LEMMA CrashProcStep ==
    ASSUME TypeOK, CrashInv, NEW p \in Procs, ProcStep(p)
    PROVE  CrashInv'
  <1>1. proc[p] \in ProcRec /\ Sane(proc[p])
      BY DEF TypeOK, CrashInv
  <1>2. ASSUME NEW d \in ProcRec, Sane(d), Follows(d, proc[p]),
               proc' = [proc EXCEPT ![p] = Released(p, d, Calls)], UNCHANGED call
        PROVE  CrashInv'
      <2>1. PICK r : r = Released(p, d, Calls)  OBVIOUS
      <2>2. Sane(r) /\ (r = d \/ \A t \in Calls : call[t].p # p)
          BY <1>2, <2>1, SaneUpdates
      <2>3. proc' = [proc EXCEPT ![p] = r]  BY <1>2, <2>1
      <2>4. QED  BY <1>2, <2>2, <2>3, CrashProc
  <1>3. CASE ProcDies(p)
      <2>1. PICK d : d = [proc[p] EXCEPT !.os = "dead"]  OBVIOUS
      <2>2. d \in ProcRec /\ Sane(d) /\ Follows(d, proc[p])
          BY <1>1, <2>1, SaneUpdates, ProcOK
      <2>3. proc' = [proc EXCEPT ![p] = Released(p, d, Calls)] /\ UNCHANGED call
          BY <1>3, <2>1 DEF ProcDies
      <2>4. QED  BY <1>2, <2>2, <2>3
  <1>4. CASE ProcClosed(p)
      <2>1. PICK r : r = Finalizing(proc[p])  OBVIOUS
      <2>2. Sane(r) /\ Follows(r, proc[p])
          BY <1>1, <1>4, <2>1, SaneUpdates DEF ProcClosed
      <2>3. proc' = [proc EXCEPT ![p] = r] /\ UNCHANGED call
          BY <1>4, <2>1 DEF ProcClosed
      <2>4. QED  BY <2>2, <2>3, CrashProc
  <1>5. CASE FinalScanDone(p)
      <2>1. PICK d : d = [proc[p] EXCEPT !.fin = "done"]  OBVIOUS
      <2>2. d \in ProcRec /\ Sane(d) /\ Follows(d, proc[p])
          BY <1>1, <2>1, SaneUpdates, ProcOK
      <2>3. proc' = [proc EXCEPT ![p] = Released(p, d, Calls)] /\ UNCHANGED call
          BY <1>5, <2>1 DEF FinalScanDone
      <2>4. QED  BY <1>2, <2>2, <2>3
  <1>6. QED  BY <1>3, <1>4, <1>5 DEF ProcStep

(* A call goes on, and a process with it that nobody else is surprised by. *)
LEMMA CrashCall ==
    ASSUME TypeOK, CrashInv, NEW t \in Calls, NEW k, Step(t, k),
           NEW p \in Procs, NEW r, Sane(r), proc' = [proc EXCEPT ![p] = r],
           k.pc \in ProcPcs => k.p = p /\ Holds(k, r),
           Follows(r, proc[p]) \/ \A u \in Calls \ {t} : call[u].pc \in ProcPcs => call[u].p # p
    PROVE  CrashInv'
  <1>1. proc'[p] = r /\ \A q \in Procs : q # p => proc'[q] = proc[q]
      BY DEF TypeOK
  <1>2. call'[t] = k /\ \A u \in Calls : u # t => call'[u] = call[u]
      BY DEF TypeOK, Step
  <1>3. \A q \in Procs : Sane(proc'[q])
      BY <1>1 DEF CrashInv
  <1>4. ASSUME NEW u \in Calls
        PROVE  Holds(call'[u], proc'[call'[u].p])
      <2>1. CASE u = t
          <3>1. CASE k.pc \in ProcPcs  BY <1>1, <1>2, <2>1, <3>1
          <3>2. CASE k.pc \notin ProcPcs  BY <1>2, <2>1, <3>2 DEF Holds
          <3>3. QED  BY <3>1, <3>2
      <2>2. CASE u # t /\ call[u].pc \notin ProcPcs
          BY <1>2, <2>2 DEF Holds
      <2>3. CASE u # t /\ call[u].pc \in ProcPcs
          <3>1. call'[u] = call[u] /\ call[u].p \in Procs /\ Holds(call[u], proc[call[u].p])
              BY <1>2, <2>3 DEF TypeOK, CallsKnowTheirWork, CrashInv
          <3>2. CASE call[u].p = p  BY <1>1, <2>3, <3>1, <3>2, HoldsFollows
          <3>3. CASE call[u].p # p  BY <1>1, <3>1, <3>3
          <3>4. QED  BY <3>2, <3>3
      <2>4. QED  BY <2>1, <2>2, <2>3
  <1>5. QED  BY <1>3, <1>4 DEF CrashInv, Sane, Holds

(* A call goes on alone. *)
LEMMA CrashCallOnly ==
    ASSUME TypeOK, CrashInv, NEW t \in Calls, NEW k, Step(t, k),
           UNCHANGED proc, k.pc \notin ProcPcs
    PROVE  CrashInv'
  <1>1. call'[t] = k /\ \A u \in Calls : u # t => call'[u] = call[u]
      BY DEF TypeOK, Step
  <1>2. \A u \in Calls : Holds(call'[u], proc'[call'[u].p])
      BY <1>1 DEF CrashInv, Holds
  <1>3. QED  BY <1>2 DEF CrashInv, Sane, Holds

(* The records of calls that hold nothing. *)
LEMMA HandsFree ==
    ASSUME TypeOK, NEW t \in Calls
    PROVE  /\ \A S : Loop(S).pc \notin ProcPcs
           /\ IdleCall.pc \notin ProcPcs
           /\ StartReturns(t).pc \notin ProcPcs /\ StopReturns(t).pc \notin ProcPcs
           /\ StopThrows(t).pc \notin ProcPcs
           /\ \A q : q \notin ProcPcs => Goto(t, q).pc \notin ProcPcs
           /\ \A c, q, m, S : q \notin ProcPcs => /\ Begin(c, q, m).pc \notin ProcPcs
                                                  /\ [Begin(c, q, m) EXCEPT !.todo = S].pc \notin ProcPcs
  <1>1. IdleCall.pc \notin ProcPcs /\ \A S : Loop(S).pc \notin ProcPcs
      BY DEF Loop, IdleCall, ProcPcs
  <1>2. call[t] \in CallRec  BY DEF TypeOK
  <1>3. \A q : Goto(t, q).pc = q  BY <1>2 DEF Goto, CallRec
  <1>4. [call[t] EXCEPT !.pc = "startCheck", !.p = NoProc].pc = "startCheck"  BY <1>2 DEF CallRec
  <1>5. StartReturns(t).pc \notin ProcPcs /\ StopThrows(t).pc \notin ProcPcs
      BY <1>1 DEF StartReturns, StopThrows
  <1>6. StopReturns(t).pc \notin ProcPcs
      BY <1>1, <1>4 DEF StopReturns, ProcPcs
  <1>7. \A c, q, m, S : Begin(c, q, m).pc = q /\ [Begin(c, q, m) EXCEPT !.todo = S].pc = q
      BY DEF Begin
  <1>8. QED  BY <1>1, <1>3, <1>5, <1>6, <1>7

(* The steps that change no process. *)
LEMMA CrashReads ==
    ASSUME TypeOK, CrashInv, NEW t \in Calls,
           \/ StartCheck(t) \/ StartLookup(t) \/ StartKeep(t) \/ CallFails(t)
           \/ StopWrite(t) \/ StopWriteFails(t) \/ ProvisionRead(t) \/ RestartRead(t)
           \/ \E c \in Cameras : NextCamera(t, c) \/ UserStep(t, c) \/ RestartFires(t, c)
    PROVE  CrashInv'
  <1>1. UNCHANGED proc
      BY DEF StartCheck, StartLookup, StartKeep, CallFails, StopWrite, StopWriteFails, ProvisionRead,
             RestartRead, NextCamera, UserStep, UserStart, UserStop, UserDisable, UserEnable, RestartFires
  <1>2. \E k : Step(t, k) /\ k.pc \notin ProcPcs
      <2>1. CASE StartCheck(t) \/ StartLookup(t) \/ StartKeep(t) \/ CallFails(t)
          BY <2>1, HandsFree DEF StartCheck, StartLookup, StartKeep, CallFails, ProcPcs
      <2>2. CASE StopWrite(t) \/ StopWriteFails(t) \/ ProvisionRead(t) \/ RestartRead(t)
          BY <2>2, HandsFree DEF StopWrite, StopWriteFails, ProvisionRead, RestartRead, ProcPcs
      <2>3. CASE \E c \in Cameras : NextCamera(t, c)
          BY <2>3, HandsFree DEF NextCamera, FirstPc, ProcPcs
      <2>4. CASE \E c \in Cameras : UserStep(t, c)
          BY <2>4, HandsFree DEF UserStep, UserStart, UserStop, UserDisable, UserEnable, ProcPcs
      <2>5. CASE \E c \in Cameras : RestartFires(t, c)
          BY <2>5, HandsFree DEF RestartFires, ProcPcs
      <2>6. QED  BY <2>1, <2>2, <2>3, <2>4, <2>5
  <1>3. QED  BY <1>1, <1>2, CrashCallOnly

LEMMA CrashRoutines ==
    ASSUME TypeOK, CrashInv,
           \/ \E stale \in SUBSET Cameras : HealthRun(stale)
           \/ GuardRun \/ RestrictRun \/ Shutdown \/ BootRead
    PROVE  CrashInv'
  <1>1. {Health, Guard, StopAll, Boot} \subseteq Calls  BY DEF Calls, Routines
  <1>2. \E t \in Calls, S \in SUBSET Cameras : Step(t, Loop(S))
      BY <1>1 DEF HealthRun, GuardRun, RestrictRun, Shutdown, BootRead
  <1>3. UNCHANGED proc
      BY DEF HealthRun, GuardRun, RestrictRun, Shutdown, BootRead
  <1>4. QED  BY <1>2, <1>3, HandsFree, CrashCallOnly

(* A new child takes a record that nobody holds; the one it displaces is held by
   whoever held it. *)
LEMMA CrashSpawn ==
    ASSUME TypeOK, CrashInv, NEW t \in Calls, StartSpawn(t)
    PROVE  CrashInv'
  <1>1. call[t] \in CallRec /\ call[t].cam \in Cameras
      BY DEF TypeOK, CallsKnowTheirWork, StartSpawn, At, CamPcs, StartPcs
  <1>2. PICK p \in Procs :
            /\ proc[p].os = "free"
            /\ proc' = Spawned(p, call[t].cam)
            /\ Step(t, [call[t] EXCEPT !.pc = "startCommit", !.p = p])
      BY DEF StartSpawn
  <1>3. PICK k : k = [call[t] EXCEPT !.pc = "startCommit", !.p = p]  OBVIOUS
  <1>4. k.pc = "startCommit" /\ k.p = p  BY <1>1, <1>3 DEF CallRec
  <1>5. /\ proc'[p].os = "running" /\ ~proc'[p].abnormal
        /\ \A q \in Procs \ {p} : /\ proc'[q].os = proc[q].os
                                  /\ proc'[q].stopRequested = proc[q].stopRequested
                                  /\ proc'[q].abnormal = proc[q].abnormal
      BY <1>1, <1>2, SpawnedOK, NewProcOK
  <1>6. \A q \in Procs : Sane(proc'[q])  BY <1>5 DEF CrashInv, Sane
  <1>7. call'[t] = k /\ \A u \in Calls : u # t => call'[u] = call[u]
      BY <1>2, <1>3 DEF TypeOK, Step
  <1>8. ASSUME NEW u \in Calls
        PROVE  Holds(call'[u], proc'[call'[u].p])
      <2>1. CASE u = t  BY <1>4, <1>5, <1>7, <2>1 DEF Holds
      <2>2. CASE u # t /\ call[u].pc \notin ProcPcs  BY <1>7, <2>2 DEF Holds
      <2>3. CASE u # t /\ call[u].pc \in ProcPcs
          <3>1. call'[u] = call[u] /\ call[u].p \in Procs /\ Holds(call[u], proc[call[u].p])
              BY <1>7, <2>3 DEF TypeOK, CallsKnowTheirWork, CrashInv
          <3>2. call[u].p # p  BY <1>2, <2>3, <3>1 DEF Holds
          <3>3. QED  BY <1>5, <3>1, <3>2 DEF Holds
      <2>4. QED  BY <2>1, <2>2, <2>3
  <1>9. QED  BY <1>6, <1>8 DEF CrashInv, Sane, Holds

(* A call gives its process up: the start that is committed, and whoever has
   awaited the finalisation. *)
LEMMA CrashReleases ==
    ASSUME TypeOK, CrashInv, NEW t \in Calls, StartCommit(t) \/ FinalizeAwaited(t)
    PROVE  CrashInv'
  <1>1. PICK p \in Procs : p = call[t].p
      BY DEF TypeOK, CallsKnowTheirWork, StartCommit, FinalizeAwaited, At, ProcPcs
  <1>2. proc[p] \in ProcRec /\ Sane(proc[p])  BY <1>1 DEF TypeOK, CrashInv
  <1>3. PICK r : r = Released(p, proc[p], Calls \ {t})  OBVIOUS
  <1>4. Sane(r) /\ (r = proc[p] \/ \A u \in Calls \ {t} : call[u].p # p)
      BY <1>2, <1>3, SaneUpdates
  <1>5. proc' = [proc EXCEPT ![p] = r]  BY <1>1, <1>3 DEF StartCommit, FinalizeAwaited
  <1>6. PICK k : Step(t, k) /\ k.pc \notin ProcPcs
      BY HandsFree DEF StartCommit, FinalizeAwaited
  <1>7. Follows(r, proc[p]) \/ \A u \in Calls \ {t} : call[u].pc \in ProcPcs => call[u].p # p
      <2>1. CASE r = proc[p]  BY <2>1 DEF Follows
      <2>2. CASE \A u \in Calls \ {t} : call[u].p # p  BY <2>2
      <2>3. QED  BY <1>4, <2>1, <2>2
  <1>8. QED  BY <1>1, <1>4, <1>5, <1>6, <1>7, CrashCall

(* A call marks a process and waits for it. *)
LEMMA CrashMarks ==
    ASSUME TypeOK, CrashInv, NEW t \in Calls, NEW k, Step(t, k),
           NEW p \in Procs, k.p = p, proc[p].os # "free",
           proc' = [proc EXCEPT ![p].stopRequested = TRUE]
    PROVE  CrashInv'
  <1>1. proc[p] \in ProcRec /\ Sane(proc[p])  BY DEF TypeOK, CrashInv
  <1>2. PICK r : r = [proc[p] EXCEPT !.stopRequested = TRUE]  OBVIOUS
  <1>3. Sane(r) /\ Follows(r, proc[p]) /\ r.stopRequested  BY <1>1, <1>2, SaneUpdates
  <1>4. proc' = [proc EXCEPT ![p] = r]  BY <1>2
  <1>5. Holds(k, r)  BY <1>3 DEF Holds, Follows
  <1>6. QED  BY <1>3, <1>4, <1>5, CrashCall

LEMMA CrashStops ==
    ASSUME IndInv, CrashInv, NEW t \in Calls, StartRollback(t) \/ StopMark(t) \/ KillWait(t)
    PROVE  CrashInv'
  <1>1. TypeOK /\ call[t] \in CallRec  BY DEF IndInv, TypeOK
  <1>2. CASE StartRollback(t)
      <2>1. PICK p \in Procs : p = call[t].p
          BY <1>1, <1>2 DEF TypeOK, CallsKnowTheirWork, StartRollback, At, ProcPcs
      <2>2. PICK k : k = Goto(t, "rollWait")  OBVIOUS
      <2>3. k.p = p  BY <1>1, <2>1, <2>2 DEF Goto, CallRec
      <2>4. proc[p].os # "free"
          BY <1>2, <2>1 DEF CrashInv, Holds, StartRollback, At, ProcPcs
      <2>5. Step(t, k) /\ proc' = [proc EXCEPT ![p].stopRequested = TRUE]
          BY <1>2, <2>1, <2>2 DEF StartRollback
      <2>6. QED  BY <1>1, <2>3, <2>4, <2>5, CrashMarks
  <1>3. CASE StopMark(t)
      <2>1. call[t].cam \in Cameras
          BY <1>1, <1>3 DEF TypeOK, CallsKnowTheirWork, StopMark, At, CamPcs, StopPcs
      <2>2. CASE active[call[t].cam] = NoProc
          <3>1. Step(t, StopReturns(t)) /\ UNCHANGED proc  BY <1>3, <2>2 DEF StopMark
          <3>2. QED  BY <1>1, <3>1, HandsFree, CrashCallOnly
      <2>3. CASE active[call[t].cam] # NoProc
          <3>1. PICK p \in Procs : p = active[call[t].cam]
              BY <1>1, <2>1, <2>3 DEF TypeOK
          <3>2. proc[p].os # "free"
              BY <2>1, <2>3, <3>1 DEF IndInv, ActiveIsLive, Live
          <3>3. PICK k : k = [call[t] EXCEPT !.pc = "stopWait", !.p = p]  OBVIOUS
          <3>4. k.p = p  BY <1>1, <3>3 DEF CallRec
          <3>5. Step(t, k) /\ proc' = [proc EXCEPT ![p].stopRequested = TRUE]
              BY <1>3, <2>3, <3>1, <3>3 DEF StopMark
          <3>6. QED  BY <1>1, <3>2, <3>4, <3>5, CrashMarks
      <2>4. QED  BY <2>2, <2>3
  <1>4. CASE KillWait(t)
      <2>1. PICK p \in Procs : p = call[t].p
          BY <1>1, <1>4 DEF TypeOK, CallsKnowTheirWork, KillWait, ProcPcs
      <2>2. Holds(call[t], proc[p]) /\ proc[p].stopRequested /\ proc[p] \in ProcRec /\ Sane(proc[p])
          BY <1>1, <1>4, <2>1 DEF CrashInv, Holds, KillWait, ProcPcs, TypeOK
      <2>3. PICK r : r = Finalizing(proc[p])  OBVIOUS
      <2>4. Sane(r) /\ Follows(r, proc[p])  BY <2>2, <2>3, SaneUpdates
      <2>5. PICK q \in {"stopFin", "rollFin"} : q = IF At(t, "stopWait") THEN "stopFin" ELSE "rollFin"
          OBVIOUS
      <2>6. PICK k : k = Goto(t, q)  OBVIOUS
      <2>7. k.p = p /\ k.pc = q  BY <1>1, <2>1, <2>6 DEF Goto, CallRec
      <2>8. Holds(k, r)
          BY <1>4, <2>2, <2>4 DEF Holds, Follows, KillWait, ProcPcs
      <2>9. Step(t, k) /\ proc' = [proc EXCEPT ![p] = r]
          BY <1>4, <2>1, <2>3, <2>5, <2>6 DEF KillWait
      <2>10. QED  BY <1>1, <2>4, <2>7, <2>8, <2>9, CrashCall
  <1>5. QED  BY <1>2, <1>3, <1>4

LEMMA CrashSuspend ==
    ASSUME IndInv, CrashInv, NEW c \in Cameras, GuardSuspend(c)
    PROVE  CrashInv'
  <1>1. TypeOK /\ Guard \in Calls  BY DEF IndInv, Calls, Routines
  <1>2. CASE active[c] = NoProc
      <2>1. PICK k : k = Loop(call[Guard].todo \ {c})  OBVIOUS
      <2>2. Step(Guard, k) /\ UNCHANGED proc /\ k.pc \notin ProcPcs
          BY <1>1, <1>2, <2>1, HandsFree DEF GuardSuspend
      <2>3. QED  BY <1>1, <2>2, CrashCallOnly
  <1>3. CASE active[c] # NoProc
      <2>1. PICK p \in Procs : p = active[c]  BY <1>1, <1>3 DEF TypeOK
      <2>2. proc[p].os # "free"  BY <1>3, <2>1 DEF IndInv, ActiveIsLive, Live
      <2>3. PICK k : k = [Begin(c, "stopWait", FALSE) EXCEPT !.p = p, !.todo = call[Guard].todo \ {c}]
          OBVIOUS
      <2>4. k.p = p  BY <2>3 DEF Begin
      <2>5. Step(Guard, k) /\ proc' = [proc EXCEPT ![p].stopRequested = TRUE]
          BY <1>3, <2>1, <2>3 DEF GuardSuspend
      <2>6. QED  BY <1>1, <2>2, <2>4, <2>5, CrashMarks
  <1>4. QED  BY <1>2, <1>3

(* A node that has just booted. *)
LEMMA CrashFresh ==
    /\ Sane(FreeProc)
    /\ \A t \in Calls : FreshCalls[t].pc \notin ProcPcs
  <1>1. [IdleCall EXCEPT !.pc = "bootRead"].pc \notin ProcPcs /\ IdleCall.pc \notin ProcPcs
      BY DEF IdleCall, ProcPcs
  <1>2. QED  BY <1>1 DEF FreshCalls, Sane, FreeProc

LEMMA InitCrashInv == Init => CrashInv
  <1> SUFFICES ASSUME Init PROVE CrashInv  OBVIOUS
  <1>1. proc = [p \in Procs |-> FreeProc] /\ call = FreshCalls  BY DEF Init
  <1>2. QED  BY <1>1, CrashFresh DEF CrashInv, Holds

LEMMA NextCrashInv == IndInv /\ CrashInv /\ [Next]_vars => CrashInv'
  <1> SUFFICES ASSUME IndInv, CrashInv, [Next]_vars PROVE CrashInv'  OBVIOUS
  <1>0. TypeOK  BY DEF IndInv
  <1>1. CASE UNCHANGED vars \/ (\E c \in Cameras : WindowSlides(c)) \/ DiskChanges \/ LicenceChanges
      <2>1. UNCHANGED <<call, proc>>
          BY <1>1 DEF vars, mem, WindowSlides, DiskChanges, LicenceChanges
      <2>2. QED  BY <2>1 DEF CrashInv, Sane, Holds
  <1>2. CASE \E p \in Procs : ProcStep(p)  BY <1>0, <1>2, CrashProcStep
  <1>3. CASE \E t \in Calls : CallStep(t)
      <2>1. PICK t \in Calls : CallStep(t)  BY <1>3
      <2>2. QED  BY <1>0, <2>1, CrashReads, CrashSpawn, CrashReleases, CrashStops DEF CallStep
  <1>4. CASE \E u \in Users, c \in Cameras : UserStep(u, c)
      BY <1>0, <1>4, CrashReads DEF Calls
  <1>5. CASE \E r \in Restarts, c \in Cameras : RestartFires(r, c)
      BY <1>0, <1>5, CrashReads DEF Calls
  <1>6. CASE \E c \in Cameras : GuardSuspend(c)  BY <1>6, CrashSuspend
  <1>7. CASE \/ \E stale \in SUBSET Cameras : HealthRun(stale)
             \/ GuardRun \/ RestrictRun \/ Shutdown \/ BootRead
      BY <1>0, <1>7, CrashRoutines
  <1>8. CASE ApiRestarts
      <2>1. proc' = [p \in Procs |-> FreeProc] /\ call' = FreshCalls  BY <1>8 DEF ApiRestarts
      <2>2. \A p \in Procs : Sane(proc'[p])  BY <2>1, CrashFresh
      <2>3. \A t \in Calls : Holds(call'[t], proc'[call'[t].p])  BY <2>1, CrashFresh DEF Holds
      <2>4. QED  BY <2>2, <2>3 DEF CrashInv, Sane, Holds
  <1>9. QED  BY <1>1, <1>2, <1>3, <1>4, <1>5, <1>6, <1>7, <1>8 DEF Next

(* Only the end of a process arms a restart timer. *)
LEMMA TimerArmed ==
    ASSUME TypeOK, [Next]_vars, NEW c \in Cameras, ~timer[c], timer'[c]
    PROVE  \E p \in Procs : FinalScanDone(p)
  <1>1. timer \in [Cameras -> BOOLEAN]  BY DEF TypeOK
  <1>2. CASE UNCHANGED vars  BY <1>2 DEF vars
  <1>3. CASE \E p \in Procs : ProcStep(p)  BY <1>3 DEF ProcStep, ProcDies, ProcClosed
  <1>4. CASE \E t \in Calls : CallStep(t)
      <2>1. PICK t \in Calls : CallStep(t)  BY <1>4
      <2>2. UNCHANGED timer \/ timer' = [timer EXCEPT ![call[t].cam] = FALSE]
          BY <2>1 DEF CallStep, StartCheck, StartLookup, StartKeep, CallFails, StartSpawn, StartCommit,
             StartRollback, StopWrite, StopWriteFails, StopMark, KillWait, FinalizeAwaited,
             ProvisionRead, RestartRead, NextCamera
      <2>3. QED  BY <1>1, <2>2
  <1>5. CASE \E u \in Users, k \in Cameras : UserStep(u, k)
      BY <1>5 DEF UserStep, UserStart, UserStop, UserDisable, UserEnable
  <1>6. CASE \E r \in Restarts, k \in Cameras : RestartFires(r, k)
      BY <1>1, <1>6 DEF RestartFires
  <1>7. CASE \E k \in Cameras : WindowSlides(k) \/ GuardSuspend(k)
      BY <1>7 DEF WindowSlides, GuardSuspend
  <1>8. CASE \/ \E stale \in SUBSET Cameras : HealthRun(stale)
             \/ GuardRun \/ RestrictRun \/ Shutdown \/ BootRead \/ ApiRestarts
      BY <1>8 DEF HealthRun, GuardRun, RestrictRun, Shutdown, BootRead, ApiRestarts
  <1>9. CASE DiskChanges \/ LicenceChanges  BY <1>9 DEF DiskChanges, LicenceChanges, mem
  <1>10. QED  BY <1>2, <1>3, <1>4, <1>5, <1>6, <1>7, <1>8, <1>9 DEF Next

(* What the end of a process needs to arm the timer. *)
LEMMA ArmedByCrash ==
    ASSUME TypeOK, CrashInv, NEW p \in Procs, FinalScanDone(p),
           NEW c \in Cameras, ~timer[c], timer'[c]
    PROVE  /\ proc[p].cam = c /\ proc[p].os = "dead"
           /\ proc[p].fin = "scan" /\ proc'[p].fin # "scan"
           /\ ~proc[p].stopRequested /\ ~shuttingDown /\ active'[c] = NoProc
  <1>1. timer \in [Cameras -> BOOLEAN] /\ proc \in [Procs -> ProcRec] /\ proc[p] \in ProcRec
      BY DEF TypeOK
  <1>2. PICK act : /\ act = active'
                   /\ timer' = [timer EXCEPT ![proc[p].cam] = @ \/ MaySchedule(proc[p].cam, p, act)]
      <2>1. PICK act : act = IF active[proc[p].cam] = p
                             THEN [active EXCEPT ![proc[p].cam] = NoProc] ELSE active
          OBVIOUS
      <2>2. active' = act  BY <2>1 DEF FinalScanDone
      <2>3. timer' = [timer EXCEPT ![proc[p].cam] = @ \/ MaySchedule(proc[p].cam, p, act)]
          BY <2>1, Zenon DEF FinalScanDone
      <2>4. QED  BY <2>2, <2>3
  <1>3. proc[p].cam = c /\ MaySchedule(c, p, act)
      <2>1. proc[p].cam = c  BY <1>1, <1>2
      <2>2. QED  BY <1>1, <1>2, <2>1
  <1>4. proc[p].abnormal /\ ~proc[p].stopRequested /\ ~shuttingDown /\ active'[c] = NoProc
      BY <1>2, <1>3 DEF MaySchedule
  <1>5. proc[p].os = "dead"  BY <1>4 DEF CrashInv, Sane
  <1>6. PICK d : d = [proc[p] EXCEPT !.fin = "done"]  OBVIOUS
  <1>7. d.fin = "done"  BY <1>1, <1>6 DEF ProcRec
  <1>8. proc'[p] = Released(p, d, Calls)  BY <1>1, <1>6 DEF FinalScanDone
  <1>9. proc'[p].fin # "scan"  BY <1>7, <1>8 DEF Released, FreeProc
  <1>10. proc[p].fin = "scan"  BY DEF FinalScanDone
  <1>11. QED  BY <1>3, <1>4, <1>5, <1>9, <1>10

(* "parada PEDIDA JAMAIS reinicia": scheduleRecordingRestart arms a timer only
   at the end of a process that died by itself, that nobody had asked to stop,
   outside a shutdown, and of a camera without another recording, for any
   number of cameras, processes and calls, and any faults. *)
THEOREM RestartsFollowCrashes == Spec => RestartOnlyAfterCrash
  <1>1. Init => IndInv /\ CrashInv  BY InitIndInv, InitCrashInv
  <1>2. IndInv /\ CrashInv /\ [Next]_vars => IndInv' /\ CrashInv'
      BY NextIndInv, NextCrashInv
  <1>3. IndInv /\ CrashInv /\ [Next]_vars =>
            [\A c \in Cameras : ~timer[c] /\ timer'[c] =>
                \E p \in Procs : /\ proc[p].cam = c /\ proc[p].os = "dead"
                                 /\ proc[p].fin = "scan" /\ proc'[p].fin # "scan"
                                 /\ ~proc[p].stopRequested
                                 /\ ~shuttingDown /\ active'[c] = NoProc]_vars
      <2> SUFFICES ASSUME IndInv, CrashInv, [Next]_vars, NEW c \in Cameras, ~timer[c], timer'[c]
                   PROVE  \E p \in Procs : /\ proc[p].cam = c /\ proc[p].os = "dead"
                                           /\ proc[p].fin = "scan" /\ proc'[p].fin # "scan"
                                           /\ ~proc[p].stopRequested
                                           /\ ~shuttingDown /\ active'[c] = NoProc
          OBVIOUS
      <2>1. TypeOK  BY DEF IndInv
      <2>2. PICK p \in Procs : FinalScanDone(p)  BY <2>1, TimerArmed
      <2>3. QED  BY <2>1, <2>2, ArmedByCrash
  <1>4. QED  BY <1>1, <1>2, <1>3, PTL DEF Spec, RestartOnlyAfterCrash

-----------------------------------------------------------------------------
(* No process of a disarmed camera is forgotten.                           *)

(* Where the record of process p stands to the active map: a child is there
   until it is finalised, unless another start displaced it; and one that is
   finalised while it runs was asked to stop. *)
Tracked(p, r, act) ==
    /\ r.os # "free" => r.cam \in Cameras
    /\ r.os # "free" /\ r.fin # "done" /\ ~r.displaced => act[r.cam] = p
    /\ r.os = "running" /\ r.fin # "no" => r.stopRequested

TrackInv == \A p \in Procs : Tracked(p, proc[p], active)

(* The updates of a process record that leave `active` alone. *)
LEMMA TrackedUpdates ==
    ASSUME NEW r \in ProcRec, NEW p, NEW act, Tracked(p, r, act), NEW S
    PROVE  /\ Tracked(p, Released(p, r, S), act)
           /\ Tracked(p, [r EXCEPT !.os = "dead"], act) \/ r.os = "free"
           /\ Tracked(p, [r EXCEPT !.stopRequested = TRUE], act)
           /\ r.os = "dead" \/ r.stopRequested => Tracked(p, Finalizing(r), act)
  <1>1. Tracked(p, Released(p, r, S), act)  BY DEF Tracked, Released, FreeProc
  <1>2. Tracked(p, [r EXCEPT !.os = "dead"], act) \/ r.os = "free"  BY DEF Tracked, ProcRec
  <1>3. PICK m : m = [r EXCEPT !.stopRequested = TRUE]  OBVIOUS
  <1>4. /\ m.os = r.os /\ m.cam = r.cam /\ m.fin = r.fin /\ m.stopRequested
        /\ m.displaced = r.displaced
      BY <1>3 DEF ProcRec
  <1>5. Tracked(p, m, act)  BY <1>4 DEF Tracked
  <1>6. ASSUME r.os = "dead" \/ r.stopRequested
        PROVE  Tracked(p, Finalizing(r), act)
      <2>1. PICK d : d = Finalizing(r)  OBVIOUS
      <2>2. /\ d.os = r.os /\ d.cam = r.cam /\ d.stopRequested = r.stopRequested
            /\ d.displaced = r.displaced /\ (d.fin # "done" => r.fin # "done")
          BY <2>1 DEF Finalizing, ProcRec
      <2>3. Tracked(p, d, act)
          BY <1>6, <2>2 DEF Tracked, ProcRec
      <2>4. QED  BY <2>1, <2>3
  <1>7. QED  BY <1>1, <1>2, <1>3, <1>5, <1>6

(* One record changes beside an unchanged map. *)
LEMMA TrackOne ==
    ASSUME TypeOK, TrackInv, UNCHANGED active, NEW p \in Procs, NEW r,
           Tracked(p, r, active), proc' = [proc EXCEPT ![p] = r]
    PROVE  TrackInv'
  <1>1. proc'[p] = r /\ \A q \in Procs : q # p => proc'[q] = proc[q]
      BY DEF TypeOK
  <1>2. \A q \in Procs : Tracked(q, proc'[q], active')  BY <1>1 DEF TrackInv
  <1>3. QED  BY <1>2 DEF TrackInv, Tracked

(* An exit, its close event, and the end of its final scan, which takes only
   its own entry out of the map. *)
LEMMA TrackProcStep ==
    ASSUME TypeOK, TrackInv, NEW p \in Procs, ProcStep(p)
    PROVE  TrackInv'
  <1>1. proc[p] \in ProcRec /\ Tracked(p, proc[p], active)  BY DEF TypeOK, TrackInv
  <1>2. CASE ProcDies(p)
      <2>1. PICK d : d = [proc[p] EXCEPT !.os = "dead"]  OBVIOUS
      <2>2. d \in ProcRec /\ Tracked(p, d, active)
          BY <1>1, <1>2, <2>1, ProcOK, TrackedUpdates DEF ProcDies, Running
      <2>3. PICK r : r = Released(p, d, Calls)  OBVIOUS
      <2>4. Tracked(p, r, active)  BY <2>2, <2>3, TrackedUpdates
      <2>5. proc' = [proc EXCEPT ![p] = r] /\ UNCHANGED active
          BY <1>2, <2>1, <2>3 DEF ProcDies
      <2>6. QED  BY <2>4, <2>5, TrackOne
  <1>3. CASE ProcClosed(p)
      <2>1. PICK r : r = Finalizing(proc[p])  OBVIOUS
      <2>2. Tracked(p, r, active)  BY <1>1, <1>3, <2>1, TrackedUpdates DEF ProcClosed
      <2>3. proc' = [proc EXCEPT ![p] = r] /\ UNCHANGED active
          BY <1>3, <2>1 DEF ProcClosed
      <2>4. QED  BY <2>2, <2>3, TrackOne
  <1>4. CASE FinalScanDone(p)
      <2>1. PICK d : d = [proc[p] EXCEPT !.fin = "done"]  OBVIOUS
      <2>2. /\ d.os = proc[p].os /\ d.cam = proc[p].cam /\ d.fin = "done"
            /\ d.stopRequested = proc[p].stopRequested /\ proc[p].fin = "scan"
          BY <1>1, <1>4, <2>1 DEF ProcRec, FinalScanDone
      <2>3. PICK k : k = proc[p].cam  OBVIOUS
      <2>4. active' = IF active[k] = p THEN [active EXCEPT ![k] = NoProc] ELSE active
          BY <1>4, <2>3 DEF FinalScanDone
      <2>5. Tracked(p, d, active')  BY <1>1, <2>2 DEF Tracked
      <2>6. PICK r : r = Released(p, d, Calls)  OBVIOUS
      <2>7. PICK act : act = active'  OBVIOUS
      <2>8. d \in ProcRec  BY <1>1, <2>1, ProcOK
      <2>9. Tracked(p, r, act)  BY <2>5, <2>6, <2>7, <2>8, TrackedUpdates
      <2>10. proc'[p] = r /\ \A q \in Procs : q # p => proc'[q] = proc[q]
          BY <1>4, <2>1, <2>6 DEF FinalScanDone, TypeOK
      <2>11. ASSUME NEW q \in Procs, q # p
             PROVE  Tracked(q, proc[q], act)
          <3>1. Tracked(q, proc[q], active)  BY DEF TrackInv
          <3>2. proc[q].cam \in Cameras /\ active[proc[q].cam] = q => act[proc[q].cam] = q
              BY <2>4, <2>7, <2>11 DEF TypeOK
          <3>3. QED  BY <3>1, <3>2 DEF Tracked
      <2>12. \A q \in Procs : Tracked(q, proc'[q], act)  BY <2>9, <2>10, <2>11
      <2>13. QED  BY <2>7, <2>12 DEF TrackInv, Tracked
  <1>5. QED  BY <1>2, <1>3, <1>4 DEF ProcStep

(* The new child is the entry of its camera; the one that was there is displaced. *)
LEMMA TrackSpawn ==
    ASSUME TypeOK, TrackInv, NEW t \in Calls, StartSpawn(t)
    PROVE  TrackInv'
  <1>1. PICK k \in Cameras : k = call[t].cam
      BY DEF TypeOK, CallsKnowTheirWork, StartSpawn, At, CamPcs, StartPcs
  <1>2. PICK p \in Procs :
            /\ proc[p].os = "free"
            /\ proc' = Spawned(p, k) /\ active' = [active EXCEPT ![k] = p]
      BY <1>1 DEF StartSpawn
  <1>3. active'[k] = p /\ \A c \in Cameras : c # k => active'[c] = active[c]
      BY <1>2 DEF TypeOK
  <1>4. Tracked(p, proc'[p], active')
      BY <1>1, <1>2, <1>3, SpawnedOK, NewProcOK DEF Tracked
  <1>5. ASSUME NEW q \in Procs, q # p
        PROVE  Tracked(q, proc'[q], active')
      <2>1. /\ proc'[q].os = proc[q].os /\ proc'[q].cam = proc[q].cam
            /\ proc'[q].fin = proc[q].fin
            /\ proc'[q].stopRequested = proc[q].stopRequested
            /\ ~proc'[q].displaced => ~proc[q].displaced /\ q # active[k]
          BY <1>2, <1>5, SpawnedOK
      <2>2. Tracked(q, proc[q], active)  BY DEF TrackInv
      <2>3. proc[q].cam \in Cameras /\ active[proc[q].cam] = q /\ q # active[k] =>
                active'[proc[q].cam] = q
          BY <1>3
      <2>4. QED  BY <2>1, <2>2, <2>3 DEF Tracked
  <1>6. QED  BY <1>4, <1>5 DEF TrackInv, Tracked

(* The calls that mark a process, finalise it or give it up. *)
LEMMA TrackCalls ==
    ASSUME IndInv, CrashInv, TrackInv, NEW t \in Calls,
           StartRollback(t) \/ StopMark(t) \/ KillWait(t) \/ StartCommit(t) \/ FinalizeAwaited(t)
    PROVE  TrackInv'
  <1>1. TypeOK /\ UNCHANGED active
      BY DEF IndInv, StartRollback, StopMark, KillWait, StartCommit, FinalizeAwaited
  <1>2. CASE StopMark(t)
      <2>1. call[t].cam \in Cameras
          BY <1>1, <1>2 DEF TypeOK, CallsKnowTheirWork, StopMark, At, CamPcs, StopPcs
      <2>2. CASE active[call[t].cam] = NoProc
          <3>1. UNCHANGED proc  BY <1>2, <2>2 DEF StopMark
          <3>2. QED  BY <1>1, <3>1 DEF TrackInv, Tracked
      <2>3. CASE active[call[t].cam] # NoProc
          <3>1. PICK p \in Procs : p = active[call[t].cam]  BY <1>1, <2>1, <2>3 DEF TypeOK
          <3>2. PICK r : r = [proc[p] EXCEPT !.stopRequested = TRUE]  OBVIOUS
          <3>3. Tracked(p, r, active)
              BY <1>1, <3>2, TrackedUpdates DEF TypeOK, TrackInv
          <3>4. proc' = [proc EXCEPT ![p] = r]  BY <1>2, <2>3, <3>1, <3>2 DEF StopMark
          <3>5. QED  BY <1>1, <3>3, <3>4, TrackOne
      <2>4. QED  BY <2>2, <2>3
  <1>3. CASE ~StopMark(t)
      <2>1. PICK p \in Procs : p = call[t].p
          BY <1>1, <1>3 DEF TypeOK, CallsKnowTheirWork, StartRollback, KillWait, StartCommit,
             FinalizeAwaited, At, ProcPcs
      <2>2. proc[p] \in ProcRec /\ Tracked(p, proc[p], active)  BY <1>1 DEF TypeOK, TrackInv
      <2>3. CASE StartRollback(t)
          <3>1. PICK r : r = [proc[p] EXCEPT !.stopRequested = TRUE]  OBVIOUS
          <3>2. Tracked(p, r, active)  BY <2>2, <3>1, TrackedUpdates
          <3>3. proc' = [proc EXCEPT ![p] = r]  BY <2>1, <2>3, <3>1 DEF StartRollback
          <3>4. QED  BY <1>1, <3>2, <3>3, TrackOne
      <2>4. CASE KillWait(t)
          <3>1. proc[p].stopRequested
              BY <2>1, <2>4 DEF CrashInv, Holds, KillWait, ProcPcs
          <3>2. PICK r : r = Finalizing(proc[p])  OBVIOUS
          <3>3. Tracked(p, r, active)  BY <2>2, <3>1, <3>2, TrackedUpdates
          <3>4. proc' = [proc EXCEPT ![p] = r]  BY <2>1, <2>4, <3>2 DEF KillWait
          <3>5. QED  BY <1>1, <3>3, <3>4, TrackOne
      <2>5. CASE StartCommit(t) \/ FinalizeAwaited(t)
          <3>1. PICK r : r = Released(p, proc[p], Calls \ {t})  OBVIOUS
          <3>2. Tracked(p, r, active)  BY <2>2, <3>1, TrackedUpdates
          <3>3. proc' = [proc EXCEPT ![p] = r]
              BY <2>1, <2>5, <3>1 DEF StartCommit, FinalizeAwaited
          <3>4. QED  BY <1>1, <3>2, <3>3, TrackOne
      <2>6. QED  BY <1>3, <2>3, <2>4, <2>5
  <1>4. QED  BY <1>2, <1>3

LEMMA TrackSuspend ==
    ASSUME TypeOK, TrackInv, NEW c \in Cameras, GuardSuspend(c)
    PROVE  TrackInv'
  <1>1. UNCHANGED active  BY DEF GuardSuspend
  <1>2. CASE active[c] = NoProc
      <2>1. UNCHANGED proc  BY <1>2 DEF GuardSuspend
      <2>2. QED  BY <1>1, <2>1 DEF TrackInv, Tracked
  <1>3. CASE active[c] # NoProc
      <2>1. PICK p \in Procs : p = active[c]  BY <1>3 DEF TypeOK
      <2>2. PICK r : r = [proc[p] EXCEPT !.stopRequested = TRUE]  OBVIOUS
      <2>3. Tracked(p, r, active)  BY <2>2, TrackedUpdates DEF TypeOK, TrackInv
      <2>4. proc' = [proc EXCEPT ![p] = r]  BY <1>3, <2>1, <2>2 DEF GuardSuspend
      <2>5. QED  BY <1>1, <2>3, <2>4, TrackOne
  <1>4. QED  BY <1>2, <1>3

LEMMA InitTrackInv == Init => TrackInv
  <1> SUFFICES ASSUME Init PROVE TrackInv  OBVIOUS
  <1>1. \A p \in Procs : proc[p].os = "free"  BY DEF Init, FreeProc
  <1>2. QED  BY <1>1 DEF TrackInv, Tracked

LEMMA NextTrackInv == IndInv /\ CrashInv /\ TrackInv /\ [Next]_vars => TrackInv'
  <1> SUFFICES ASSUME IndInv, CrashInv, TrackInv, [Next]_vars PROVE TrackInv'  OBVIOUS
  <1>0. TypeOK  BY DEF IndInv
  <1>1. CASE UNCHANGED <<active, proc>>  BY <1>1 DEF TrackInv, Tracked
  <1>2. CASE \E p \in Procs : ProcStep(p)  BY <1>0, <1>2, TrackProcStep
  <1>3. CASE \E t \in Calls : CallStep(t)
      <2>1. PICK t \in Calls : CallStep(t)  BY <1>3
      <2>2. CASE StartSpawn(t)  BY <1>0, <2>2, TrackSpawn
      <2>3. CASE StartRollback(t) \/ StopMark(t) \/ KillWait(t) \/ StartCommit(t) \/ FinalizeAwaited(t)
          BY <2>3, TrackCalls
      <2>4. CASE ~(StartSpawn(t) \/ StartRollback(t) \/ StopMark(t) \/ KillWait(t)
                   \/ StartCommit(t) \/ FinalizeAwaited(t))
          <3>1. UNCHANGED <<active, proc>>
              BY <2>1, <2>4 DEF CallStep, StartCheck, StartLookup, StartKeep, CallFails, StopWrite,
                 StopWriteFails, ProvisionRead, RestartRead, NextCamera
          <3>2. QED  BY <1>1, <3>1
      <2>5. QED  BY <2>2, <2>3, <2>4
  <1>4. CASE \E u \in Users, c \in Cameras : UserStep(u, c)
      <2>1. UNCHANGED <<active, proc>>
          BY <1>4 DEF UserStep, UserStart, UserStop, UserDisable, UserEnable
      <2>2. QED  BY <1>1, <2>1
  <1>5. CASE \E r \in Restarts, c \in Cameras : RestartFires(r, c)
      BY <1>1, <1>5 DEF RestartFires
  <1>6. CASE \E c \in Cameras : WindowSlides(c) \/ GuardSuspend(c)
      <2>1. PICK c \in Cameras : WindowSlides(c) \/ GuardSuspend(c)  BY <1>6
      <2>2. CASE WindowSlides(c)  BY <1>1, <2>2 DEF WindowSlides
      <2>3. CASE GuardSuspend(c)  BY <1>0, <2>3, TrackSuspend
      <2>4. QED  BY <2>1, <2>2, <2>3
  <1>7. CASE \/ \E stale \in SUBSET Cameras : HealthRun(stale)
             \/ GuardRun \/ RestrictRun \/ Shutdown \/ BootRead
      BY <1>1, <1>7 DEF HealthRun, GuardRun, RestrictRun, Shutdown, BootRead
  <1>8. CASE ApiRestarts
      <2>1. \A p \in Procs : proc'[p].os = "free"  BY <1>8 DEF ApiRestarts, FreeProc
      <2>2. QED  BY <2>1 DEF TrackInv, Tracked
  <1>9. CASE UNCHANGED vars \/ DiskChanges \/ LicenceChanges
      BY <1>1, <1>9 DEF vars, mem, DiskChanges, LicenceChanges
  <1>10. QED  BY <1>2, <1>3, <1>4, <1>5, <1>6, <1>7, <1>8, <1>9 DEF Next

(* A process that is neither displaced nor given up and still runs is the entry
   of its camera. *)
LEMMA RunningIsActive ==
    ASSUME TypeOK, TrackInv, NEW p \in Procs, Running(p), ~Abandoned(p)
    PROVE  proc[p].cam \in Cameras /\ active[proc[p].cam] = p
  BY DEF TypeOK, TrackInv, Tracked, Running, Abandoned, GaveUp, ProcRec

(* So whatever ActiveOwned says of the entry holds of every process. *)
LEMMA OwnedFollows == IndInv /\ TrackInv => DisarmedIsOwned
  <1> SUFFICES ASSUME IndInv, TrackInv, NEW c \in Cameras, NEW p \in Procs,
                      proc[p].cam = c, ~desired[c],
                      active[c] = p \/ (Running(p) /\ ~Abandoned(p))
               PROVE  \E t \in Calls : Owns(call[t], c, p)
      BY DEF DisarmedIsOwned
  <1>1. active[c] = p  BY RunningIsActive DEF IndInv
  <1>2. p # NoProc  BY Constants
  <1>3. QED  BY <1>1, <1>2 DEF IndInv, ActiveOwned

LEMMA StopsFollows == IndInv /\ TrackInv => DisarmedStops
  <1> SUFFICES ASSUME IndInv, TrackInv, NEW c \in Cameras, Quiet(c), ~desired[c]
               PROVE  /\ active[c] = NoProc
                      /\ \A p \in Procs : proc[p].cam = c /\ Running(p) => Abandoned(p)
      BY DEF DisarmedStops
  <1>1. active[c] = NoProc  BY DEF IndInv, ActiveOwned, Owns, Quiet
  <1>2. ASSUME NEW p \in Procs, proc[p].cam = c, Running(p), ~Abandoned(p)
        PROVE  FALSE
      <2>1. active[c] = p  BY <1>2, RunningIsActive DEF IndInv
      <2>2. QED  BY <1>1, <2>1, Constants
  <1>3. QED  BY <1>1, <1>2

(* The records of the processes agree with the active map in every reachable
   state. *)
THEOREM Tracking == Spec => [](IndInv /\ TrackInv)
  <1>1. Init => IndInv /\ CrashInv /\ TrackInv  BY InitIndInv, InitCrashInv, InitTrackInv
  <1>2. IndInv /\ CrashInv /\ TrackInv /\ [Next]_vars => IndInv' /\ CrashInv' /\ TrackInv'
      BY NextIndInv, NextCrashInv, NextTrackInv
  <1>3. QED  BY <1>1, <1>2, PTL DEF Spec

(* Of a disarmed camera every process, in `active` or running anywhere else, is
   answered for by a call in flight, unless an overlapping start displaced it or
   the kill gave it up. *)
THEOREM DisarmedOwned == Spec => []DisarmedIsOwned
  BY Tracking, OwnedFollows, PTL

(* Once the calls on a disarmed camera have returned, no process of it runs,
   with the same two exceptions. *)
THEOREM DisarmedStopped == Spec => []DisarmedStops
  BY Tracking, StopsFollows, PTL

-----------------------------------------------------------------------------
(* What the operator asked for stays written.                              *)

(* A call that is going to disarm a camera is the operator's own, who no
   longer wants it recorded; only the guard and the boot walk over cameras. *)
Meant(t, r) ==
    /\ r.pc = "stopWrite" => t \in Users /\ ~intent[r.cam]
    /\ r.pc = "next" \/ r.todo # {} => t \in {Guard, Boot}
    /\ t \in {Health, StopAll} => r.pc = "idle"

WishInv ==
    /\ \A c \in Cameras : intent[c] => desired[c]
    /\ \A t \in Calls : Meant(t, call[t])
    /\ licensed = TRUE /\ shuttingDown = FALSE

(* One operator at a time, and none of the routines that write
   recordingEnabled: the reconnect and stopAll() of a licence or a shutdown. *)
OnlyTheOperator ==
    /\ \A u, v \in Users : u = v
    /\ "reconnect" \notin Flags /\ {"licenceLapses", "shutdown"} \cap Faults = {}

(* The operator's wish changes only by his own call. *)
LEMMA MeantKept ==
    ASSUME TypeOK, WishInv, OnlyTheOperator, NEW t \in Calls, NEW r \in CallRec, Step(t, r),
           r.pc = "stopWrite" => t \in Users /\ ~intent'[r.cam],
           r.pc = "next" \/ r.todo # {} => t \in {Guard, Boot},
           t \notin {Health, StopAll},
           \A c \in Cameras : intent'[c] => desired'[c],
           (\A c \in Cameras : intent'[c] => intent[c]) \/ t \in Users,
           UNCHANGED <<licensed, shuttingDown>>
    PROVE  WishInv'
  <1>1. call'[t] = r /\ \A u \in Calls : u # t => call'[u] = call[u]
      BY DEF TypeOK, Step
  <1>2. ASSUME NEW u \in Calls
        PROVE  /\ call'[u].pc = "stopWrite" => u \in Users /\ ~intent'[call'[u].cam]
               /\ call'[u].pc = "next" \/ call'[u].todo # {} => u \in {Guard, Boot}
               /\ u \in {Health, StopAll} => call'[u].pc = "idle"
      <2>1. CASE u = t  BY <1>1, <2>1
      <2>2. CASE u # t
          <3>1. call'[u] = call[u] /\ Meant(u, call[u])  BY <1>1, <2>2 DEF WishInv
          <3>2. call[u].pc = "stopWrite" => call[u].cam \in Cameras
              BY DEF TypeOK, CallsKnowTheirWork, CamPcs, StopPcs
          <3>3. call[u].pc = "stopWrite" => ~intent'[call[u].cam]
              BY <2>2, <3>1, <3>2 DEF Meant, OnlyTheOperator
          <3>4. QED  BY <3>1, <3>3 DEF Meant
      <2>3. QED  BY <2>1, <2>2
  <1>3. \A u \in Calls : Meant(u, call[u])'
      BY <1>2 DEF Meant
  <1>4. QED  BY <1>3 DEF WishInv

(* A call that goes on without a wish of its own. *)
LEMMA MeantStep ==
    ASSUME TypeOK, WishInv, OnlyTheOperator, NEW t \in Calls, NEW r \in CallRec, Step(t, r),
           r.pc \notin {"stopWrite", "next"}, r.todo \in {{}, call[t].todo},
           t \notin {Health, StopAll},
           UNCHANGED <<desired, intent, licensed, shuttingDown>>
    PROVE  WishInv'
  <1>1. Meant(t, call[t]) /\ \A c \in Cameras : intent[c] => desired[c]  BY DEF WishInv
  <1>2. r.todo # {} => t \in {Guard, Boot}  BY <1>1 DEF Meant
  <1>3. QED  BY <1>1, <1>2, MeantKept

(* A loop goes on only where there was one. *)
LEMMA MeantLoop ==
    ASSUME TypeOK, WishInv, OnlyTheOperator, NEW t \in Calls, NEW S \in SUBSET Cameras,
           Step(t, Loop(S)), S # {} => t \in {Guard, Boot}, t \notin {Health, StopAll},
           \A c \in Cameras : intent'[c] => desired'[c],
           (\A c \in Cameras : intent'[c] => intent[c]) \/ t \in Users,
           UNCHANGED <<licensed, shuttingDown>>
    PROVE  WishInv'
  <1>1. PICK r \in CallRec : r = Loop(S)  BY LoopOK DEF CallOK
  <1>2. r.pc # "stopWrite" /\ (r.pc = "next" \/ r.todo # {} => S # {})
      BY <1>1 DEF Loop, IdleCall
  <1>3. Step(t, r)  BY <1>1
  <1>4. QED  BY <1>2, <1>3, MeantKept

(* The calls in flight are not the ones that are left out. *)
LEMMA MeantFacts ==
    ASSUME TypeOK, WishInv, NEW t \in Calls, call[t].pc # "idle"
    PROVE  /\ t \notin {Health, StopAll} /\ call[t] \in CallRec /\ call[t].todo \in SUBSET Cameras
           /\ call[t].todo # {} => t \in {Guard, Boot}
           /\ \A c \in Cameras : intent[c] => desired[c]
           /\ StartReturns(t) = Loop(call[t].todo) /\ StopReturns(t) = Loop(call[t].todo)
           /\ StopThrows(t) = Loop(call[t].todo)
           /\ \A q : /\ Goto(t, q).pc = q /\ Goto(t, q).todo = call[t].todo
                     /\ q \in Pcs => Goto(t, q) \in CallRec
  <1>1. Meant(t, call[t]) /\ \A c \in Cameras : intent[c] => desired[c]  BY DEF WishInv
  <1>2. call[t] \in CallRec  BY DEF TypeOK
  <1>3. t \notin {Health, StopAll} /\ (call[t].todo # {} => t \in {Guard, Boot})
      BY <1>1 DEF Meant
  <1>4. call[t].todo \in SUBSET Cameras  BY <1>2 DEF CallRec
  <1>5. \A q : /\ Goto(t, q).pc = q /\ Goto(t, q).todo = call[t].todo
               /\ q \in Pcs => Goto(t, q) \in CallRec
      BY <1>2 DEF Goto, CallRec
  <1>6. QED  BY <1>1, <1>2, <1>3, <1>4, <1>5 DEF StartReturns, StopReturns, StopThrows

(* A call returns, or goes on to another await. *)
LEMMA WishReads ==
    ASSUME TypeOK, WishInv, OnlyTheOperator, NEW t \in Calls,
           \/ StartCheck(t) \/ StartLookup(t) \/ CallFails(t) \/ StartRollback(t)
           \/ StopWriteFails(t) \/ KillWait(t) \/ FinalizeAwaited(t)
           \/ ProvisionRead(t) \/ RestartRead(t)
    PROVE  WishInv'
  <1>1. call[t].pc # "idle"
      BY DEF StartCheck, StartLookup, CallFails, StartRollback, StopWriteFails, KillWait,
             FinalizeAwaited, ProvisionRead, RestartRead, At, FailPcs
  <1>2. UNCHANGED <<desired, intent, licensed, shuttingDown>>
      BY DEF StartCheck, StartLookup, CallFails, StartRollback, StopWriteFails, KillWait,
             FinalizeAwaited, ProvisionRead, RestartRead, db, env
  <1>3. \/ Step(t, Loop(call[t].todo)) \/ Step(t, IdleCall)
        \/ \E q \in Pcs \ {"stopWrite", "next"} : Step(t, Goto(t, q))
      <2>1. CASE StartCheck(t) \/ StartLookup(t) \/ CallFails(t)
          BY <2>1, <1>1, MeantFacts DEF StartCheck, StartLookup, CallFails, Pcs, StartPcs
      <2>2. CASE StartRollback(t) \/ KillWait(t)
          BY <2>2 DEF StartRollback, KillWait, Pcs, StartPcs, StopPcs
      <2>3. CASE StopWriteFails(t) \/ FinalizeAwaited(t)
          BY <2>3, <1>1, MeantFacts DEF StopWriteFails, FinalizeAwaited
      <2>4. CASE ProvisionRead(t) \/ RestartRead(t)
          BY <2>4 DEF ProvisionRead, RestartRead, Pcs, StartPcs
      <2>5. QED  BY <2>1, <2>2, <2>3, <2>4
  <1>4. CASE Step(t, Loop(call[t].todo))
      BY <1>1, <1>2, <1>4, MeantFacts, MeantLoop
  <1>5. CASE Step(t, IdleCall)
      <2>1. Step(t, Loop({}))  BY <1>5 DEF Loop
      <2>2. QED  BY <1>1, <1>2, <2>1, MeantFacts, MeantLoop
  <1>6. CASE \E q \in Pcs \ {"stopWrite", "next"} : Step(t, Goto(t, q))
      <2>1. PICK q \in Pcs \ {"stopWrite", "next"} : Step(t, Goto(t, q))  BY <1>6
      <2>2. PICK r \in CallRec : r = Goto(t, q) /\ r.pc = q /\ r.todo = call[t].todo
          BY <1>1, MeantFacts
      <2>3. QED  BY <1>1, <1>2, <2>1, <2>2, MeantFacts, MeantStep
  <1>7. QED  BY <1>3, <1>4, <1>5, <1>6

(* A start is committed: the camera is armed, for the operator if it is his. *)
LEMMA WishArms ==
    ASSUME TypeOK, WishInv, OnlyTheOperator, NEW t \in Calls, StartKeep(t) \/ StartCommit(t)
    PROVE  WishInv'
  <1>1. call[t].pc # "idle" /\ call[t].cam \in Cameras
      BY DEF StartKeep, StartCommit, At, TypeOK, CallsKnowTheirWork, CamPcs, StartPcs
  <1>2. /\ desired' = [desired EXCEPT ![call[t].cam] = TRUE]
        /\ intent' = [intent EXCEPT ![call[t].cam] = @ \/ t \in Users]
        /\ Step(t, Loop(call[t].todo)) /\ UNCHANGED <<licensed, shuttingDown>>
      BY DEF StartKeep, StartCommit, CommitDesired, StartReturns, env
  <1>3. desired \in [Cameras -> BOOLEAN] /\ intent \in [Cameras -> BOOLEAN]  BY DEF TypeOK
  <1>4. \A c \in Cameras : intent'[c] => desired'[c]
      <2>1. desired'[call[t].cam] /\ \A c \in Cameras : c # call[t].cam =>
                desired'[c] = desired[c] /\ intent'[c] = intent[c]
          BY <1>1, <1>2, <1>3
      <2>2. QED  BY <1>1, <2>1, MeantFacts
  <1>5. (\A c \in Cameras : intent'[c] => intent[c]) \/ t \in Users
      <2>1. CASE t \notin Users
          <3>1. intent'[call[t].cam] = intent[call[t].cam]  BY <1>1, <1>2, <1>3, <2>1
          <3>2. \A c \in Cameras : c # call[t].cam => intent'[c] = intent[c]  BY <1>2, <1>3
          <3>3. QED  BY <3>1, <3>2
      <2>2. QED  BY <2>1
  <1>6. QED  BY <1>1, <1>2, <1>4, <1>5, MeantFacts, MeantLoop

(* A camera is disarmed by an operator who does not want it any more. *)
LEMMA WishDisarms ==
    ASSUME TypeOK, WishInv, OnlyTheOperator, NEW t \in Calls, StopWrite(t)
    PROVE  WishInv'
  <1>1. call[t].pc = "stopWrite" /\ call[t].pc # "idle" /\ call[t].cam \in Cameras
      BY DEF StopWrite, At, TypeOK, CallsKnowTheirWork, CamPcs, StopPcs
  <1>2. /\ desired' = [desired EXCEPT ![call[t].cam] = FALSE]
        /\ Step(t, Goto(t, "stopMark")) /\ UNCHANGED <<licensed, shuttingDown, intent>>
      BY DEF StopWrite, CommitDesired, env
  <1>3. ~intent[call[t].cam]  BY <1>1 DEF WishInv, Meant
  <1>4. \A c \in Cameras : intent[c] => desired[c]  BY DEF WishInv
  <1>5. \A c \in Cameras : intent'[c] => desired'[c]
      BY <1>2, <1>3, <1>4 DEF TypeOK
  <1>6. PICK r \in CallRec : r = Goto(t, "stopMark") /\ r.pc = "stopMark" /\ r.todo = call[t].todo
      BY <1>1, MeantFacts DEF Pcs, StopPcs
  <1>7. QED  BY <1>1, <1>2, <1>5, <1>6, MeantFacts, MeantKept

(* A call takes a process, or finds none to stop. *)
LEMMA WishTakes ==
    ASSUME TypeOK, WishInv, OnlyTheOperator, NEW t \in Calls, StartSpawn(t) \/ StopMark(t)
    PROVE  WishInv'
  <1>1. call[t].pc # "idle" /\ call[t].cam \in Cameras /\ call[t] \in CallRec
      BY DEF StartSpawn, StopMark, At, TypeOK, CallsKnowTheirWork, CamPcs, StartPcs, StopPcs
  <1>2. UNCHANGED <<desired, intent, licensed, shuttingDown>>
      BY DEF StartSpawn, StopMark, db, env
  <1>3. \/ Step(t, Loop(call[t].todo))
        \/ \E q \in {"startCommit", "stopWait"}, p \in Procs : Step(t, [call[t] EXCEPT !.pc = q, !.p = p])
      <2>1. CASE StartSpawn(t)  BY <2>1 DEF StartSpawn
      <2>2. CASE StopMark(t)
          BY <1>1, <2>2, MeantFacts DEF StopMark, TypeOK
      <2>3. QED  BY <2>1, <2>2
  <1>4. CASE Step(t, Loop(call[t].todo))
      BY <1>1, <1>2, <1>4, MeantFacts, MeantLoop
  <1>5. CASE \E q \in {"startCommit", "stopWait"}, p \in Procs :
                 Step(t, [call[t] EXCEPT !.pc = q, !.p = p])
      <2>1. PICK q \in {"startCommit", "stopWait"}, p \in Procs :
                 Step(t, [call[t] EXCEPT !.pc = q, !.p = p])
          BY <1>5
      <2>2. PICK r : r = [call[t] EXCEPT !.pc = q, !.p = p]  OBVIOUS
      <2>3. r \in CallRec /\ r.pc = q /\ r.todo = call[t].todo
          BY <1>1, <2>2 DEF CallRec, Pcs, StartPcs, StopPcs
      <2>4. Step(t, r)  BY <2>1, <2>2
      <2>5. QED  BY <1>1, <1>2, <2>3, <2>4, MeantFacts, MeantStep
  <1>6. QED  BY <1>3, <1>4, <1>5

(* A call begins: the boot's next camera, a restart, the operator's request. *)
LEMMA WishBegins ==
    ASSUME TypeOK, WishInv, OnlyTheOperator, NEW t \in Calls, NEW c \in Cameras,
           NextCamera(t, c) \/ (t \in Restarts /\ RestartFires(t, c)) \/ (t \in Users /\ UserStep(t, c))
    PROVE  WishInv'
  <1>1. Meant(t, call[t]) /\ \A k \in Cameras : intent[k] => desired[k]  BY DEF WishInv
  <1>2. call[t] \in CallRec /\ intent \in [Cameras -> BOOLEAN] /\ call[t].todo \in SUBSET Cameras
      BY CallsTyped DEF TypeOK
  <1>3. CASE NextCamera(t, c)
      <2>1. t = Boot /\ t \notin {Health, StopAll}
          BY <1>1, <1>3, Constants DEF NextCamera, At, Meant
      <2>2. PICK r : r = [Begin(c, "startCheck", FALSE) EXCEPT !.todo = call[t].todo \ {c}]  OBVIOUS
      <2>3. r \in CallRec /\ r.pc = "startCheck"
          BY <1>2, <2>2, BeginOK DEF CallOK, Begin, Pcs, StartPcs, ProcPcs
      <2>4. Step(t, r) /\ UNCHANGED <<desired, intent, licensed, shuttingDown>>
          BY <1>3, <2>1, <2>2 DEF NextCamera, FirstPc, db, env
      <2>5. QED  BY <1>1, <2>1, <2>3, <2>4, MeantKept
  <1>4. CASE t \in Restarts /\ RestartFires(t, c)
      <2>1. t \notin {Health, StopAll}  BY <1>4, Constants DEF Routines
      <2>2. UNCHANGED <<desired, intent, licensed, shuttingDown>>  BY <1>4 DEF RestartFires, db, env
      <2>3. PICK r : r = Begin(c, "restartRead", FALSE)  OBVIOUS
      <2>4. r \in CallRec /\ r.pc = "restartRead" /\ r.todo = {}
          BY <2>3, BeginOK DEF CallOK, Begin, Pcs, ProcPcs
      <2>5. Step(t, r) \/ Step(t, Loop({}))  BY <1>4, <2>3 DEF RestartFires, Loop
      <2>6. CASE Step(t, r)  BY <2>1, <2>2, <2>4, <2>6, MeantStep
      <2>7. CASE Step(t, Loop({}))  BY <1>1, <2>1, <2>2, <2>7, MeantLoop
      <2>8. QED  BY <2>5, <2>6, <2>7
  <1>5. CASE t \in Users /\ UserStep(t, c)
      <2>1. t \notin {Health, StopAll}  BY <1>5, Constants DEF Routines
      <2>2. PICK q \in {"startCheck", "provRead", "stopWrite"}, m \in BOOLEAN :
                /\ Step(t, Begin(c, q, m))
                /\ q = "stopWrite" => intent' = [intent EXCEPT ![c] = FALSE]
                /\ intent' \in {intent, [intent EXCEPT ![c] = FALSE]}
          BY <1>5 DEF UserStep, UserStart, UserStop, UserDisable, UserEnable
      <2>3. UNCHANGED <<desired, licensed, shuttingDown>>
          BY <1>5 DEF UserStep, UserStart, UserStop, UserDisable, UserEnable, db, env
      <2>4. PICK r : r = Begin(c, q, m)  OBVIOUS
      <2>5. r \in CallRec /\ r.pc = q /\ r.todo = {} /\ r.cam = c
          BY <2>4, BeginOK DEF CallOK, Begin, Pcs, StartPcs, StopPcs, ProcPcs
      <2>6. \A k \in Cameras : intent'[k] => intent[k]  BY <1>2, <2>2
      <2>7. r.pc = "stopWrite" => ~intent'[c]  BY <1>2, <2>2, <2>5
      <2>8. Step(t, r)  BY <2>2, <2>4
      <2>9. \A k \in Cameras : intent'[k] => desired'[k]  BY <1>1, <2>3, <2>6
      <2>10. QED  BY <1>5, <2>1, <2>3, <2>5, <2>6, <2>7, <2>8, <2>9, MeantKept
  <1>6. QED  BY <1>3, <1>4, <1>5

(* The guard and the boot walk over cameras without disarming them; the
   routines that do disarm are left out. *)
LEMMA WishRoutines ==
    ASSUME TypeOK, WishInv, OnlyTheOperator,
           \/ \E stale \in SUBSET Cameras : HealthRun(stale)
           \/ GuardRun \/ RestrictRun \/ Shutdown \/ BootRead
    PROVE  WishInv'
  <1>1. GuardRun \/ BootRead
      BY DEF WishInv, OnlyTheOperator, HealthRun, RestrictRun, Shutdown
  <1>2. /\ {Guard, Boot} \subseteq Calls /\ Guard \notin {Health, StopAll} /\ Boot \notin {Health, StopAll}
        /\ \A k \in Cameras : intent[k] => desired[k]
      BY Constants DEF Calls, Routines, WishInv
  <1>3. PICK t \in {Guard, Boot}, S \in SUBSET Cameras : Step(t, Loop(S))
      BY <1>1 DEF GuardRun, BootRead
  <1>4. UNCHANGED <<desired, intent, licensed, shuttingDown>>
      BY <1>1 DEF GuardRun, BootRead, db, env
  <1>5. QED  BY <1>2, <1>3, <1>4, MeantLoop

LEMMA WishSuspend ==
    ASSUME TypeOK, WishInv, OnlyTheOperator, NEW c \in Cameras, GuardSuspend(c)
    PROVE  WishInv'
  <1>1. /\ Guard \in Calls /\ Guard \notin {Health, StopAll} /\ call[Guard].todo \in SUBSET Cameras
        /\ \A k \in Cameras : intent[k] => desired[k]
      BY Constants, CallsTyped DEF Calls, Routines, WishInv
  <1>2. UNCHANGED <<desired, intent, licensed, shuttingDown>>  BY DEF GuardSuspend, db, env
  <1>3. PICK S \in SUBSET Cameras : S = call[Guard].todo \ {c}  BY <1>1
  <1>4. CASE active[c] = NoProc
      <2>1. Step(Guard, Loop(S))  BY <1>3, <1>4 DEF GuardSuspend
      <2>2. QED  BY <1>1, <1>2, <2>1, MeantLoop
  <1>5. CASE active[c] # NoProc
      <2>1. PICK p \in Procs : p = active[c]  BY <1>5 DEF TypeOK
      <2>2. PICK r : r = [Begin(c, "stopWait", FALSE) EXCEPT !.p = p, !.todo = S]  OBVIOUS
      <2>3. r \in CallRec /\ r.pc = "stopWait"  BY <2>2, BeginWaitOK DEF CallOK, Begin
      <2>4. Step(Guard, r)  BY <1>3, <1>5, <2>1, <2>2 DEF GuardSuspend
      <2>5. QED  BY <1>1, <1>2, <2>3, <2>4, MeantKept
  <1>6. QED  BY <1>4, <1>5

(* A node that has just booted disarms nothing. *)
LEMMA FreshMeant == \A t \in Calls : Meant(t, FreshCalls[t])
  <1>1. /\ IdleCall.pc = "idle" /\ IdleCall.todo = {}
        /\ [IdleCall EXCEPT !.pc = "bootRead"].pc = "bootRead"
        /\ [IdleCall EXCEPT !.pc = "bootRead"].todo = {}
      BY DEF IdleCall
  <1>2. QED  BY <1>1, Constants DEF FreshCalls, Meant

LEMMA InitWishInv == Init => WishInv
  BY FreshMeant DEF Init, WishInv

LEMMA NextWishInv ==
    ASSUME TypeOK, WishInv, OnlyTheOperator, [Next]_vars
    PROVE  WishInv'
  <1>1. CASE \/ UNCHANGED vars \/ (\E c \in Cameras : WindowSlides(c)) \/ DiskChanges
             \/ \E p \in Procs : ProcStep(p)
      <2>1. UNCHANGED <<desired, intent, licensed, shuttingDown, call>>
          BY <1>1 DEF vars, db, env, mem, WindowSlides, DiskChanges, ProcStep, ProcDies, ProcClosed,
             FinalScanDone
      <2>2. QED  BY <2>1 DEF WishInv, Meant
  <1>2. CASE \E t \in Calls : CallStep(t)
      <2>1. PICK t \in Calls : CallStep(t)  BY <1>2
      <2>2. QED  BY <2>1, WishReads, WishArms, WishDisarms, WishTakes, WishBegins DEF CallStep
  <1>3. CASE \E u \in Users, c \in Cameras : UserStep(u, c)
      BY <1>3, WishBegins DEF Calls
  <1>4. CASE \E r \in Restarts, c \in Cameras : RestartFires(r, c)
      BY <1>4, WishBegins DEF Calls
  <1>5. CASE \E c \in Cameras : GuardSuspend(c)  BY <1>5, WishSuspend
  <1>6. CASE \/ \E stale \in SUBSET Cameras : HealthRun(stale)
             \/ GuardRun \/ RestrictRun \/ Shutdown \/ BootRead
      BY <1>6, WishRoutines
  <1>7. CASE ApiRestarts
      <2>1. call' = FreshCalls /\ UNCHANGED <<desired, intent, licensed>> /\ shuttingDown' = FALSE
          BY <1>7 DEF ApiRestarts, db, env
      <2>2. \A t \in Calls : Meant(t, call'[t])  BY <2>1, FreshMeant
      <2>3. QED  BY <2>1, <2>2 DEF WishInv, Meant
  <1>8. CASE LicenceChanges  BY <1>8 DEF LicenceChanges, OnlyTheOperator
  <1>9. QED  BY <1>1, <1>2, <1>3, <1>4, <1>5, <1>6, <1>7, <1>8 DEF Next

(* "Só uma ação explícita (stop/modo) muda o desejado": with requests that come
   one after another, what the operator asked for stays written, through
   crashes, restarts of the recorder and of the API, rollbacks, failing rows and
   the disk guard.  Without the assumption it does not hold: the reconnect and
   stopAll() write recordingEnabled, and a stop may overtake a later start. *)
THEOREM IntentIsKept ==
    ASSUME OnlyTheOperator
    PROVE  Spec => []IntentKept
  <1>1. Init => IndInv /\ WishInv  BY InitIndInv, InitWishInv
  <1>2. IndInv /\ WishInv /\ [Next]_vars => IndInv' /\ WishInv'
      BY NextIndInv, NextWishInv DEF IndInv
  <1>3. WishInv => IntentKept  BY DEF WishInv, IntentKept
  <1>4. QED  BY <1>1, <1>2, <1>3, PTL DEF Spec
=============================================================================
