---------------------------- MODULE ConfigDelivery ----------------------------
(***************************************************************************)
(* How a decision taken at the central reaches an installation:            *)
(* central/src/server.js keeps the desired configuration and a revision,   *)
(* the installation asks for it with a heartbeat (cloud-connector.service  *)
(* .ts), stores it key by key, enforces it, and reports with the next      *)
(* heartbeat which revision it has applied.  The rest of the installation  *)
(* reads the stored keys through commercial-policy.service.ts.             *)
(*                                                                         *)
(* A set of granted features stands for the map of restrictions; only the  *)
(* features the model tells apart are named.  GRACE behaves as ACTIVE.     *)
(***************************************************************************)
EXTENDS Naturals, FiniteSets

CONSTANTS
    Storages,             \* what the panel may provision
    AiPolicies,           \* what it may set for the AI: [motion, heavy]
    Licenses,             \* what it may set for the contract
    Null,                 \* no storage, no value yet
    MaxChanges, MaxFaults \* bounds

Features == {"localRecording", "addCameras", "aiAdvanced", "aiMotion"}
Keys     == {"license", "granted", "storage"}

(* What the central may answer. *)
Responses ==
    [license : Licenses \cup {"ACTIVE"}, granted : SUBSET Features,
     storage : Storages \cup {Null}, rev : Nat]

ASSUME DeliveryConstants ==
    /\ AiPolicies \subseteq [motion : BOOLEAN, heavy : BOOLEAN]
    /\ Licenses \subseteq {"ACTIVE", "RESTRICTED", "SUSPENDED"}
    /\ Null \notin Storages \cup Responses /\ MaxChanges \in Nat /\ MaxFaults \in Nat


VARIABLES
    cen,        \* what the central wants: [license, motion, heavy, storage]
    rev,        \* configRevision
    reported,   \* appliedConfigRevision and configApplyStatus, as last reported
    touched,    \* updatedAt is later than lastHeartbeatAt
    late,       \* heartbeats the installation has given up that may still arrive
    inst,       \* the stored keys, and [rev, status] of the application
    sync,       \* syncHeartbeat in progress: [pc, req, resp, failed]
    writes,     \* writes of keys under way
    recorder, analysis, \* "off", "starting" (the policy has been read) or "on"
    changes, faults

central == <<cen, rev, reported, touched>>
vars == <<central, late, inst, sync, writes, recorder, analysis, changes, faults>>

Fault == faults < MaxFaults /\ faults' = faults + 1

-----------------------------------------------------------------------------
(* The central.                                                            *)

(* What a licence grants; the panel's policy for the AI restricts below it. *)
LicenseGrants(l) ==
    Features \ CASE l = "SUSPENDED"  -> {"localRecording", "addCameras", "aiAdvanced"}
                 [] l = "RESTRICTED" -> {"addCameras", "aiAdvanced"}
                 [] OTHER            -> {}

Granted(c) ==
    LicenseGrants(c.license) \ ((IF c.motion THEN {} ELSE {"aiMotion"})
                                \cup (IF c.heavy THEN {} ELSE {"aiAdvanced"}))

\* mutant: the revision is announced before it exists
LicenseResponse_Ahead ==
    [license |-> cen.license, granted |-> Granted(cen), storage |-> cen.storage, rev |-> rev + 1]

(* The answer to a heartbeat.  A suspended installation gets no storage. *)
LicenseResponse ==
    [license |-> cen.license, granted |-> Granted(cen),
     storage |-> IF cen.license = "SUSPENDED" THEN Null ELSE cen.storage, rev |-> rev]

(* What the panel shows as pending. *)
PolicyPending ==
    IF rev > 0 THEN reported.rev < rev \/ reported.status = "FAILED" ELSE touched

BumpConfigRevision == rev' = rev + 1

Patch(c) ==
    /\ changes < MaxChanges /\ changes' = changes + 1
    /\ cen' = c /\ touched' = TRUE
    /\ UNCHANGED <<reported, late, inst, sync, writes, recorder, analysis, faults>>

PatchAiPolicy(p) == Patch([cen EXCEPT !.motion = p.motion, !.heavy = p.heavy]) /\ BumpConfigRevision

PatchCloudStorage(s) == Patch([cen EXCEPT !.storage = s]) /\ BumpConfigRevision

(* The licence has no revision. *)
PatchLicense(l) == Patch([cen EXCEPT !.license = l]) /\ UNCHANGED rev

HandleHeartbeat(m) ==
    /\ reported' = m /\ touched' = FALSE
    /\ UNCHANGED <<cen, rev>>

-----------------------------------------------------------------------------
(* syncHeartbeat.                                                          *)

Quiet == [pc |-> "idle", req |-> Null, resp |-> Null, failed |-> FALSE]

rest == <<recorder, analysis, changes>>

Unknown == [rev |-> 0, status |-> "UNKNOWN"]

(* The payload holds what was applied last, or nothing of it when the keys
   cannot be read.  A write of the last call has ended by now: the interval is
   longer than a statement may take. *)
CollectPayload ==
    /\ sync.pc = "idle" /\ writes = {}
    /\ \/ /\ sync' = [Quiet EXCEPT !.pc = "sent",
                                  !.req = [rev |-> inst.rev, status |-> inst.status]]
          /\ UNCHANGED faults
       \/ /\ Fault
          /\ sync' = [Quiet EXCEPT !.pc = "sent", !.req = Unknown]
    /\ UNCHANGED <<central, late, inst, writes, rest>>

Heartbeat ==
    /\ sync.pc = "sent"
    /\ HandleHeartbeat(sync.req)
    /\ sync' = [sync EXCEPT !.pc = "answered", !.req = Null, !.resp = LicenseResponse]
    /\ UNCHANGED <<late, inst, writes, rest, faults>>

(* The request is lost, or late, or its answer is lost: a timeout. *)
TimeOut ==
    /\ sync.pc \in {"sent", "answered"} /\ Fault
    /\ \/ UNCHANGED late
       \/ sync.pc = "sent" /\ late' = late \cup {sync.req}
    /\ sync' = Quiet
    /\ UNCHANGED <<central, inst, writes, rest>>

LateHeartbeat(m) ==
    /\ m \in late /\ late' = late \ {m}
    /\ HandleHeartbeat(m)
    /\ UNCHANGED <<inst, sync, writes, rest, faults>>

\* mutant: a revision that has been applied is not applied again
Receive_New ==
    /\ sync.pc = "answered"
    /\ IF sync.resp.rev = inst.rev /\ inst.status = "APPLIED"
       THEN sync' = Quiet /\ UNCHANGED writes
       ELSE sync' = [sync EXCEPT !.pc = "writing"] /\ writes' = Keys
    /\ UNCHANGED <<central, late, inst, rest, faults>>

(* The keys are written side by side. *)
Receive ==
    /\ sync.pc = "answered"
    /\ sync' = [sync EXCEPT !.pc = "writing"] /\ writes' = Keys
    /\ UNCHANGED <<central, late, inst, rest, faults>>

(* The last write ends the wait; so does the first failure, while the other
   writes go on. *)
Write(k) ==
    LET left == writes \ {k}
    IN  /\ k \in writes /\ writes' = left
        /\ \/ /\ inst' = [inst EXCEPT ![k] = sync.resp[k]]
              /\ sync' = IF left # {} THEN sync
                         ELSE IF sync.pc = "writing" THEN [sync EXCEPT !.pc = "recordings"]
                         ELSE IF sync.pc = "idle" THEN Quiet ELSE sync
              /\ UNCHANGED faults
           \/ /\ Fault
              /\ sync' = IF sync.pc = "writing" THEN [sync EXCEPT !.pc = "mark", !.failed = TRUE]
                         ELSE IF left = {} /\ sync.pc = "idle" THEN Quiet ELSE sync
              /\ UNCHANGED inst
        /\ UNCHANGED <<central, late, rest>>

\* mutant: recordings are stopped when the licence changes
MustStopRecording_Edge == "localRecording" \notin sync.resp.granted /\ inst.rev < sync.resp.rev

MustStopRecording == "localRecording" \notin sync.resp.granted

(* stopAll of the recorders; its failure is only logged. *)
EnforceRecording ==
    /\ sync.pc = "recordings"
    /\ \/ /\ MustStopRecording
          /\ recorder' = IF recorder = "on" THEN "off" ELSE recorder
          /\ UNCHANGED faults
       \/ MustStopRecording /\ Fault /\ UNCHANGED recorder
       \/ ~MustStopRecording /\ UNCHANGED <<recorder, faults>>
    /\ sync' = [sync EXCEPT !.pc = "ai"]
    /\ UNCHANGED <<central, late, inst, writes, analysis, changes>>

\* mutant: anything that is granted keeps the analysis
MustStopAnalysis_Any == {"aiMotion", "aiAdvanced"} \cap sync.resp.granted = {}

MustStopAnalysis == "aiMotion" \notin sync.resp.granted

EnforceAi ==
    /\ sync.pc = "ai"
    /\ \/ /\ MustStopAnalysis
          /\ analysis' = IF analysis = "on" THEN "off" ELSE analysis
          /\ UNCHANGED faults
       \/ MustStopAnalysis /\ Fault /\ UNCHANGED analysis
       \/ ~MustStopAnalysis /\ UNCHANGED <<analysis, faults>>
    /\ sync' = [sync EXCEPT !.pc = "mark"]
    /\ UNCHANGED <<central, late, inst, writes, recorder, changes>>

\* mutant: a failure to store is not a failure to apply
ApplyStatus_Applied == "APPLIED"

ApplyStatus == IF sync.failed THEN "FAILED" ELSE "APPLIED"

(* The status and the revision are two writes, and each may fail. *)
Mark ==
    LET st == [inst EXCEPT !.status = ApplyStatus]
        rv(i) == IF ApplyStatus = "APPLIED" THEN [i EXCEPT !.rev = sync.resp.rev] ELSE i
    IN  /\ sync.pc = "mark"
        /\ \/ inst' = rv(st) /\ UNCHANGED faults
           \/ Fault /\ inst' \in {st, rv(inst), inst}
        /\ sync' = IF writes = {} THEN Quiet ELSE [sync EXCEPT !.pc = "idle"]
        /\ UNCHANGED <<central, late, writes, rest>>

(* The API restarts: no call is left, and neither are the recorders.  The
   analysis runs in a service of its own. *)
Crash ==
    /\ Fault
    /\ sync' = Quiet /\ writes' = {} /\ recorder' = "off"
    /\ analysis' = IF analysis = "starting" THEN "off" ELSE analysis
    /\ UNCHANGED <<central, late, inst, changes>>

-----------------------------------------------------------------------------
(* Those who read the policy.                                              *)

(* getPolicy: the caps of the licence are whole maps, and are laid over what
   the central has sent. *)
Allowed ==
    IF inst.license \in {"RESTRICTED", "SUSPENDED"} THEN LicenseGrants(inst.license)
    ELSE inst.granted

StartRecording ==
    /\ recorder = "off" /\ "localRecording" \in Allowed
    /\ recorder' = "starting"
    /\ UNCHANGED <<central, late, inst, sync, writes, analysis, changes, faults>>

SpawnRecorder ==
    /\ recorder = "starting" /\ recorder' = "on"
    /\ UNCHANGED <<central, late, inst, sync, writes, analysis, changes, faults>>

(* The watchdog and syncAll start what is missing when motion is allowed, or
   when the policy cannot be read. *)
StartAnalysis ==
    /\ analysis = "off"
    /\ \/ "aiMotion" \in Allowed /\ UNCHANGED faults
       \/ Fault
    /\ analysis' = "starting"
    /\ UNCHANGED <<central, late, inst, sync, writes, recorder, changes>>

SpawnAnalysis ==
    /\ analysis = "starting" /\ analysis' = "on"
    /\ UNCHANGED <<central, late, inst, sync, writes, recorder, changes, faults>>

(* syncAll stops everything when motion is not allowed. *)
StopAnalysis ==
    /\ analysis = "on" /\ "aiMotion" \notin Allowed
    /\ analysis' = "off"
    /\ UNCHANGED <<central, late, inst, sync, writes, recorder, changes, faults>>

-----------------------------------------------------------------------------
Init ==
    (* the installation has been seen once, and has not got an answer yet *)
    /\ cen = [license |-> "ACTIVE", motion |-> TRUE, heavy |-> FALSE, storage |-> Null]
    /\ rev = 0 /\ reported = Unknown /\ touched = FALSE
    /\ late = {} /\ sync = Quiet /\ writes = {}
    /\ inst = [license |-> "UNKNOWN", granted |-> Features, storage |-> Null,
               rev |-> 0, status |-> "UNKNOWN"]
    /\ recorder = "off" /\ analysis = "off"
    /\ changes = 0 /\ faults = 0

SyncStep ==
    \/ CollectPayload \/ Heartbeat \/ Receive
    \/ EnforceRecording \/ EnforceAi \/ Mark
    \/ \E k \in Keys : Write(k)

Next ==
    \/ \E p \in AiPolicies : PatchAiPolicy(p)
    \/ \E s \in Storages \cup {Null} : PatchCloudStorage(s)
    \/ \E l \in Licenses : PatchLicense(l)
    \/ SyncStep \/ TimeOut \/ Crash
    \/ \E m \in late : LateHeartbeat(m)
    \/ StartRecording \/ SpawnRecorder
    \/ StartAnalysis \/ SpawnAnalysis \/ StopAnalysis

(* The timer calls syncHeartbeat, which goes on after each await; a start that
   has read the policy goes on. *)
Fairness == WF_vars(SyncStep) /\ WF_vars(SpawnRecorder) /\ WF_vars(SpawnAnalysis)

Spec == Init /\ [][Next]_vars /\ Fairness

-----------------------------------------------------------------------------
(* What the delivery promises.                                             *)

(* Every variable has its type; no revision is ahead of the one it comes from:
   reported, applied and desired, in this order. *)
TypeOK ==
    /\ reported.rev <= inst.rev /\ inst.rev <= rev
    /\ inst.granted \subseteq Features /\ inst.license \in Licenses \cup {"UNKNOWN", "ACTIVE"}
    /\ writes \subseteq Keys /\ (writes # {} => sync.resp # Null)
    /\ sync.pc \in {"idle", "sent", "answered", "writing", "recordings", "ai", "mark"}

(* The panel tells the truth: once nothing is pending, the installation has
   the panel's switch for motion, no heavy analysis the panel has not given,
   and no storage but the one that is provisioned -- through lost, late and
   repeated heartbeats, partial writes and restarts. *)
PanelTellsTheTruth ==
    rev > 0 /\ ~PolicyPending =>
        /\ "aiMotion" \in inst.granted <=> cen.motion
        /\ "aiAdvanced" \in inst.granted => cen.heavy
        /\ inst.storage \in {Null, cen.storage}

(* Once the changes end, everything arrives, the licence too, and the panel
   says so. *)
ConfigArrives ==
    <>[](/\ ~PolicyPending
         /\ inst.license = cen.license /\ inst.granted = Granted(cen)
         /\ inst.storage = LicenseResponse.storage)

(* A suspension stops the recorders for good, those too that were being
   started while it arrived. *)
SuspensionBites == <>[](cen.license = "SUSPENDED") => <>[](recorder = "off")

(* The switch for motion stops the analysis for good, while the licence caps
   nothing. *)
MotionOffStops ==
    <>[](~cen.motion /\ cen.license = "ACTIVE") => <>[](analysis = "off")

(* enforceAiRestrictions: "sem ele, nenhuma analise deve rodar", under every
   licence. *)
NoMotionNoAnalysis == <>[](~cen.motion) => <>[](analysis = "off")
=============================================================================
