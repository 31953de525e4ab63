------------------------- MODULE ConfigDeliveryProofs -------------------------
(***************************************************************************)
(* The panel of the central tells the truth, for any storages, policies    *)
(* and licences, any number of changes, and any number of heartbeats that  *)
(* are lost, late or repeated, writes that fail and restarts.              *)
(*                                                                         *)
(* The argument: a revision is reported only when it was applied, and      *)
(* applied only when all three keys of the answer that carried it were     *)
(* stored.  A later answer, or what is left of an earlier one, carries a   *)
(* revision that is not smaller; so while the desired revision is the      *)
(* applied one, every write brings what the central wants.                 *)
(***************************************************************************)
EXTENDS ConfigDelivery, TLAPS

Reports == [rev : Nat, status : {"UNKNOWN", "APPLIED", "FAILED"}]

SyncPcs == {"idle", "sent", "answered", "writing", "recordings", "ai", "mark"}

CenRec ==
    [license : Licenses \cup {"ACTIVE"}, motion : BOOLEAN, heavy : BOOLEAN,
     storage : Storages \cup {Null}]

InstRec ==
    [license : Licenses \cup {"UNKNOWN", "ACTIVE"}, granted : SUBSET Features,
     storage : Storages \cup {Null}, rev : Nat, status : {"UNKNOWN", "APPLIED", "FAILED"}]

SyncRec ==
    [pc : SyncPcs, req : Reports \cup {Null}, resp : Responses \cup {Null}, failed : BOOLEAN]

TypeInv ==
    /\ cen \in CenRec /\ rev \in Nat
    /\ reported \in Reports /\ late \subseteq Reports
    /\ inst \in InstRec /\ sync \in SyncRec /\ writes \subseteq Keys

(* What is granted and provisioned agrees with what the panel wants. *)
Agrees(granted, storage) ==
    /\ "aiMotion" \in granted <=> cen.motion
    /\ "aiAdvanced" \in granted => cen.heavy
    /\ storage \in {Null, cen.storage}

(* No report is ahead of what is applied, and nothing applied ahead of what is
   desired. *)
RevisionsInOrder ==
    /\ reported.rev <= inst.rev /\ inst.rev <= rev
    /\ \A m \in late : m.rev <= inst.rev
    /\ sync.pc = "sent" => sync.req \in Reports /\ sync.req.rev <= inst.rev

(* An answer that is kept is not behind what is applied, and has what the
   panel wants unless it is behind that. *)
AnswerOK ==
    /\ sync.pc \in {"answered", "writing", "recordings", "ai", "mark"} \/ writes # {}
          => sync.resp \in Responses
    /\ sync.resp \in Responses =>
          /\ inst.rev <= sync.resp.rev /\ sync.resp.rev <= rev
          /\ sync.resp.rev = rev => Agrees(sync.resp.granted, sync.resp.storage)

(* How far the storing of an answer has got. *)
StoringOK ==
    /\ writes # {} => sync.pc \in {"idle", "writing", "mark"}
    /\ sync.pc \in {"sent", "answered", "writing", "recordings", "ai"} => ~sync.failed
    /\ sync.pc = "mark" /\ ~sync.failed => writes = {}
    /\ sync.pc \in {"writing", "recordings", "ai", "mark"} /\ ~sync.failed
          => \A k \in Keys \ writes : inst[k] = sync.resp[k]

(* The inductive invariant. *)
DeliveryInv ==
    /\ TypeInv /\ RevisionsInOrder /\ AnswerOK /\ StoringOK
    /\ rev > 0 /\ inst.rev = rev => Agrees(inst.granted, inst.storage)

-----------------------------------------------------------------------------
(* An answer agrees with the panel at the moment it is given: every licence
   leaves the switch for motion alone, and the panel only takes away. *)
LEMMA AnswerAgrees ==
    ASSUME TypeInv
    PROVE  /\ LicenseResponse \in Responses
           /\ LicenseResponse.rev = rev
           /\ Agrees(LicenseResponse.granted, LicenseResponse.storage)
<1>1. cen.license \in Licenses \cup {"ACTIVE"} /\ cen.motion \in BOOLEAN /\ cen.heavy \in BOOLEAN
      /\ cen.storage \in Storages \cup {Null} /\ rev \in Nat
  BY DEF TypeInv, CenRec
<1>2. LicenseGrants(cen.license) \subseteq Features /\ "aiMotion" \in LicenseGrants(cen.license)
  BY DEF LicenseGrants, Features
<1>3. /\ Granted(cen) \subseteq Features
      /\ "aiMotion" \in Granted(cen) <=> cen.motion
      /\ "aiAdvanced" \in Granted(cen) => cen.heavy
  BY <1>1, <1>2 DEF Granted
<1> QED BY <1>1, <1>3 DEF LicenseResponse, Responses, Agrees

(* A change of the panel.  Whatever is not of the licence takes a new revision,
   so that nothing stored and no answer has it yet. *)
LEMMA PatchKeeps ==
    ASSUME DeliveryInv, NEW c \in CenRec, Patch(c),
           \/ rev' = rev + 1
           \/ /\ rev' = rev
              /\ c.motion = cen.motion /\ c.heavy = cen.heavy /\ c.storage = cen.storage
    PROVE  DeliveryInv'
<1>1. cen' = c /\ UNCHANGED <<reported, late, inst, sync, writes>>
  BY DEF Patch
<1>2. TypeInv'
  BY <1>1 DEF DeliveryInv, TypeInv
<1>3. /\ inst.rev \in Nat /\ rev \in Nat /\ reported.rev \in Nat
      /\ inst.rev <= rev /\ rev' >= rev /\ rev' \in Nat
      /\ sync.resp \in Responses => sync.resp.rev \in Nat /\ sync.resp.rev <= rev
  BY DEF DeliveryInv, TypeInv, InstRec, Reports, Responses, RevisionsInOrder, AnswerOK
<1>4. RevisionsInOrder'
  BY <1>1, <1>3 DEF DeliveryInv, RevisionsInOrder
<1>5. rev' = rev => \A g, s : Agrees(g, s) => Agrees(g, s)'
  BY <1>1, <1>3 DEF Agrees
<1>6. AnswerOK'
  BY <1>1, <1>3, <1>5 DEF DeliveryInv, AnswerOK, Agrees
<1>7. StoringOK'
  BY <1>1 DEF DeliveryInv, StoringOK
<1>8. (rev > 0 /\ inst.rev = rev => Agrees(inst.granted, inst.storage))'
  BY <1>1, <1>3, <1>5 DEF DeliveryInv, Agrees
<1> QED BY <1>2, <1>4, <1>6, <1>7, <1>8 DEF DeliveryInv

(* The three changes of the panel. *)
LEMMA PatchesKeep ==
    ASSUME DeliveryInv,
           \/ \E p \in AiPolicies : PatchAiPolicy(p)
           \/ \E s \in Storages \cup {Null} : PatchCloudStorage(s)
           \/ \E l \in Licenses : PatchLicense(l)
    PROVE  DeliveryInv'
<1>1. cen \in CenRec
  BY DEF DeliveryInv, TypeInv
<1>2. ASSUME NEW p \in AiPolicies, PatchAiPolicy(p)
      PROVE  DeliveryInv'
  <2> DEFINE c == [cen EXCEPT !.motion = p.motion, !.heavy = p.heavy]
  <2>1. c \in CenRec
    BY <1>1, DeliveryConstants DEF CenRec
  <2>2. Patch(c) /\ rev' = rev + 1
    BY <1>2 DEF PatchAiPolicy, BumpConfigRevision
  <2> QED BY <2>1, <2>2, PatchKeeps
<1>3. ASSUME NEW s \in Storages \cup {Null}, PatchCloudStorage(s)
      PROVE  DeliveryInv'
  <2> DEFINE c == [cen EXCEPT !.storage = s]
  <2>1. c \in CenRec
    BY <1>1 DEF CenRec
  <2>2. Patch(c) /\ rev' = rev + 1
    BY <1>3 DEF PatchCloudStorage, BumpConfigRevision
  <2> QED BY <2>1, <2>2, PatchKeeps
<1>4. ASSUME NEW l \in Licenses, PatchLicense(l)
      PROVE  DeliveryInv'
  <2> DEFINE c == [cen EXCEPT !.license = l]
  <2>1. /\ c \in CenRec
        /\ c.motion = cen.motion /\ c.heavy = cen.heavy /\ c.storage = cen.storage
    BY <1>1 DEF CenRec
  <2>2. Patch(c) /\ rev' = rev
    BY <1>4 DEF PatchLicense
  <2> QED BY <2>1, <2>2, PatchKeeps
<1> QED BY <1>2, <1>3, <1>4

(* The record of a call of syncHeartbeat that is not active. *)
LEMMA QuietRec ==
    Quiet \in SyncRec /\ Quiet.pc = "idle" /\ Quiet.resp \notin Responses
BY DeliveryConstants DEF Quiet, SyncRec, SyncPcs

(* A call may end at any time, once its writes have ended with it. *)
LEMMA QuietKeeps ==
    ASSUME DeliveryInv, sync' = Quiet, writes' = {}, UNCHANGED <<cen, rev, inst>>,
           reported' = reported, late' \subseteq Reports,
           \A m \in late' : m.rev <= inst.rev
    PROVE  DeliveryInv'
<1>1. TypeInv'
  BY QuietRec DEF DeliveryInv, TypeInv
<1>2. RevisionsInOrder'
  BY QuietRec DEF DeliveryInv, RevisionsInOrder
<1>3. AnswerOK' /\ StoringOK'
  BY QuietRec DEF AnswerOK, StoringOK
<1> QED BY <1>1, <1>2, <1>3 DEF DeliveryInv, Agrees

(* The payload says what is applied now, or nothing of it. *)
LEMMA CollectPayloadKeeps ==
    ASSUME DeliveryInv, CollectPayload
    PROVE  DeliveryInv'
<1>1. /\ sync'.pc = "sent" /\ sync'.resp = Null /\ ~sync'.failed
      /\ sync'.req \in {[rev |-> inst.rev, status |-> inst.status], Unknown}
      /\ UNCHANGED <<cen, rev, reported, late, inst, writes>> /\ writes = {}
  BY DEF CollectPayload, Quiet, central
<1>2. sync'.req \in Reports /\ sync'.req.rev <= inst.rev /\ inst.rev \in Nat
  BY <1>1 DEF DeliveryInv, TypeInv, InstRec, Reports, Unknown
<1>3. sync' \in SyncRec
  BY <1>2 DEF CollectPayload, Quiet, SyncRec, SyncPcs
<1>4. TypeInv'
  BY <1>1, <1>3 DEF DeliveryInv, TypeInv
<1>5. RevisionsInOrder'
  BY <1>1, <1>2 DEF DeliveryInv, RevisionsInOrder
<1>6. AnswerOK' /\ StoringOK'
  BY <1>1, DeliveryConstants DEF AnswerOK, StoringOK
<1> QED BY <1>1, <1>4, <1>5, <1>6 DEF DeliveryInv, Agrees

(* The central notes the report and answers with what it wants now. *)
LEMMA HeartbeatKeeps ==
    ASSUME DeliveryInv, Heartbeat
    PROVE  DeliveryInv'
<1>1. /\ sync \in SyncRec /\ sync.pc = "sent" /\ reported' = sync.req
      /\ sync' = [sync EXCEPT !.pc = "answered", !.req = Null, !.resp = LicenseResponse]
      /\ UNCHANGED <<cen, rev, late, inst, writes>>
  BY DEF DeliveryInv, TypeInv, Heartbeat, HandleHeartbeat
<1>2. /\ LicenseResponse \in Responses /\ LicenseResponse.rev = rev
      /\ Agrees(LicenseResponse.granted, LicenseResponse.storage)
  BY AnswerAgrees DEF DeliveryInv
<1>3. /\ sync' \in SyncRec /\ sync'.pc = "answered" /\ sync'.resp = LicenseResponse
      /\ sync'.failed = sync.failed
  BY <1>1, <1>2 DEF SyncRec, SyncPcs
<1>4. sync.req \in Reports /\ sync.req.rev <= inst.rev /\ ~sync.failed /\ writes = {}
  BY <1>1 DEF DeliveryInv, RevisionsInOrder, StoringOK
<1>5. inst.rev \in Nat /\ rev \in Nat /\ inst.rev <= rev
  BY DEF DeliveryInv, TypeInv, InstRec, RevisionsInOrder
<1>6. TypeInv'
  BY <1>1, <1>3, <1>4 DEF DeliveryInv, TypeInv
<1>7. RevisionsInOrder'
  BY <1>1, <1>3, <1>4, <1>5 DEF DeliveryInv, RevisionsInOrder
<1>8. AnswerOK'
  BY <1>1, <1>2, <1>3, <1>5 DEF AnswerOK, Agrees
<1>9. StoringOK'
  BY <1>1, <1>3, <1>4 DEF StoringOK
<1> QED BY <1>1, <1>6, <1>7, <1>8, <1>9 DEF DeliveryInv, Agrees

(* A request that is given up may arrive later, with the revision it had. *)
LEMMA TimeOutKeeps ==
    ASSUME DeliveryInv, TimeOut
    PROVE  DeliveryInv'
<1>1. /\ sync' = Quiet /\ UNCHANGED <<cen, rev, reported, inst, writes>>
      /\ sync.pc \in {"sent", "answered"}
      /\ late' = late \/ (sync.pc = "sent" /\ late' = late \cup {sync.req})
  BY DEF TimeOut, central
<1>2. writes' = {}
  BY <1>1 DEF DeliveryInv, StoringOK
<1>3. late' \subseteq Reports /\ \A m \in late' : m.rev <= inst.rev
  BY <1>1 DEF DeliveryInv, TypeInv, RevisionsInOrder
<1> QED BY <1>1, <1>2, <1>3, QuietKeeps

(* A late report is behind what is applied, and may take the panel back. *)
LEMMA LateHeartbeatKeeps ==
    ASSUME DeliveryInv, NEW m \in late, LateHeartbeat(m)
    PROVE  DeliveryInv'
<1>1. reported' = m /\ late' = late \ {m} /\ UNCHANGED <<cen, rev, inst, sync, writes>>
  BY DEF LateHeartbeat, HandleHeartbeat
<1>2. m \in Reports /\ m.rev <= inst.rev
  BY DEF DeliveryInv, TypeInv, RevisionsInOrder
<1>3. TypeInv' /\ RevisionsInOrder'
  BY <1>1, <1>2 DEF DeliveryInv, TypeInv, RevisionsInOrder
<1>4. AnswerOK' /\ StoringOK'
  BY <1>1 DEF DeliveryInv, AnswerOK, StoringOK, Agrees
<1> QED BY <1>1, <1>3, <1>4 DEF DeliveryInv, Agrees

(* All three writes start. *)
LEMMA ReceiveKeeps ==
    ASSUME DeliveryInv, Receive
    PROVE  DeliveryInv'
<1>1. /\ sync \in SyncRec /\ sync.pc = "answered"
      /\ sync' = [sync EXCEPT !.pc = "writing"] /\ writes' = Keys
      /\ UNCHANGED <<cen, rev, reported, late, inst>>
  BY DEF DeliveryInv, TypeInv, Receive, central
<1>2. /\ sync' \in SyncRec /\ sync'.pc = "writing" /\ sync'.resp = sync.resp
      /\ sync'.failed = sync.failed
  BY <1>1 DEF SyncRec, SyncPcs
<1>3. sync.resp \in Responses /\ ~sync.failed
  BY <1>1 DEF DeliveryInv, AnswerOK, StoringOK
<1>4. TypeInv' /\ RevisionsInOrder'
  BY <1>1, <1>2 DEF DeliveryInv, TypeInv, RevisionsInOrder
<1>5. AnswerOK'
  BY <1>1, <1>2, <1>3 DEF DeliveryInv, AnswerOK, Agrees
<1>6. StoringOK'
  BY <1>1, <1>2, <1>3 DEF StoringOK
<1> QED BY <1>1, <1>4, <1>5, <1>6 DEF DeliveryInv, Agrees

(* What storing one key of an answer does to the installation. *)
LEMMA StoreKey ==
    ASSUME DeliveryInv, NEW k \in writes, inst' = [inst EXCEPT ![k] = sync.resp[k]]
    PROVE  /\ inst' \in InstRec /\ inst'.rev = inst.rev
           /\ inst'[k] = sync.resp[k]
           /\ \A l \in Keys : l # k => inst'[l] = inst[l]
           /\ rev > 0 /\ inst.rev = rev => Agrees(inst'.granted, inst'.storage)
<1>1. inst \in InstRec /\ k \in Keys /\ sync.resp \in Responses
  BY DEF DeliveryInv, TypeInv, AnswerOK
<1>2. inst.rev = rev => sync.resp.rev = rev
  BY <1>1 DEF DeliveryInv, TypeInv, AnswerOK, InstRec, Responses
<1>3. inst.rev = rev => Agrees(sync.resp.granted, sync.resp.storage)
  BY <1>1, <1>2 DEF DeliveryInv, AnswerOK
<1>4. rev > 0 /\ inst.rev = rev => Agrees(inst.granted, inst.storage)
  BY DEF DeliveryInv
<1>5. CASE k = "license"
  <2>1. inst' = [inst EXCEPT !.license = sync.resp.license]
    BY <1>5
  <2> QED BY <1>1, <1>4, <1>5, <2>1 DEF InstRec, Responses, Keys, Agrees
<1>6. CASE k = "granted"
  <2>1. inst' = [inst EXCEPT !.granted = sync.resp.granted]
    BY <1>6
  <2> QED BY <1>1, <1>3, <1>4, <1>6, <2>1 DEF InstRec, Responses, Keys, Agrees
<1>7. CASE k = "storage"
  <2>1. inst' = [inst EXCEPT !.storage = sync.resp.storage]
    BY <1>7
  <2> QED BY <1>1, <1>3, <1>4, <1>7, <2>1 DEF InstRec, Responses, Keys, Agrees
<1> QED BY <1>1, <1>5, <1>6, <1>7 DEF Keys

(* One write ends; those that are left go on, under the same answer. *)
LEMMA WriteKeeps ==
    ASSUME DeliveryInv, NEW k \in Keys, Write(k)
    PROVE  DeliveryInv'
<1>1. /\ k \in writes /\ writes' = writes \ {k}
      /\ UNCHANGED <<cen, rev, reported, late>>
  BY DEF Write, central
<1>2. /\ sync \in SyncRec /\ sync.resp \in Responses /\ writes \subseteq Keys
      /\ sync.pc \in {"idle", "writing", "mark"} /\ rev \in Nat
  BY <1>1 DEF DeliveryInv, TypeInv, AnswerOK, StoringOK
<1>3. \/ inst' = inst
      \/ inst' = [inst EXCEPT ![k] = sync.resp[k]]
  BY DEF Write
<1>4. /\ inst' \in InstRec /\ inst'.rev = inst.rev
      /\ rev > 0 /\ inst.rev = rev => Agrees(inst'.granted, inst'.storage)
  BY <1>1, <1>3, StoreKey DEF DeliveryInv, TypeInv
<1>5. CASE sync' = Quiet /\ writes' = {}
  <2>1. TypeInv' /\ RevisionsInOrder'
    BY <1>1, <1>4, <1>5, QuietRec DEF DeliveryInv, TypeInv, RevisionsInOrder
  <2>2. AnswerOK' /\ StoringOK'
    BY <1>5, QuietRec DEF AnswerOK, StoringOK
  <2> QED BY <1>1, <1>4, <2>1, <2>2 DEF DeliveryInv, Agrees
<1>6. ASSUME sync' \in SyncRec, sync'.resp = sync.resp, sync'.pc # "sent", StoringOK'
      PROVE  DeliveryInv'
  <2>1. TypeInv' /\ RevisionsInOrder'
    BY <1>1, <1>4, <1>6 DEF DeliveryInv, TypeInv, RevisionsInOrder
  <2>2. AnswerOK'
    BY <1>1, <1>2, <1>4, <1>6 DEF DeliveryInv, AnswerOK, Agrees
  <2> QED BY <1>1, <1>4, <1>6, <2>1, <2>2 DEF DeliveryInv, Agrees
<1>7. CASE /\ inst' = [inst EXCEPT ![k] = sync.resp[k]]
           /\ sync' = sync \/ (writes' = {} /\ sync.pc = "writing" /\ sync' = [sync EXCEPT !.pc = "recordings"])
  <2>1. /\ sync' \in SyncRec /\ sync'.resp = sync.resp /\ sync'.failed = sync.failed
        /\ sync'.pc \in {sync.pc, "recordings"}
        /\ sync'.pc = "recordings" => sync.pc = "writing" /\ writes' = {}
    BY <1>2, <1>7 DEF SyncRec, SyncPcs
  <2>2. inst'[k] = sync.resp[k] /\ \A l \in Keys : l # k => inst'[l] = inst[l]
    BY <1>1, <1>7, StoreKey
  <2>3. StoringOK'
    BY <1>1, <1>2, <2>1, <2>2 DEF DeliveryInv, StoringOK
  <2> QED BY <1>2, <1>6, <2>1, <2>3
<1>8. CASE /\ inst' = inst /\ sync.pc = "writing"
           /\ sync' = [sync EXCEPT !.pc = "mark", !.failed = TRUE]
  <2>1. sync' \in SyncRec /\ sync'.resp = sync.resp /\ sync'.failed /\ sync'.pc = "mark"
    BY <1>2, <1>8 DEF SyncRec, SyncPcs
  <2>2. StoringOK'
    BY <2>1 DEF StoringOK
  <2> QED BY <1>6, <2>1, <2>2
<1>9. CASE inst' = inst /\ sync' = sync /\ sync.pc # "writing"
  <2>1. sync.pc = "mark" => sync.failed
    BY <1>1 DEF DeliveryInv, StoringOK
  <2>2. StoringOK'
    BY <1>1, <1>2, <1>9, <2>1 DEF StoringOK
  <2> QED BY <1>2, <1>6, <1>9, <2>2
<1> QED BY <1>5, <1>7, <1>8, <1>9 DEF Write

(* What a call does besides storing: the answer it keeps stays. *)
LEMMA PcKeeps ==
    ASSUME DeliveryInv, sync.pc \in {"recordings", "ai"}, NEW pc \in {"ai", "mark"},
           sync' = [sync EXCEPT !.pc = pc], UNCHANGED <<central, late, inst, writes>>
    PROVE  DeliveryInv'
<1>1. /\ sync' \in SyncRec /\ sync'.pc = pc /\ sync'.resp = sync.resp
      /\ sync'.failed = sync.failed
  BY DEF DeliveryInv, TypeInv, SyncRec, SyncPcs
<1>2. writes = {} /\ ~sync.failed
  BY DEF DeliveryInv, StoringOK
<1>3. TypeInv' /\ RevisionsInOrder'
  BY <1>1 DEF DeliveryInv, TypeInv, RevisionsInOrder, central
<1>4. AnswerOK'
  BY <1>1 DEF DeliveryInv, AnswerOK, Agrees, central
<1>5. StoringOK'
  BY <1>1, <1>2 DEF DeliveryInv, StoringOK
<1> QED BY <1>3, <1>4, <1>5 DEF DeliveryInv, Agrees, central

(* Recorders and analyses are stopped, or are not: the delivery goes on. *)
LEMMA EnforceKeeps ==
    ASSUME DeliveryInv, EnforceRecording \/ EnforceAi
    PROVE  DeliveryInv'
<1>1. CASE EnforceRecording
  BY <1>1, PcKeeps DEF EnforceRecording
<1>2. CASE EnforceAi
  BY <1>2, PcKeeps DEF EnforceAi
<1> QED BY <1>1, <1>2

(* The revision is marked as applied after all keys have been stored, and the
   status is a write of its own. *)
LEMMA MarkKeeps ==
    ASSUME DeliveryInv, Mark
    PROVE  DeliveryInv'
<1>1. /\ sync \in SyncRec /\ inst \in InstRec /\ sync.pc = "mark" /\ sync.resp \in Responses
      /\ UNCHANGED <<cen, rev, reported, late, writes>>
      /\ sync' = IF writes = {} THEN Quiet ELSE [sync EXCEPT !.pc = "idle"]
  BY DEF DeliveryInv, TypeInv, AnswerOK, Mark, central
<1>2. /\ inst' \in InstRec
      /\ \A k \in Keys : inst'[k] = inst[k]
      /\ inst'.rev = inst.rev \/ (~sync.failed /\ inst'.rev = sync.resp.rev)
  BY <1>1 DEF Mark, ApplyStatus, InstRec, Responses, Keys
<1>3. /\ inst.rev \in Nat /\ sync.resp.rev \in Nat /\ inst'.rev \in Nat /\ rev \in Nat
      /\ reported.rev \in Nat /\ \A m \in late : m.rev \in Nat
      /\ inst.rev <= sync.resp.rev /\ sync.resp.rev <= rev
  BY <1>1, <1>2 DEF DeliveryInv, TypeInv, AnswerOK, InstRec, Responses, Reports
<1>4. inst.rev <= inst'.rev /\ inst'.rev <= sync.resp.rev
  BY <1>2, <1>3
<1>5. ~sync.failed => writes = {} /\ \A k \in Keys : inst[k] = sync.resp[k]
  BY <1>1 DEF DeliveryInv, StoringOK
<1>6. inst'.granted = inst.granted /\ inst'.storage = inst.storage
  BY <1>2 DEF Keys
<1>7. ~sync.failed => inst.granted = sync.resp.granted /\ inst.storage = sync.resp.storage
  BY <1>5 DEF Keys
<1>8. rev > 0 /\ inst'.rev = rev => Agrees(inst'.granted, inst'.storage)
  <2>1. CASE inst'.rev = inst.rev
    BY <1>6, <2>1 DEF DeliveryInv
  <2>2. CASE ~sync.failed /\ inst'.rev = sync.resp.rev
    BY <1>1, <1>6, <1>7, <2>2 DEF DeliveryInv, AnswerOK
  <2> QED BY <1>2, <2>1, <2>2
<1>9. /\ sync' \in SyncRec /\ sync'.pc = "idle" /\ sync'.resp \in {Null, sync.resp}
      /\ writes # {} => sync'.resp = sync.resp
  BY <1>1, QuietRec DEF SyncRec, SyncPcs, Quiet
<1>10. TypeInv'
  BY <1>1, <1>2, <1>9 DEF DeliveryInv, TypeInv
<1>11. RevisionsInOrder'
  BY <1>1, <1>3, <1>4, <1>9 DEF DeliveryInv, RevisionsInOrder
<1>12. AnswerOK'
  BY <1>1, <1>3, <1>4, <1>9, DeliveryConstants DEF DeliveryInv, AnswerOK, Agrees
<1>13. StoringOK'
  BY <1>1, <1>9 DEF StoringOK
<1> QED BY <1>1, <1>8, <1>10, <1>11, <1>12, <1>13 DEF DeliveryInv, Agrees

(* Those who only read the policy do not touch the delivery. *)
LEMMA ReadersKeep ==
    ASSUME DeliveryInv,
           \/ StartRecording \/ SpawnRecorder
           \/ StartAnalysis \/ SpawnAnalysis \/ StopAnalysis \/ UNCHANGED vars
    PROVE  DeliveryInv'
<1>1. UNCHANGED <<cen, rev, reported, late, inst, sync, writes>>
  BY DEF StartRecording, SpawnRecorder, StartAnalysis, SpawnAnalysis, StopAnalysis, vars, central
<1>2. TypeInv' /\ RevisionsInOrder' /\ StoringOK'
  BY <1>1 DEF DeliveryInv, TypeInv, RevisionsInOrder, StoringOK
<1>3. AnswerOK'
  BY <1>1 DEF DeliveryInv, AnswerOK, Agrees
<1> QED BY <1>1, <1>2, <1>3 DEF DeliveryInv, Agrees

-----------------------------------------------------------------------------
(* The installation starts without an answer. *)
LEMMA InitDeliveryInv == Init => DeliveryInv
<1> SUFFICES ASSUME Init PROVE DeliveryInv
  OBVIOUS
<1>1. TypeInv
  BY QuietRec DEF Init, Unknown, TypeInv, CenRec, Reports, InstRec
<1>2. RevisionsInOrder
  BY QuietRec DEF Init, Unknown, RevisionsInOrder
<1>3. AnswerOK /\ StoringOK
  BY QuietRec DEF Init, AnswerOK, StoringOK
<1> QED BY <1>1, <1>2, <1>3 DEF Init, DeliveryInv

(* Every step keeps the invariant: one case per action. *)
LEMMA StepDeliveryInv == DeliveryInv /\ [Next]_vars => DeliveryInv'
<1> SUFFICES ASSUME DeliveryInv, [Next]_vars PROVE DeliveryInv'
  OBVIOUS
<1>1. CASE \/ \E p \in AiPolicies : PatchAiPolicy(p)
           \/ \E s \in Storages \cup {Null} : PatchCloudStorage(s)
           \/ \E l \in Licenses : PatchLicense(l)
  BY <1>1, PatchesKeep
<1>2. CASE SyncStep
  BY <1>2, CollectPayloadKeeps, HeartbeatKeeps, ReceiveKeeps, EnforceKeeps, MarkKeeps, WriteKeeps
     DEF SyncStep
<1>3. CASE TimeOut
  BY <1>3, TimeOutKeeps
<1>4. CASE Crash
  <2>1. sync' = Quiet /\ writes' = {} /\ UNCHANGED <<cen, rev, reported, late, inst>>
    BY <1>4 DEF Crash, central
  <2>2. late \subseteq Reports /\ \A m \in late : m.rev <= inst.rev
    BY DEF DeliveryInv, TypeInv, RevisionsInOrder
  <2> QED BY <2>1, <2>2, QuietKeeps
<1>5. CASE \E m \in late : LateHeartbeat(m)
  BY <1>5, LateHeartbeatKeeps
<1>6. CASE \/ StartRecording \/ SpawnRecorder
           \/ StartAnalysis \/ SpawnAnalysis \/ StopAnalysis \/ UNCHANGED vars
  BY <1>6, ReadersKeep
<1> QED BY <1>1, <1>2, <1>3, <1>4, <1>5, <1>6 DEF Next

(* Every variable has its type, and no revision is ahead of the one it comes
   from: reported, applied and desired, in this order (handleHeartbeat,
   syncHeartbeat, bumpConfigRevision). *)
THEOREM DeliveryTyped == Spec => []TypeOK
<1>1. DeliveryInv => TypeOK
  BY DeliveryConstants DEF DeliveryInv, TypeInv, RevisionsInOrder, AnswerOK, TypeOK, InstRec, SyncRec, SyncPcs
<1> QED BY <1>1, InitDeliveryInv, StepDeliveryInv, PTL DEF Spec

(* Once the panel shows nothing as pending, the installation has what the
   panel wants (publicInstallation's policyPending), through lost, late and
   repeated heartbeats, partial writes and restarts. *)
THEOREM PanelIsRight == Spec => []PanelTellsTheTruth
<1>1. DeliveryInv => PanelTellsTheTruth
  <2> SUFFICES ASSUME DeliveryInv, rev > 0, ~PolicyPending
               PROVE  Agrees(inst.granted, inst.storage)
    BY DEF PanelTellsTheTruth, Agrees
  <2>1. reported.rev \in Nat /\ inst.rev \in Nat /\ rev \in Nat
    BY DEF DeliveryInv, TypeInv, Reports, InstRec
  <2>2. reported.rev <= inst.rev /\ inst.rev <= rev /\ ~(reported.rev < rev)
    BY DEF DeliveryInv, RevisionsInOrder, PolicyPending
  <2>3. inst.rev = rev
    BY <2>1, <2>2
  <2> QED BY <2>3 DEF DeliveryInv
<1> QED BY <1>1, InitDeliveryInv, StepDeliveryInv, PTL DEF Spec
=============================================================================
