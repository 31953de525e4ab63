----------------------------- MODULE CloudOffload -----------------------------
(***************************************************************************)
(* The offload of recordings to a bucket (cloud-storage/                   *)
(* cloud-offload.service.ts).  A cycle uploads what is pending, confirms   *)
(* each object, marks the row, and then removes local files that have been *)
(* in the cloud for longer than the window.  The queue's timer and the     *)
(* controller start cycles.  Meanwhile recordings are made and deleted,    *)
(* the operator changes the policy, the central the provisioning, and the  *)
(* process may crash.                                                      *)
(*                                                                         *)
(* A step ends at an await.  The content of a file is left out: an object  *)
(* is there or not.                                                        *)
(***************************************************************************)
EXTENDS Integers, FiniteSets, FiniteSetsExt

CONSTANTS
    Recordings,      \* ids, numbers: older recordings have smaller ones
    First, Absent,   \* recordings there are at the start, and those without a file
    TriggerMode,     \* of each recording
    Provisions,      \* the storages the central may provision: [bucket, mount, window]
    Policies,        \* the policies an operator may set: [enabled, modes, keepLocalCopy]
    Cycles,          \* calls of runOnce that may be active at once
    Null,
    Batch, PruneBatch,
    MaxNow, MaxFaults, MaxChanges \* bounds

ASSUME OffloadConstants ==
    /\ Recordings \subseteq Nat /\ First \subseteq Recordings /\ Absent \subseteq First
    /\ Batch \in Nat \ {0} /\ PruneBatch \in Nat \ {0}
    /\ Null \notin Provisions /\ Null \notin Nat
    /\ MaxNow \in Nat /\ MaxFaults \in Nat /\ MaxChanges \in Nat

VARIABLES
    made,            \* ids that have been given out
    rows, local,     \* recordings with a row, and with a local file
    staged,          \* those whose file a deletion has in its quarantine
    misled,          \* history: those whose file was there when it was not found
    uploadedAt,      \* cloudUploadedAt; set with cloudKey
    localDeleted,    \* rows with localDeletedAt
    objects,         \* [bucket, rec]
    provision,       \* the storage that is provisioned, or Null
    policy,
    running,         \* the flag of the service
    cy,              \* the state of each cycle
    now, faults, changes

files == <<local, staged, misled>>
data == <<made, rows, files, uploadedAt, localDeleted, objects>>
env  == <<provision, policy, now, changes>>
vars == <<data, env, running, cy, faults>>

(* A page is the set of the recordings that are left to do, the oldest first. *)
Idle == [pc |-> "idle", cfg |-> Null, page |-> {}]

Set(i, s) == cy' = [cy EXCEPT ![i] = s]

(* orderBy startedAt, take n *)
FirstOf(rs, n) == {r \in rs : Cardinality({q \in rs : q < r}) < n}

Current(i) == Min(cy[i].page)
Left(i)    == cy[i].page \ {Current(i)}

(* The next recording of the page, or the next phase. *)
NextUpload(i) ==
    Set(i, [cy[i] EXCEPT !.page = Left(i), !.pc = IF Left(i) # {} THEN "upload" ELSE "prune"])

(* A remote call or a statement fails, a bounded number of times. *)
Fault == faults < MaxFaults /\ faults' = faults + 1

-----------------------------------------------------------------------------
(* runOnce.                                                                *)

(* The flag is read before the configuration is awaited, *)
Begin(i) ==
    /\ cy[i].pc = "idle" /\ ~running
    /\ Set(i, [Idle EXCEPT !.pc = "config"])
    /\ UNCHANGED <<data, env, running, faults>>

(* and set after it. *)
Configure(i) ==
    /\ cy[i].pc = "config"
    /\ \/ provision = Null /\ Set(i, Idle) /\ UNCHANGED <<running, faults>>
       \/ Fault /\ Set(i, Idle) /\ UNCHANGED running
       \/ /\ provision # Null /\ running' = TRUE
          /\ Set(i, [Idle EXCEPT !.pc = "pending", !.cfg = provision]) /\ UNCHANGED faults
    /\ UNCHANGED <<data, env>>

(* The end of a cycle, by an error too. *)
End(i) ==
    /\ running' = FALSE
    /\ Set(i, Idle)

-----------------------------------------------------------------------------
(* uploadPending.                                                          *)

Pending == {r \in rows : uploadedAt[r] = Null /\ TriggerMode[r] \in policy.modes}

ReadPending(i) ==
    LET page == IF policy.enabled THEN FirstOf(Pending, Batch) ELSE {}
    IN  /\ cy[i].pc = "pending"
        /\ \/ /\ Set(i, [cy[i] EXCEPT !.pc = IF page = {} THEN "prune" ELSE "upload", !.page = page])
              /\ UNCHANGED <<running, faults>>
           \/ Fault /\ End(i)
        /\ UNCHANGED <<data, env>>

\* mutant: a missing file ends the uploads of the cycle
PassOver_Breaks(i) == Set(i, [cy[i] EXCEPT !.page = {}, !.pc = "prune"])

PassOver(i) == NextUpload(i)

(* A recording whose file is not there is passed over; a PUT that fails leaves
   it for the next cycle; a PUT may be answered and leave no object. *)
Upload(i) ==
    LET r == Current(i)
    IN  /\ cy[i].pc = "upload"
        /\ \/ /\ r \notin local
              /\ PassOver(i) /\ UNCHANGED <<objects, faults>>
           \/ /\ r \in local /\ Fault
              /\ NextUpload(i) /\ UNCHANGED objects
           \/ /\ r \in local
              /\ objects' = objects \cup {[bucket |-> cy[i].cfg.bucket, rec |-> r]}
              /\ Set(i, [cy[i] EXCEPT !.pc = "confirm"]) /\ UNCHANGED faults
           \/ /\ r \in local /\ Fault
              /\ Set(i, [cy[i] EXCEPT !.pc = "confirm"]) /\ UNCHANGED objects
        /\ UNCHANGED <<made, rows, files, uploadedAt, localDeleted, env, running>>

\* mutant: the answer to the PUT is enough
Confirmed_ByPut(i) == TRUE

Confirmed(i) == [bucket |-> cy[i].cfg.bucket, rec |-> Current(i)] \in objects

(* The HEAD after the PUT: no object, or no answer, is a failed upload. *)
Confirm(i) ==
    /\ cy[i].pc = "confirm"
    /\ \/ Confirmed(i) /\ Set(i, [cy[i] EXCEPT !.pc = "mark"]) /\ UNCHANGED faults
       \/ ~Confirmed(i) /\ NextUpload(i) /\ UNCHANGED faults
       \/ Fault /\ NextUpload(i)
    /\ UNCHANGED <<data, env, running>>

(* The row is marked, unless the statement fails or the row is gone. *)
Mark(i) ==
    LET r == Current(i)
    IN  /\ cy[i].pc = "mark"
        /\ \/ /\ r \in rows
              /\ uploadedAt' = [uploadedAt EXCEPT ![r] = now] /\ UNCHANGED faults
           \/ /\ r \in rows /\ Fault /\ UNCHANGED uploadedAt
           \/ /\ r \notin rows /\ UNCHANGED <<uploadedAt, faults>>
        /\ NextUpload(i)
        /\ UNCHANGED <<made, rows, files, localDeleted, objects, env, running>>

-----------------------------------------------------------------------------
(* pruneUploaded.                                                          *)

Window(cfg) == IF cfg.mount THEN 0 ELSE cfg.window

\* mutant: what is in the query counts as uploaded
Prunable_Pending(cfg) ==
    {r \in rows : /\ uploadedAt[r] = Null \/ uploadedAt[r] < now - Window(cfg)
                  /\ r \notin localDeleted}

Prunable(cfg) ==
    {r \in rows : /\ uploadedAt[r] # Null /\ uploadedAt[r] < now - Window(cfg)
                  /\ r \notin localDeleted}

\* mutant: the policy wins over the mode of the storage
KeepsLocal_Always(cfg) == policy.keepLocalCopy

KeepsLocal(cfg) == policy.keepLocalCopy /\ ~cfg.mount

ReadPrunable(i) ==
    LET cfg  == cy[i].cfg
        page == FirstOf(Prunable(cfg), PruneBatch)
    IN  /\ cy[i].pc = "prune"
        /\ \/ Fault /\ End(i)
           \/ /\ KeepsLocal(cfg) \/ page = {}
              /\ End(i) /\ UNCHANGED faults
           \/ /\ ~KeepsLocal(cfg) /\ page # {}
              /\ Set(i, [cy[i] EXCEPT !.pc = "unlink", !.page = page])
              /\ UNCHANGED <<running, faults>>
        /\ UNCHANGED <<data, env>>

NextUnlink(i) ==
    IF Left(i) # {}
    THEN Set(i, [cy[i] EXCEPT !.pc = "unlink", !.page = Left(i)]) /\ UNCHANGED running
    ELSE End(i)

(* A file that is not there counts as removed, also when a deletion has it in
   its quarantine. *)
Unlink(i) ==
    LET r == Current(i)
    IN  /\ cy[i].pc = "unlink"
        /\ \/ /\ local' = local \ {r} /\ misled' = misled \cup ({r} \cap staged)
              /\ Set(i, [cy[i] EXCEPT !.pc = "stamp"]) /\ UNCHANGED <<faults, running>>
           \/ r \in local /\ Fault /\ NextUnlink(i) /\ UNCHANGED <<local, misled>>
        /\ UNCHANGED <<made, rows, staged, uploadedAt, localDeleted, objects, env>>

(* An error here, or a row that is gone, ends the cycle. *)
Stamp(i) ==
    LET r == Current(i)
    IN  /\ cy[i].pc = "stamp"
        /\ \/ /\ r \in rows /\ localDeleted' = localDeleted \cup {r}
              /\ NextUnlink(i) /\ UNCHANGED faults
           \/ r \in rows /\ Fault /\ End(i) /\ UNCHANGED localDeleted
           \/ r \notin rows /\ End(i) /\ UNCHANGED <<localDeleted, faults>>
        /\ UNCHANGED <<made, rows, files, uploadedAt, objects, env>>

-----------------------------------------------------------------------------
(* What happens meanwhile.                                                 *)

(* A recording is finished (module SegmentPipeline). *)
Record(r) ==
    /\ \A q \in made : q < r
    /\ made' = made \cup {r} /\ rows' = rows \cup {r} /\ local' = local \cup {r}
    /\ UNCHANGED <<staged, misled, uploadedAt, localDeleted, objects, env, running, cy, faults>>

(* The retention deletes a recording: in a transaction, and holding a lock, it
   moves the file to its quarantine and deletes the row. *)
Stage(r) ==
    /\ r \in rows \cap local /\ staged = {}
    /\ changes < MaxChanges /\ changes' = changes + 1
    /\ local' = local \ {r} /\ staged' = {r}
    /\ UNCHANGED <<made, rows, misled, uploadedAt, localDeleted, objects>>
    /\ UNCHANGED <<provision, policy, now, running, cy, faults>>

(* The transaction commits: the row goes with its file, if there is one; the
   object stays. *)
Expire(r) ==
    /\ r \in rows
    /\ \/ r \in staged /\ changes' = changes
       \/ r \notin local /\ staged = {} /\ changes < MaxChanges /\ changes' = changes + 1
    /\ rows' = rows \ {r} /\ staged' = staged \ {r} /\ localDeleted' = localDeleted \ {r}
    /\ UNCHANGED <<made, local, misled, uploadedAt, objects, provision, policy, now>>
    /\ UNCHANGED <<running, cy, faults>>

(* It fails, and the file is put back. *)
Restore(r) ==
    /\ r \in staged
    /\ local' = local \cup {r} /\ staged' = staged \ {r}
    /\ UNCHANGED <<made, rows, misled, uploadedAt, localDeleted, objects>>
    /\ UNCHANGED <<env, running, cy, faults>>

(* The central provisions another storage, or none. *)
Provision(p) ==
    /\ changes < MaxChanges /\ changes' = changes + 1
    /\ provision' = p
    /\ UNCHANGED <<data, policy, now, running, cy, faults>>

SetPolicy(p) ==
    /\ changes < MaxChanges /\ changes' = changes + 1
    /\ policy' = p
    /\ UNCHANGED <<data, provision, now, running, cy, faults>>

Tick ==
    /\ now < MaxNow /\ now' = now + 1
    /\ UNCHANGED <<data, provision, policy, changes, running, cy, faults>>

(* The next boot puts back what a deletion had staged and not committed. *)
Crash ==
    /\ Fault
    /\ running' = FALSE /\ cy' = [i \in Cycles |-> Idle]
    /\ local' = local \cup staged /\ staged' = {}
    /\ UNCHANGED <<made, rows, misled, uploadedAt, localDeleted, objects, env>>

-----------------------------------------------------------------------------
Init ==
    /\ made = First /\ rows = First
    /\ local = First \ Absent /\ staged = {} /\ misled = {}
    /\ uploadedAt = [r \in Recordings |-> Null] /\ localDeleted = {} /\ objects = {}
    /\ provision \in Provisions /\ policy \in Policies
    /\ running = FALSE /\ cy = [i \in Cycles |-> Idle]
    /\ now = 0 /\ faults = 0 /\ changes = 0

Cycle(i) ==
    \/ Configure(i) \/ ReadPending(i) \/ Upload(i) \/ Confirm(i) \/ Mark(i)
    \/ ReadPrunable(i) \/ Unlink(i) \/ Stamp(i)

Next ==
    \/ \E i \in Cycles : Begin(i) \/ Cycle(i)
    \/ \E r \in Recordings : Record(r) \/ Stage(r) \/ Expire(r) \/ Restore(r)
    \/ \E p \in Provisions \cup {Null} : Provision(p)
    \/ \E p \in Policies : SetPolicy(p)
    \/ Tick \/ Crash

(* The queue starts a cycle every quarter of an hour, a cycle goes on after
   each await, and time passes. *)
Fairness == WF_vars(Tick) /\ \A i \in Cycles : WF_vars(Begin(i)) /\ WF_vars(Cycle(i))

Spec == Init /\ [][Next]_vars /\ Fairness

-----------------------------------------------------------------------------
(* What the offload promises.                                              *)

Archived(r) == \E o \in objects : o.rec = r

(* No local file goes without a confirmed upload: every recording has its file,
   in its place or in a quarantine, or an object, through crashes, failures, two
   cycles and changes of policy or of storage ("a invariante que vale mais que a
   feature"). *)
NothingLost == \A r \in rows \ Absent : r \in local \cup staged \/ Archived(r)

(* What the rows say is true: a marked row has an object, and a file that is
   stamped as removed is not on disk, unless its removal met a deletion. *)
RowsTellTheTruth ==
    \A r \in rows : /\ uploadedAt[r] # Null => Archived(r)
                    /\ r \in localDeleted => r \notin local \/ r \in misled

Uploading(r) ==
    provision # Null /\ policy.enabled /\ TriggerMode[r] \in policy.modes

(* A recording the policy wants in the cloud gets there, whatever failed
   before and although others have lost their file. *)
UploadedInTheEnd ==
    \A r \in Recordings : ~<>[](r \in rows \cap local /\ uploadedAt[r] = Null /\ Uploading(r))

(* The disk gets its space back: a file that no row gives as removed does not
   stay for ever once its object is older than the window. *)
PrunedInTheEnd ==
    \A r \in Recordings :
        ~<>[](/\ r \in (rows \cap local) \ localDeleted
              /\ uploadedAt[r] # Null /\ provision # Null
              /\ uploadedAt[r] < now - Window(provision)
              /\ (~policy.keepLocalCopy \/ provision.mount))
=============================================================================
