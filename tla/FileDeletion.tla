---------------------------- MODULE FileDeletion ----------------------------
(***************************************************************************)
(* Deleting recordings and clips with their files:                         *)
(* recordings/helpers/transactional-file-delete.helper.ts and its callers  *)
(* deleteRowsWithFiles (retention.service.ts), deleteAllRecordings and the *)
(* recovery at boot (recordings.service.ts).                               *)
(*                                                                         *)
(* A deletion writes a durable journal, moves the files into a quarantine  *)
(* beside it, deletes the rows in one transaction and then removes journal *)
(* and quarantine; if the rows survive, the files are moved back.  A power *)
(* loss may undo what was not fsynced.                                     *)
(***************************************************************************)
EXTENDS Naturals, FiniteSets

CONSTANTS
    Recs, Clips,    \* ids of recordings and of exported clips
    Source,         \* the recording a clip was cut from (cascading key)
    Files,          \* the files of all of them
    Owner,          \* the row a file belongs to
    Ops,            \* deletions, each with its journal directory (bound)
    Boot,           \* recoverPendingFileDeletions
    None,
    MaxEntries,     \* entries of the largest journal the recovery still reads
    Faults          \* "crash", "dbFails", "txTimeout", "fsFails", "bootRaces"

Rows   == Recs \cup Clips
Agents == Ops \cup {Boot}
Places == {"absent", "orig"} \cup Ops

ASSUME DeletionConstants ==
    /\ Recs \cap Clips = {}
    /\ Source \in [Clips -> Recs]
    /\ Owner \in [Files -> Rows]
    /\ Boot \notin Ops /\ None \notin Agents \cup {"absent", "orig"}
    /\ MaxEntries \in Nat
    /\ "absent" \notin Ops /\ "orig" \notin Ops

VARIABLES
    rows,           \* the committed rows
    loc,            \* where a file is: its path, a quarantine, nowhere
    disk,           \* where it would be after a power loss: the last synced place
    jrn,            \* journal.json of each operation
    ag,             \* the deletions in progress and the recovery
    lock            \* pg_advisory_xact_lock

vars == <<rows, loc, disk, jrn, ag, lock>>

Pcs == {"idle", "lock", "write", "move", "delete",
        "restore", "restored", "cleanup", "scan", "next", "guards"}

JournalRec == [here: BOOLEAN, kept: BOOLEAN, rows: SUBSET Rows, files: SUBSET Files]
AgentRec   == [pc: Pcs, j: Ops \cup {None}, targets: SUBSET Rows, must: SUBSET Rows,
               todo: SUBSET Files, dirs: SUBSET Ops, failed: BOOLEAN]

NoJournal == [here |-> FALSE, kept |-> FALSE, rows |-> {}, files |-> {}]
Idle      == [pc |-> "idle", j |-> None, targets |-> {}, must |-> {},
              todo |-> {}, dirs |-> {}, failed |-> FALSE]

JournalPcs == {"write", "move", "delete", "guards", "restore", "restored", "cleanup"}

(* Every variable stays in its type, and whoever writes, reads or removes a
   journal knows which one. *)
TypeOK ==
    /\ rows \subseteq Rows
    /\ loc  \in [Files -> Places]
    /\ disk \in [Files -> Places]
    /\ jrn  \in [Ops -> JournalRec]
    /\ ag   \in [Agents -> AgentRec]
    /\ lock \in Ops \cup {None}
    /\ \A a \in Agents : ag[a].pc \in JournalPcs => ag[a].j \in Ops

FilesOf(rs) == {f \in Files : Owner[f] \in rs}

At(a, pc)  == ag[a].pc = pc
Step(a, r) == ag' = [ag EXCEPT ![a] = r]

(* The transaction ends, unless it has expired before. *)
Unlock(a) == lock' = IF lock = a THEN None ELSE lock

(* An operation ends; the recovery goes on with its next directory. *)
Ends(a) == IF a = Boot THEN [Idle EXCEPT !.pc = "next", !.dirs = ag[a].dirs] ELSE Idle

-----------------------------------------------------------------------------
(* Starting a deletion: the rows are read before the transaction.          *)

NobodyOn(o) == \A a \in Agents : ag[a].j # o

(* randomUUID: an operation id is never used twice. *)
Unused(o) ==
    /\ NobodyOn(o) /\ o \notin ag[Boot].dirs
    /\ ~jrn[o].here /\ ~jrn[o].kept
    /\ \A f \in Files : loc[f] # o /\ disk[f] # o

Start(o, targets, must) ==
    /\ Unused(o)
    /\ ~At(Boot, "scan") \/ "bootRaces" \in Faults
    /\ Step(o, [Idle EXCEPT !.pc = "lock", !.j = o, !.targets = targets, !.must = must])
    /\ UNCHANGED <<rows, loc, disk, jrn, lock>>

(* deleteRecording: the recording and the clips cut from it. *)
DeleteRecording(o, r) ==
    /\ r \in rows
    /\ Start(o, {r} \cup {k \in Clips \cap rows : Source[k] = r}, {r})

(* deleteClip *)
DeleteClip(o, k) == k \in rows /\ Start(o, {k}, {k})

(* deleteAllRecordings *)
DeleteAll(o) == Start(o, rows, {})

(* A new segment or export: its files are on the disk, its row is inserted. *)
Register(r) ==
    /\ r \notin rows
    /\ r \in Clips => Source[r] \in rows
    /\ \A f \in FilesOf({r}) : loc[f] = "absent" /\ disk[f] = "absent"
    /\ \A o \in Ops : r \notin ag[o].targets /\ r \notin jrn[o].rows
    /\ rows' = rows \cup {r}
    /\ loc'  = [f \in Files |-> IF Owner[f] = r THEN "orig" ELSE loc[f]]
    /\ disk' = [f \in Files |-> IF Owner[f] = r THEN "orig" ELSE disk[f]]
    /\ UNCHANGED <<jrn, ag, lock>>

-----------------------------------------------------------------------------
(* stageFileDeletion, inside the transaction.                              *)

TakeLock(o) ==
    /\ At(o, "lock") /\ lock = None
    /\ lock' = o
    /\ Step(o, [ag[o] EXCEPT !.pc = "write"])
    /\ UNCHANGED <<rows, loc, disk, jrn>>

(* The transaction could not be opened. *)
LockFails(o) ==
    /\ At(o, "lock") /\ "dbFails" \in Faults
    /\ Step(o, Idle)
    /\ UNCHANGED <<rows, loc, disk, jrn, lock>>

JournalOf(o, synced) ==
    [here |-> TRUE, kept |-> synced, rows |-> ag[o].targets,
     files |-> FilesOf(ag[o].targets)]

(* The journal could not be written or synced: nothing was moved, and what was
   written of it stays. *)
JournalFails(o) ==
    /\ At(o, "write") /\ "fsFails" \in Faults
    /\ jrn' \in {jrn, [jrn EXCEPT ![o] = JournalOf(o, FALSE)]}
    /\ Unlock(o)
    /\ Step(o, Idle)
    /\ UNCHANGED <<rows, loc, disk>>

(* Mutant: the journal is written but not synced. *)
WriteJournal_NoSync(o) ==
    /\ At(o, "write")
    /\ jrn' = [jrn EXCEPT ![o] = JournalOf(o, FALSE)]
    /\ Step(o, [ag[o] EXCEPT !.pc = "move", !.todo = FilesOf(ag[o].targets)])
    /\ UNCHANGED <<rows, loc, disk, lock>>

(* writeDurableJournal: written, then file and directories fsynced. *)
WriteJournal(o) ==
    /\ At(o, "write")
    /\ jrn' = [jrn EXCEPT ![o] = JournalOf(o, TRUE)]
    /\ Step(o, [ag[o] EXCEPT !.pc = "move", !.todo = FilesOf(ag[o].targets)])
    /\ UNCHANGED <<rows, loc, disk, lock>>

(* One rename into the quarantine; a missing file is skipped. *)
MoveFile(o, f) ==
    /\ At(o, "move") /\ f \in ag[o].todo
    /\ loc[f] = "orig" => jrn[o].here
    /\ loc' = [loc EXCEPT ![f] = IF @ = "orig" THEN o ELSE @]
    /\ Step(o, [ag[o] EXCEPT !.todo = @ \ {f}])
    /\ UNCHANGED <<rows, disk, jrn, lock>>

(* All moved; the directories are fsynced. *)
MovesSynced(o) ==
    /\ At(o, "move") /\ ag[o].todo = {}
    /\ disk' = [f \in Files |-> IF loc[f] = o THEN o ELSE disk[f]]
    /\ Step(o, [ag[o] EXCEPT !.pc = "delete"])
    /\ UNCHANGED <<rows, loc, jrn, lock>>

Rollback(o) ==
    [ag[o] EXCEPT !.pc = "restore", !.todo = jrn[o].files, !.failed = FALSE]

(* A rename or an fsync failed, or the quarantine is gone: the files go back
   before the transaction is aborted. *)
MoveFails(o) ==
    /\ At(o, "move")
    /\ "fsFails" \in Faults \/ ~jrn[o].here
    /\ Step(o, Rollback(o))
    /\ UNCHANGED <<rows, loc, disk, jrn, lock>>

(* Prisma ends an interactive transaction that takes too long; the callback
   goes on and learns of it at its next query. *)
TxExpires(o) ==
    /\ "txTimeout" \in Faults /\ lock = o
    /\ lock' = None
    /\ UNCHANGED <<rows, loc, disk, jrn, ag>>

-----------------------------------------------------------------------------
(* The rows.                                                               *)

Cascade(rs) == rs \cup {k \in Clips : Source[k] \in rs}

(* deleteAllRecordings deletes every row there is by then, the others what they
   have read before. *)
Doomed(o) == IF ag[o].must = {} THEN rows ELSE Cascade(ag[o].targets)

(* recording.delete fails for a row that is gone; an expired transaction
   accepts no query. *)
CanDelete(o) == lock = o /\ ag[o].must \subseteq rows

(* The rows are deleted and the transaction commits. *)
DeleteRows(o) ==
    /\ At(o, "delete") /\ CanDelete(o)
    /\ rows' = rows \ Doomed(o)
    /\ Unlock(o)
    /\ Step(o, [ag[o] EXCEPT !.pc = "cleanup"])
    /\ UNCHANGED <<loc, disk, jrn>>

(* The delete or the commit failed: rollback() of the staged deletion. *)
DeleteFails(o) ==
    /\ At(o, "delete")
    /\ ~CanDelete(o) \/ "dbFails" \in Faults
    /\ Unlock(o)
    /\ Step(o, Rollback(o))
    /\ UNCHANGED <<rows, loc, disk, jrn>>

(* The database committed, its answer was lost: the client sees a failure. *)
AnswerLost(o) ==
    /\ At(o, "delete") /\ CanDelete(o) /\ "dbFails" \in Faults
    /\ rows' = rows \ Doomed(o)
    /\ Unlock(o)
    /\ Step(o, Rollback(o))
    /\ UNCHANGED <<loc, disk, jrn>>

-----------------------------------------------------------------------------
(* restoreJournal and cleanupCommittedJournal, of an operation or of the   *)
(* recovery.                                                               *)

RestoreFile(a, f) ==
    /\ At(a, "restore") /\ f \in ag[a].todo
    /\ loc' = [loc EXCEPT ![f] = IF @ = ag[a].j THEN "orig" ELSE @]
    /\ Step(a, [ag[a] EXCEPT !.todo = @ \ {f}])
    /\ UNCHANGED <<rows, disk, jrn, lock>>

RestoreFails(a, f) ==
    /\ "fsFails" \in Faults
    /\ At(a, "restore") /\ f \in ag[a].todo /\ loc[f] = ag[a].j
    /\ Step(a, [ag[a] EXCEPT !.todo = @ \ {f}, !.failed = TRUE])
    /\ UNCHANGED <<rows, loc, disk, jrn, lock>>

(* Mutant: the journal goes although a file could not be moved back. *)
RestoreSynced_IgnoresErrors(a) ==
    /\ At(a, "restore") /\ ag[a].todo = {}
    /\ disk' = [f \in Files |-> IF disk[f] = ag[a].j THEN loc[f] ELSE disk[f]]
    /\ Step(a, [ag[a] EXCEPT !.pc = "restored"])
    /\ UNCHANGED <<rows, loc, jrn, lock>>

(* Every entry was tried: with an error the journal stays; otherwise the
   directories are fsynced before the journal goes. *)
RestoreSynced(a) ==
    /\ At(a, "restore") /\ ag[a].todo = {}
    /\ IF ag[a].failed
       THEN /\ disk' = disk /\ Unlock(a)
            /\ Step(a, Ends(a))
       ELSE /\ disk' = [f \in Files |-> IF disk[f] = ag[a].j THEN loc[f] ELSE disk[f]]
            /\ lock' = lock
            /\ Step(a, [ag[a] EXCEPT !.pc = "restored"])
    /\ UNCHANGED <<rows, loc, jrn>>

(* rm -r of the operation's directory removes its children in any order. *)
RemoveFile(a, f) ==
    /\ ag[a].pc \in {"restored", "cleanup"}
    /\ loc[f] = ag[a].j
    /\ loc' = [loc EXCEPT ![f] = "absent"]
    /\ UNCHANGED <<rows, disk, jrn, ag, lock>>

RemoveJournal(a) ==
    /\ ag[a].pc \in {"restored", "cleanup"}
    /\ jrn[ag[a].j].here
    /\ jrn' = [jrn EXCEPT ![ag[a].j].here = FALSE]
    /\ UNCHANGED <<rows, loc, disk, ag, lock>>

(* The directory is gone; only the restore fsyncs that. *)
Removed(a) ==
    LET j == ag[a].j IN
    /\ ag[a].pc \in {"restored", "cleanup"}
    /\ ~jrn[j].here /\ \A f \in Files : loc[f] # j
    /\ IF At(a, "restored")
       THEN /\ jrn' = [jrn EXCEPT ![j] = NoJournal]
            /\ disk' = [f \in Files |-> IF disk[f] = j THEN loc[f] ELSE disk[f]]
       ELSE UNCHANGED <<jrn, disk>>
    /\ Step(a, Ends(a)) /\ Unlock(a)
    /\ UNCHANGED <<rows, loc>>

(* rm -r gave up half way; the operation leaves the rest to the next boot. *)
RemoveFails(a) ==
    /\ "fsFails" \in Faults
    /\ ag[a].pc \in {"restored", "cleanup"}
    /\ Step(a, Ends(a)) /\ Unlock(a)
    /\ UNCHANGED <<rows, loc, disk, jrn>>

-----------------------------------------------------------------------------
(* recoverPendingFileDeletions at boot.                                    *)

(* readdir: every operation directory that still exists. *)
BootScan ==
    /\ At(Boot, "scan")
    /\ Step(Boot, [Idle EXCEPT !.pc = "next",
                              !.dirs = {o \in Ops : jrn[o].here \/ \E f \in Files : loc[f] = o}])
    /\ UNCHANGED <<rows, loc, disk, jrn, lock>>

(* Mutant: the journal of the previous directory is used. *)
BootNext_KeepsJournal(o) ==
    /\ At(Boot, "next") /\ o \in ag[Boot].dirs
    /\ Step(Boot, [ag[Boot] EXCEPT !.pc = "guards", !.dirs = @ \ {o}])
    /\ UNCHANGED <<rows, loc, disk, jrn, lock>>

(* A journal above the size limit is refused. *)
Readable(o) == jrn[o].here /\ Cardinality(jrn[o].files) <= MaxEntries

(* The journal is read; a directory without a valid one is skipped. *)
BootNext(o) ==
    /\ At(Boot, "next") /\ o \in ag[Boot].dirs
    /\ Step(Boot, IF Readable(o)
                  THEN [ag[Boot] EXCEPT !.pc = "guards", !.j = o, !.dirs = @ \ {o}]
                  ELSE [ag[Boot] EXCEPT !.dirs = @ \ {o}])
    /\ UNCHANGED <<rows, loc, disk, jrn, lock>>

(* states.some(Boolean) *)
MustRestore(o) == jrn[o].rows \cap rows # {}

BootGuards ==
    LET o == ag[Boot].j IN
    /\ At(Boot, "guards")
    /\ Step(Boot, IF MustRestore(o)
                  THEN [ag[Boot] EXCEPT !.pc = "restore", !.todo = jrn[o].files]
                  ELSE [ag[Boot] EXCEPT !.pc = "cleanup"])
    /\ UNCHANGED <<rows, loc, disk, jrn, lock>>

(* The journal or a guard could not be read. *)
BootGuardsFail ==
    /\ At(Boot, "guards") /\ {"dbFails", "fsFails"} \cap Faults # {}
    /\ Step(Boot, Ends(Boot))
    /\ UNCHANGED <<rows, loc, disk, jrn, lock>>

(* Mutant: the recovery returns after the first directory. *)
BootDone_Early ==
    /\ At(Boot, "next")
    /\ Step(Boot, Idle)
    /\ UNCHANGED <<rows, loc, disk, jrn, lock>>

BootDone ==
    /\ At(Boot, "next") /\ ag[Boot].dirs = {}
    /\ Step(Boot, Idle)
    /\ UNCHANGED <<rows, loc, disk, jrn, lock>>

(* The API is restarted between deletions, or another instance on the same
   database and storage boots beside them. *)
BootAgain ==
    /\ At(Boot, "idle")
    /\ (\A o \in Ops : At(o, "idle")) \/ "bootRaces" \in Faults
    /\ Step(Boot, [Idle EXCEPT !.pc = "scan"])
    /\ UNCHANGED <<rows, loc, disk, jrn, lock>>

-----------------------------------------------------------------------------
(* The journal after a power loss, with or without what was not synced. *)
AfterLoss(o, undone) ==
    IF IF undone THEN jrn[o].kept ELSE jrn[o].here
    THEN [jrn[o] EXCEPT !.here = TRUE, !.kept = TRUE]
    ELSE NoJournal

(* The machine stops; what was not synced may be undone.  The next process
   recovers. *)
Crash ==
    /\ "crash" \in Faults
    /\ \E lost \in SUBSET {f \in Files : disk[f] # loc[f]},
         lostJ \in SUBSET {o \in Ops : jrn[o].kept # jrn[o].here} :
          /\ loc' = [f \in Files |-> IF f \in lost THEN disk[f] ELSE loc[f]]
          /\ disk' = loc'
          /\ jrn' = [o \in Ops |-> AfterLoss(o, o \in lostJ)]
    /\ ag' = [a \in Agents |-> IF a = Boot THEN [Idle EXCEPT !.pc = "scan"] ELSE Idle]
    /\ lock' = None
    /\ rows' = rows

(* The operating system writes back what a finished removal left. *)
WriteBack(o) ==
    /\ NobodyOn(o) /\ ~jrn[o].here
    /\ jrn[o].kept \/ \E f \in Files : disk[f] = o /\ loc[f] # o
    /\ jrn' = [jrn EXCEPT ![o] = NoJournal]
    /\ disk' = [f \in Files |-> IF disk[f] = o THEN loc[f] ELSE disk[f]]
    /\ UNCHANGED <<rows, loc, ag, lock>>

-----------------------------------------------------------------------------
Init ==
    /\ rows = Rows
    /\ loc  = [f \in Files |-> "orig"]
    /\ disk = [f \in Files |-> "orig"]
    /\ jrn  = [o \in Ops |-> NoJournal]
    /\ ag   = [a \in Agents |-> IF a = Boot THEN [Idle EXCEPT !.pc = "scan"] ELSE Idle]
    /\ lock = None

OpStep(o) ==
    \/ \E r \in Recs : DeleteRecording(o, r)
    \/ \E k \in Clips : DeleteClip(o, k)
    \/ DeleteAll(o)
    \/ TakeLock(o) \/ LockFails(o) \/ WriteJournal(o) \/ JournalFails(o)
    \/ \E f \in Files : MoveFile(o, f)
    \/ MovesSynced(o) \/ MoveFails(o) \/ TxExpires(o)
    \/ DeleteRows(o) \/ DeleteFails(o) \/ AnswerLost(o)

AgentStep(a) ==
    \/ \E f \in Files : RestoreFile(a, f) \/ RestoreFails(a, f) \/ RemoveFile(a, f)
    \/ RestoreSynced(a) \/ RemoveJournal(a) \/ Removed(a) \/ RemoveFails(a)

BootStep ==
    \/ BootScan \/ BootGuards \/ BootGuardsFail \/ BootDone \/ BootAgain
    \/ \E o \in Ops : BootNext(o)

Next ==
    \/ \E o \in Ops : OpStep(o) \/ WriteBack(o)
    \/ \E a \in Agents : AgentStep(a)
    \/ BootStep
    \/ \E r \in Rows : Register(r)
    \/ Crash

Spec == Init /\ [][Next]_vars

-----------------------------------------------------------------------------
(* Properties.                                                             *)

(* The file is in place, or in a quarantine whose journal will put it back. *)
Recoverable(f) ==
    \/ loc[f] = "orig"
    \/ /\ loc[f] \in Ops
       /\ Readable(loc[f])
       /\ f \in jrn[loc[f]].files /\ Owner[f] \in jrn[loc[f]].rows

(* As long as a recording or clip has its row its files are not lost, whatever
   step of a deletion, of its rollback or of the recovery fails or is cut off
   by a power loss: they are in place or a journal brings them back. *)
NothingLost == \A f \in Files : Owner[f] \in rows => Recoverable(f)
=============================================================================
