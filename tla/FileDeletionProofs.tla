------------------------- MODULE FileDeletionProofs -------------------------
(***************************************************************************)
(* No deletion loses the files of a row that survives it, for any number   *)
(* of rows, files and concurrent deletions, with any of the faults, as long*)
(* as no second recovery runs beside a deletion ("bootRaces").             *)
(***************************************************************************)
EXTENDS FileDeletion, TLAPS

(* A file at place p is safe: at its path, or in a quarantine whose durable
   journal names it. *)
SafeAt(f, p) ==
    \/ p = "orig"
    \/ /\ p \in Ops
       /\ jrn[p].here /\ jrn[p].kept
       /\ f \in jrn[p].files /\ Owner[f] \in jrn[p].rows

(* Wherever a power loss may leave the file of a row that exists, it is safe. *)
LiveSafe == \A f \in Files : Owner[f] \in rows => SafeAt(f, loc[f]) /\ SafeAt(f, disk[f])

(* No file of a row that exists is, or may come back, in quarantine o. *)
NoLiveIn(o) == \A f \in Files : Owner[f] \in rows => loc[f] # o /\ disk[f] # o

OpPcs   == {"idle", "lock", "write", "move", "delete", "restore", "restored", "cleanup"}
BootPcs == {"idle", "scan", "next", "guards", "restore", "restored", "cleanup"}

(* An operation works on its own journal, the recovery on one at a time. *)
OwnJournal(a, r) ==
    IF a = Boot
    THEN r.pc \in BootPcs /\ (r.pc \in {"idle", "scan", "next"} => r.j = None)
    ELSE r.pc \in OpPcs /\ r.j = IF r.pc = "idle" THEN None ELSE a

(* What agent record r may rely on: the journal of an operation that moves
   files names them all; what a restore has passed is out of the quarantine;
   a journal that is being removed has no living file left. *)
Relies(r) ==
    /\ r.pc \in {"lock", "write", "restored"} => NoLiveIn(r.j)
    /\ r.pc = "move" =>
          /\ jrn[r.j].here /\ jrn[r.j].kept
          /\ r.todo \subseteq FilesOf(jrn[r.j].rows)
          /\ jrn[r.j].files = FilesOf(jrn[r.j].rows)
    /\ r.pc \in {"move", "delete"} => jrn[r.j].rows = r.targets
    /\ r.pc = "restore" =>
          \A f \in Files : Owner[f] \in rows /\ loc[f] = r.j
                             => f \in r.todo \/ r.failed
    /\ r.pc = "cleanup" => jrn[r.j].rows \cap rows = {}

AgentsRely == \A a \in Agents : OwnJournal(a, ag[a]) /\ Relies(ag[a])

(* A journal the recovery works on, or will, has no operation working on it. *)
OneUser ==
    \A o \in Ops : o = ag[Boot].j \/ o \in ag[Boot].dirs \/ At(Boot, "scan")
                      => ag[o].pc = "idle"

IndInv == TypeOK /\ LiveSafe /\ AgentsRely /\ OneUser

-----------------------------------------------------------------------------
(* The frame: a step that touches only journal j and its quarantine.       *)

(* Living files stay, go home or go to j; the other journals stay; a new row
   is named in no journal. *)
Touches(j) ==
    /\ \A f \in Files : Owner[f] \in rows' =>
          /\ loc'[f] \in {loc[f], "orig", j}
          /\ disk'[f] \in {disk[f], loc[f], "orig", j}
          /\ Owner[f] \notin rows => loc'[f] = "orig" /\ disk'[f] = "orig"
    /\ \A o \in Ops : o # j => jrn'[o] = jrn[o]
    /\ \A o \in Ops : jrn[o].rows \cap rows' \subseteq rows

(* An agent on another journal keeps what it relies on. *)
LEMMA OthersRely ==
    ASSUME IndInv, NEW j, Touches(j), NEW b \in Agents, ag[b].j # j, ag'[b] = ag[b]
    PROVE  OwnJournal(b, ag[b])' /\ Relies(ag[b])'
  <1> DEFINE r == ag[b]
  <1>1. OwnJournal(b, r) /\ Relies(r)  BY DEF IndInv, AgentsRely
  <1>2. r.pc \in JournalPcs \cup {"lock"} => r.j \in Ops /\ jrn'[r.j] = jrn[r.j]
      BY <1>1 DEF IndInv, TypeOK, Touches, OwnJournal, OpPcs, BootPcs, JournalPcs, Agents
  <1>3. r.pc \in {"lock", "write", "restored"} => NoLiveIn(r.j)'
      BY <1>1, <1>2, DeletionConstants DEF Relies, Touches, NoLiveIn, JournalPcs
  <1>4. r.pc = "restore" =>
          \A f \in Files : Owner[f] \in rows' /\ loc'[f] = r.j => f \in r.todo \/ r.failed
      BY <1>1, <1>2, DeletionConstants DEF Relies, Touches, JournalPcs
  <1>5. r.pc = "cleanup" => jrn'[r.j].rows \cap rows' = {}
      BY <1>1, <1>2 DEF Relies, Touches, JournalPcs
  <1>6. OwnJournal(b, ag[b])'  BY <1>1 DEF OwnJournal
  <1>7. Relies(ag[b])'
      BY <1>1, <1>2, <1>3, <1>4, <1>5 DEF Relies, FilesOf, JournalPcs, NoLiveIn
  <1>8. QED  BY <1>6, <1>7

(* A living file that the step leaves outside j stays safe. *)
LEMMA StaysSafe ==
    ASSUME IndInv, NEW j, Touches(j),
           \A f \in Files : Owner[f] \in rows' /\ (loc'[f] = j \/ disk'[f] = j)
                               => SafeAt(f, j)'
    PROVE  LiveSafe'
  <1> SUFFICES ASSUME NEW f \in Files, Owner[f] \in rows',
                      NEW p \in {loc'[f], disk'[f]}
               PROVE  SafeAt(f, p)'
      BY DEF LiveSafe, SafeAt
  <1>1. CASE p = j  BY <1>1
  <1>2. CASE p # j /\ Owner[f] \in rows
      <2>1. p = "orig" \/ (p \in {loc[f], disk[f]} /\ SafeAt(f, p))
          BY <1>2 DEF IndInv, LiveSafe, Touches
      <2>2. QED  BY <1>2, <2>1 DEF SafeAt, Touches
  <1>3. CASE Owner[f] \notin rows  BY <1>3 DEF Touches, SafeAt
  <1>4. QED  BY <1>1, <1>2, <1>3

(* One agent goes on; the others, on other journals, stay as they are. *)
LEMMA AgentGoesOn ==
    ASSUME IndInv, NEW a \in Agents, NEW r \in AgentRec, Step(a, r), TypeOK',
           NEW j, Touches(j), \A b \in Agents : b # a => ag[b].j # j,
           OwnJournal(a, r), Relies(r)',
           \A f \in Files : Owner[f] \in rows' /\ (loc'[f] = j \/ disk'[f] = j)
                               => SafeAt(f, j)',
           OneUser'
    PROVE  IndInv'
  <1>1. ag'[a] = r /\ \A b \in Agents : b # a => ag'[b] = ag[b]
      BY DEF IndInv, TypeOK, Step
  <1>2. LiveSafe'  BY StaysSafe
  <1>3. AgentsRely'
      <2> SUFFICES ASSUME NEW b \in Agents
                   PROVE  OwnJournal(b, ag[b])' /\ Relies(ag[b])'
          BY DEF AgentsRely, OwnJournal
      <2>1. CASE b = a  BY <1>1, <2>1 DEF OwnJournal, Relies, NoLiveIn
      <2>2. CASE b # a  BY <1>1, <2>2, OthersRely
      <2>3. QED  BY <2>1, <2>2
  <1>4. QED  BY <1>2, <1>3 DEF IndInv

(* Nobody else works on the journal an agent works on. *)
LEMMA Sole ==
    ASSUME IndInv, NEW a \in Agents, ag[a].j \in Ops
    PROVE  \A b \in Agents : b # a => ag[b].j # ag[a].j
  <1>1. \A b \in Ops : ag[b].j = IF ag[b].pc = "idle" THEN None ELSE b
      BY DeletionConstants DEF IndInv, AgentsRely, OwnJournal, Agents
  <1>2. \A o \in Ops : o = ag[Boot].j => ag[o].pc = "idle"
      BY DEF IndInv, OneUser
  <1>3. QED  BY <1>1, <1>2, DeletionConstants DEF Agents

(* An operation in progress, or one that ends, does not disturb the recovery. *)
LEMMA OpOneUser ==
    ASSUME IndInv, NEW o \in Ops, NEW r, Step(o, r),
           ag[o].pc # "idle" \/ r.pc = "idle"
    PROVE  OneUser'
  BY DeletionConstants DEF IndInv, TypeOK, OneUser, Step, At, Agents

(* Neither does the recovery disturb the operations when it goes on to one of
   the directories it has read. *)
LEMMA BootOneUser ==
    ASSUME IndInv, NEW r, Step(Boot, r), r.pc # "scan",
           r.dirs \subseteq ag[Boot].dirs, r.j \in {None, ag[Boot].j} \cup ag[Boot].dirs
    PROVE  OneUser'
  <1>1. Boot \in Agents /\ \A o \in Ops : o \in Agents /\ o # Boot /\ o # None
      BY DeletionConstants DEF Agents
  <1>2. ag'[Boot] = r /\ \A o \in Ops : ag'[o] = ag[o]
      BY <1>1 DEF IndInv, TypeOK, Step
  <1>3. QED  BY <1>1, <1>2 DEF IndInv, OneUser, At

-----------------------------------------------------------------------------
(* Steps that change the record of one agent and nothing else.             *)

(* Such a step keeps the invariant if the new record may rely on what the
   world is. *)
LEMMA RecordOnly ==
    ASSUME IndInv, NEW a \in Agents, NEW r \in AgentRec, Step(a, r),
           UNCHANGED <<rows, loc, disk, jrn>>, lock' \in Ops \cup {None},
           r.pc \in JournalPcs => r.j \in Ops,
           OwnJournal(a, r), Relies(r), OneUser'
    PROVE  IndInv'
  <1>1. TypeOK'
      BY DEF IndInv, TypeOK, Step
  <1>2. Relies(r)'  BY DEF Relies, NoLiveIn, FilesOf
  <1>3. LiveSafe'  BY DEF IndInv, LiveSafe, SafeAt
  <1>4. ag'[a] = r /\ \A b \in Agents : b # a => ag'[b] = ag[b]
      BY DEF IndInv, TypeOK, Step
  <1>5. AgentsRely'
      <2> SUFFICES ASSUME NEW b \in Agents
                   PROVE  OwnJournal(b, ag[b])' /\ Relies(ag[b])'
          BY DEF AgentsRely
      <2>1. CASE b = a  BY <1>2, <1>4, <2>1 DEF OwnJournal, Relies, NoLiveIn, FilesOf
      <2>2. CASE b # a
          <3>1. OwnJournal(b, ag[b]) /\ Relies(ag[b])  BY DEF IndInv, AgentsRely
          <3>2. QED  BY <1>4, <2>2, <3>1 DEF OwnJournal, Relies, NoLiveIn, FilesOf
      <2>3. QED  BY <2>1, <2>2
  <1>6. QED  BY <1>1, <1>3, <1>5 DEF IndInv

(* The record an agent ends with. *)
LEMMA IdleRec ==
    Idle \in AgentRec /\ Idle.pc = "idle" /\ Idle.j = None /\ Idle.dirs = {}
  BY DEF Idle, AgentRec, Pcs

(* An agent that ends relies on nothing. *)
LEMMA EndsOK ==
    ASSUME IndInv, NEW a \in Agents
    PROVE  LET r == Ends(a) IN
           /\ r \in AgentRec /\ r.pc \in {"idle", "next"} /\ r.j = None
           /\ a # Boot => r.pc = "idle"
           /\ a = Boot => r.dirs = ag[a].dirs
           /\ OwnJournal(a, r)
  <1>1. ag[a] \in AgentRec  BY DEF IndInv, TypeOK
  <1>2. ag[a].dirs \in SUBSET Ops
      BY <1>1 DEF AgentRec
  <1>3. CASE a = Boot
      <2>1. PICK r : r = [Idle EXCEPT !.pc = "next", !.dirs = ag[a].dirs]
          OBVIOUS
      <2>2. Ends(a) = r  BY <1>3, <2>1 DEF Ends
      <2>3. r \in AgentRec /\ r.pc = "next" /\ r.j = None /\ r.dirs = ag[a].dirs
          BY <1>2, <2>1 DEF Idle, AgentRec, Pcs
      <2>4. QED  BY <1>3, <2>2, <2>3 DEF OwnJournal, BootPcs
  <1>4. CASE a # Boot
      BY <1>4, IdleRec DEF Ends, OwnJournal, OpPcs
  <1>5. QED  BY <1>3, <1>4

(* A deletion begins. *)
LEMMA StartKeeps ==
    ASSUME IndInv, "bootRaces" \notin Faults, NEW o \in Ops,
           NEW targets \in SUBSET Rows, NEW must \in SUBSET Rows, Start(o, targets, must)
    PROVE  IndInv'
  <1>1. PICK r : r = [Idle EXCEPT !.pc = "lock", !.j = o, !.targets = targets, !.must = must]
      OBVIOUS
  <1>2. r \in AgentRec /\ r.pc = "lock" /\ r.j = o
      BY <1>1 DEF Idle, AgentRec, Pcs
  <1>3. Step(o, r) /\ UNCHANGED <<rows, loc, disk, jrn, lock>>  BY <1>1 DEF Start
  <1>4. Relies(r)  BY <1>2 DEF Start, Unused, Relies, NoLiveIn
  <1>5. o \in Agents /\ o # Boot  BY DeletionConstants DEF Agents
  <1>6. OwnJournal(o, r)  BY <1>2, <1>5 DEF OwnJournal, OpPcs
  <1>7. OneUser'
      <2>1. o # ag[Boot].j /\ o \notin ag[Boot].dirs /\ ~At(Boot, "scan")
          BY DEF Start, Unused, NobodyOn, Agents
      <2>2. QED  BY <1>3, <1>5, <2>1 DEF IndInv, TypeOK, OneUser, Step, At, Agents
  <1>8. QED  BY <1>2, <1>3, <1>4, <1>5, <1>6, <1>7, RecordOnly
             DEF IndInv, TypeOK, JournalPcs

(* Failures and decisions of an operation that change nothing but its record. *)
LEMMA OpRecordsKeep ==
    ASSUME IndInv, NEW o \in Ops,
           TakeLock(o) \/ LockFails(o) \/ MoveFails(o) \/ DeleteFails(o)
    PROVE  IndInv'
  <1>1. o \in Agents /\ o # Boot  BY DeletionConstants DEF Agents
  <1>2. ag[o] \in AgentRec /\ OwnJournal(o, ag[o]) /\ Relies(ag[o])
      BY <1>1 DEF IndInv, TypeOK, AgentsRely
  <1>3. ag[o].pc \in {"lock", "move", "delete"} /\ ag[o].j = o
      BY <1>1, <1>2 DEF TakeLock, LockFails, MoveFails, DeleteFails, At, OwnJournal
  <1>4. UNCHANGED <<rows, loc, disk, jrn>> /\ lock' \in Ops \cup {None}
      BY DEF IndInv, TypeOK, TakeLock, LockFails, MoveFails, DeleteFails, Unlock
  <1>5. CASE TakeLock(o)
      <2>1. PICK r : r = [ag[o] EXCEPT !.pc = "write"]  OBVIOUS
      <2>2. r \in AgentRec /\ r.pc = "write" /\ r.j = o
          BY <1>2, <1>3, <2>1 DEF AgentRec, Pcs
      <2>3. Step(o, r) /\ At(o, "lock")  BY <1>5, <2>1 DEF TakeLock
      <2>4. Relies(r)  BY <1>2, <1>3, <2>2, <2>3 DEF Relies, At
      <2>5. OwnJournal(o, r)  BY <1>1, <2>2 DEF OwnJournal, OpPcs
      <2>6. OneUser'  BY <1>3, <2>3, OpOneUser
      <2>7. QED  BY <1>1, <1>4, <2>2, <2>3, <2>4, <2>5, <2>6, RecordOnly
  <1>6. CASE LockFails(o)
      <2>1. Step(o, Idle)  BY <1>6 DEF LockFails
      <2>2. Relies(Idle) /\ OwnJournal(o, Idle)
          BY <1>1, IdleRec DEF Relies, OwnJournal, OpPcs
      <2>3. OneUser'  BY <2>1, IdleRec, OpOneUser
      <2>4. QED  BY <1>1, <1>4, <2>1, <2>2, <2>3, IdleRec, RecordOnly DEF JournalPcs
  <1>7. CASE MoveFails(o) \/ DeleteFails(o)
      <2>1. PICK r : r = Rollback(o)  OBVIOUS
      <2>2. /\ r \in AgentRec /\ r.pc = "restore" /\ r.j = o
            /\ r.todo = jrn[o].files /\ r.failed = FALSE
          BY <1>2, <1>3, <2>1 DEF Rollback, AgentRec, Pcs, IndInv, TypeOK, JournalRec
      <2>3. Step(o, r)  BY <1>7, <2>1 DEF MoveFails, DeleteFails
      <2>4. \A f \in Files : Owner[f] \in rows /\ loc[f] = o => f \in jrn[o].files
          BY DeletionConstants DEF IndInv, LiveSafe, SafeAt
      <2>5. Relies(r)  BY <2>2, <2>4 DEF Relies
      <2>6. OwnJournal(o, r)  BY <1>1, <2>2 DEF OwnJournal, OpPcs
      <2>7. OneUser'  BY <1>3, <2>3, OpOneUser
      <2>8. QED  BY <1>1, <1>4, <2>2, <2>3, <2>5, <2>6, <2>7, RecordOnly
  <1>8. QED  BY <1>5, <1>6, <1>7

(* The transaction's lock is in no invariant. *)
LEMMA TxExpiresKeeps ==
    ASSUME IndInv, NEW o \in Ops, TxExpires(o)
    PROVE  IndInv'
  BY DEF TxExpires, IndInv, TypeOK, LiveSafe, SafeAt, AgentsRely, OwnJournal, Relies,
         NoLiveIn, FilesOf, OneUser, At

(* A file that could not be moved back, a directory that could not be removed:
   the agent notes it or ends. *)
LEMMA AgentFailsKeep ==
    ASSUME IndInv, NEW a \in Agents,
           (\E f \in Files : RestoreFails(a, f)) \/ RemoveFails(a)
    PROVE  IndInv'
  <1>1. ag[a] \in AgentRec /\ OwnJournal(a, ag[a]) /\ Relies(ag[a])
      BY DEF IndInv, TypeOK, AgentsRely
  <1>2. UNCHANGED <<rows, loc, disk, jrn>>  BY DEF RestoreFails, RemoveFails
  <1>3. lock' \in Ops \cup {None}
      BY DEF RestoreFails, RemoveFails, Unlock, IndInv, TypeOK
  <1>4. CASE \E f \in Files : RestoreFails(a, f)
      <2>1. PICK f \in Files : RestoreFails(a, f)  BY <1>4
      <2>2. PICK r : r = [ag[a] EXCEPT !.todo = @ \ {f}, !.failed = TRUE]  OBVIOUS
      <2>3. /\ r \in AgentRec /\ r.pc = "restore" /\ r.j = ag[a].j /\ r.failed = TRUE
            /\ r.dirs = ag[a].dirs /\ ag[a].pc = "restore"
          BY <1>1, <2>1, <2>2 DEF AgentRec, RestoreFails, At
      <2>4. Step(a, r)  BY <2>1, <2>2 DEF RestoreFails
      <2>5. Relies(r) /\ OwnJournal(a, r)
          BY <1>1, <2>3 DEF Relies, OwnJournal, OpPcs, BootPcs
      <2>6. r.j \in Ops  BY <2>3 DEF IndInv, TypeOK, JournalPcs
      <2>7. OneUser'
          <3>1. CASE a = Boot  BY <2>3, <2>4, <3>1, BootOneUser
          <3>2. CASE a # Boot  BY <2>3, <2>4, <3>2, OpOneUser DEF Agents
          <3>3. QED  BY <3>1, <3>2
      <2>8. QED  BY <1>2, <1>3, <2>3, <2>4, <2>5, <2>6, <2>7, RecordOnly
  <1>5. CASE RemoveFails(a)
      <2>1. PICK r : r = Ends(a)  OBVIOUS
      <2>2. Step(a, r)  BY <1>5, <2>1 DEF RemoveFails
      <2>3. /\ r \in AgentRec /\ r.pc \in {"idle", "next"} /\ r.j = None
            /\ a # Boot => r.pc = "idle"
            /\ a = Boot => r.dirs = ag[a].dirs
            /\ OwnJournal(a, r)
          BY <2>1, EndsOK
      <2>4. Relies(r)  BY <2>3 DEF Relies
      <2>5. OneUser'
          <3>1. CASE a = Boot  BY <2>2, <2>3, <3>1, BootOneUser
          <3>2. CASE a # Boot  BY <2>2, <2>3, <3>2, OpOneUser DEF Agents
          <3>3. QED  BY <3>1, <3>2
      <2>6. QED  BY <1>2, <1>3, <2>2, <2>3, <2>4, <2>5, RecordOnly DEF JournalPcs
  <1>6. QED  BY <1>4, <1>5

(* The recovery reads its directories and asks for the guarded rows. *)
LEMMA BootKeeps ==
    ASSUME IndInv, "bootRaces" \notin Faults, BootStep
    PROVE  IndInv'
  <1>1. Boot \in Agents  BY DEF Agents
  <1>2. ag[Boot] \in AgentRec /\ OwnJournal(Boot, ag[Boot]) /\ Relies(ag[Boot])
      BY <1>1 DEF IndInv, TypeOK, AgentsRely
  <1>3. UNCHANGED <<rows, loc, disk, jrn, lock>> /\ lock' \in Ops \cup {None}
      BY DEF IndInv, TypeOK, BootStep, BootScan, BootGuards, BootGuardsFail, BootDone,
             BootAgain, BootNext
  <1>4. CASE BootScan
      <2>1. PICK D \in SUBSET Ops :
                 Step(Boot, [Idle EXCEPT !.pc = "next", !.dirs = D])
          BY <1>4 DEF BootScan
      <2>2. PICK r : r = [Idle EXCEPT !.pc = "next", !.dirs = D]  OBVIOUS
      <2>3. r \in AgentRec /\ r.pc = "next" /\ r.j = None /\ r.dirs = D
          BY <2>2 DEF Idle, AgentRec, Pcs
      <2>4. Step(Boot, r)  BY <2>1, <2>2
      <2>5. Relies(r) /\ OwnJournal(Boot, r)  BY <2>3 DEF Relies, OwnJournal, BootPcs
      <2>6. OneUser'
          <3>1. \A o \in Ops : ag[o].pc = "idle" /\ ag'[o] = ag[o]
              BY <1>4, <2>4, DeletionConstants
                 DEF BootScan, IndInv, TypeOK, OneUser, Step, Agents
          <3>2. QED  BY <3>1 DEF OneUser
      <2>7. QED  BY <1>1, <1>3, <2>3, <2>4, <2>5, <2>6, RecordOnly DEF JournalPcs
  <1>5. CASE \E o \in Ops : BootNext(o)
      <2>1. PICK o \in Ops : BootNext(o)  BY <1>5
      <2>2. ag[Boot].pc = "next" /\ ag[Boot].j = None /\ o \in ag[Boot].dirs
          BY <1>2, <2>1 DEF BootNext, At, OwnJournal
      <2>3. PICK r : r = IF Readable(o)
                         THEN [ag[Boot] EXCEPT !.pc = "guards", !.j = o, !.dirs = @ \ {o}]
                         ELSE [ag[Boot] EXCEPT !.dirs = @ \ {o}]
          OBVIOUS
      <2>4. /\ r \in AgentRec /\ r.dirs \subseteq ag[Boot].dirs
            /\ (r.pc = "guards" /\ r.j = o) \/ (r.pc = "next" /\ r.j = None)
          BY <1>2, <2>2, <2>3 DEF AgentRec, Pcs
      <2>5. Step(Boot, r)  BY <2>1, <2>3 DEF BootNext
      <2>6. Relies(r) /\ OwnJournal(Boot, r)  BY <2>4 DEF Relies, OwnJournal, BootPcs
      <2>7. OneUser'  BY <2>2, <2>4, <2>5, BootOneUser
      <2>8. QED  BY <1>1, <1>3, <2>4, <2>5, <2>6, <2>7, RecordOnly DEF JournalPcs
  <1>6. CASE BootGuards
      <2>1. ag[Boot].pc = "guards" /\ ag[Boot].j \in Ops
          BY <1>1, <1>6 DEF BootGuards, At, IndInv, TypeOK, JournalPcs
      <2>2. PICK r : r = IF MustRestore(ag[Boot].j)
                         THEN [ag[Boot] EXCEPT !.pc = "restore", !.todo = jrn[ag[Boot].j].files]
                         ELSE [ag[Boot] EXCEPT !.pc = "cleanup"]
          OBVIOUS
      <2>3. /\ r \in AgentRec /\ r.j = ag[Boot].j /\ r.dirs = ag[Boot].dirs
            /\ \/ r.pc = "restore" /\ r.todo = jrn[r.j].files
               \/ r.pc = "cleanup" /\ ~MustRestore(r.j)
          BY <1>2, <2>1, <2>2 DEF AgentRec, Pcs, IndInv, TypeOK, JournalRec
      <2>4. Step(Boot, r)  BY <1>6, <2>2 DEF BootGuards
      <2>5. \A f \in Files : Owner[f] \in rows /\ loc[f] = r.j => f \in jrn[r.j].files
          BY <2>1, <2>3, DeletionConstants DEF IndInv, LiveSafe, SafeAt
      <2>6. Relies(r) /\ OwnJournal(Boot, r)
          BY <2>3, <2>5 DEF Relies, OwnJournal, BootPcs, MustRestore
      <2>7. OneUser'  BY <2>3, <2>4, BootOneUser
      <2>8. QED  BY <1>1, <1>3, <2>1, <2>3, <2>4, <2>6, <2>7, RecordOnly
  <1>7. CASE BootGuardsFail
      <2>1. PICK r : r = Ends(Boot)  OBVIOUS
      <2>2. Step(Boot, r)  BY <1>7, <2>1 DEF BootGuardsFail
      <2>3. /\ r \in AgentRec /\ r.pc \in {"idle", "next"} /\ r.j = None
            /\ r.dirs = ag[Boot].dirs /\ OwnJournal(Boot, r)
          BY <1>1, <2>1, EndsOK
      <2>4. Relies(r)  BY <2>3 DEF Relies
      <2>5. OneUser'  BY <2>2, <2>3, BootOneUser
      <2>6. QED  BY <1>1, <1>3, <2>2, <2>3, <2>4, <2>5, RecordOnly DEF JournalPcs
  <1>8. CASE BootDone
      <2>1. PICK r : r = Idle  OBVIOUS
      <2>2. Step(Boot, r)  BY <1>8, <2>1 DEF BootDone
      <2>4. r \in AgentRec /\ r.pc = "idle" /\ r.j = None /\ r.dirs = {}
          BY <2>1, IdleRec
      <2>5. Relies(r) /\ OwnJournal(Boot, r)  BY <2>4 DEF Relies, OwnJournal, BootPcs
      <2>6. OneUser'  BY <2>2, <2>4, BootOneUser
      <2>7. QED  BY <1>1, <1>3, <2>2, <2>4, <2>5, <2>6, RecordOnly DEF JournalPcs
  <1>9. CASE BootAgain
      <2>1. PICK r : r = [Idle EXCEPT !.pc = "scan"]  OBVIOUS
      <2>2. Step(Boot, r) /\ \A o \in Ops : ag[o].pc = "idle"
          BY <1>9, <2>1 DEF BootAgain, At
      <2>3. r \in AgentRec /\ r.pc = "scan" /\ r.j = None
          BY <2>1 DEF Idle, AgentRec, Pcs
      <2>4. Relies(r) /\ OwnJournal(Boot, r)  BY <2>3 DEF Relies, OwnJournal, BootPcs
      <2>5. OneUser'
          <3>1. \A o \in Ops : ag'[o] = ag[o]
              BY <2>2, DeletionConstants DEF IndInv, TypeOK, Step, Agents
          <3>2. QED  BY <2>2, <3>1 DEF OneUser
      <2>6. QED  BY <1>1, <1>3, <2>2, <2>3, <2>4, <2>5, RecordOnly DEF JournalPcs
  <1>10. QED  BY <1>4, <1>5, <1>6, <1>7, <1>8, <1>9 DEF BootStep

-----------------------------------------------------------------------------
(* Steps on the files, the journals and the rows.                          *)

(* A new row is in place and in no journal. *)
LEMMA RegisterKeeps ==
    ASSUME IndInv, NEW r \in Rows, Register(r)
    PROVE  IndInv'
  <1>1. Touches("orig")
      BY DeletionConstants DEF Register, Touches, IndInv, TypeOK, FilesOf
  <1>2. TypeOK'  BY DEF Register, IndInv, TypeOK, Places
  <1>3. LiveSafe'  BY <1>1, StaysSafe DEF SafeAt
  <1>4. ag' = ag  BY DEF Register
  <1>5. \A b \in Agents : ag[b].j # "orig"
      BY DeletionConstants DEF IndInv, TypeOK, AgentRec
  <1>6. AgentsRely'  BY <1>1, <1>4, <1>5, OthersRely DEF AgentsRely
  <1>7. OneUser'  BY <1>4 DEF IndInv, OneUser, At
  <1>8. QED  BY <1>2, <1>3, <1>6, <1>7 DEF IndInv

(* The journal is written, or fails to be, while its quarantine is empty. *)
LEMMA JournalKeeps ==
    ASSUME IndInv, NEW o \in Ops, WriteJournal(o) \/ JournalFails(o)
    PROVE  IndInv'
  <1>1. o \in Agents /\ o # Boot  BY DeletionConstants DEF Agents
  <1>2. ag[o] \in AgentRec /\ OwnJournal(o, ag[o]) /\ Relies(ag[o])
      BY <1>1 DEF IndInv, TypeOK, AgentsRely
  <1>3. ag[o].pc = "write" /\ ag[o].j = o /\ ag[o].targets \subseteq Rows
      BY <1>1, <1>2 DEF WriteJournal, JournalFails, At, OwnJournal, AgentRec
  <1>4. NoLiveIn(o)  BY <1>2, <1>3 DEF Relies
  <1>5. \A b \in Agents : b # o => ag[b].j # o  BY <1>1, <1>3, Sole
  <1>6. FilesOf(ag[o].targets) \subseteq Files  BY DEF FilesOf
  <1>7. /\ rows' = rows /\ loc' = loc /\ disk' = disk /\ lock' \in Ops \cup {None}
        /\ jrn' \in [Ops -> JournalRec] /\ \A p \in Ops : p # o => jrn'[p] = jrn[p]
      <2>1. \A b \in BOOLEAN : JournalOf(o, b) \in JournalRec
          BY <1>3, <1>6 DEF JournalOf, JournalRec
      <2>2. \E b \in BOOLEAN : jrn' \in {jrn, [jrn EXCEPT ![o] = JournalOf(o, b)]}
          BY DEF WriteJournal, JournalFails
      <2>3. PICK b \in BOOLEAN : jrn' \in {jrn, [jrn EXCEPT ![o] = JournalOf(o, b)]}
          BY <2>2
      <2>4. jrn' \in [Ops -> JournalRec] /\ \A p \in Ops : p # o => jrn'[p] = jrn[p]
          BY <2>1, <2>3 DEF IndInv, TypeOK
      <2>5. QED  BY <2>4 DEF Unlock, WriteJournal, JournalFails, IndInv, TypeOK
  <1>8. Touches(o)  BY <1>7 DEF Touches
  <1>9. \A f \in Files : Owner[f] \in rows' => loc'[f] # o /\ disk'[f] # o
      BY <1>4, <1>7 DEF NoLiveIn
  <1>10. CASE WriteJournal(o)
      <2>1. PICK r : r = [ag[o] EXCEPT !.pc = "move", !.todo = FilesOf(ag[o].targets)]
          OBVIOUS
      <2>2. /\ r \in AgentRec /\ r.pc = "move" /\ r.j = o
            /\ r.todo = FilesOf(ag[o].targets) /\ r.targets = ag[o].targets
          BY <1>2, <1>3, <1>6, <2>1 DEF AgentRec, Pcs
      <2>3. Step(o, r)  BY <1>10, <2>1 DEF WriteJournal
      <2>4. jrn'[o] = [here |-> TRUE, kept |-> TRUE, rows |-> r.targets, files |-> r.todo]
          BY <1>10, <2>2 DEF WriteJournal, JournalOf, IndInv, TypeOK
      <2>5. r.todo = FilesOf(r.targets)  BY <2>2
      <2>6. Relies(r)'  BY <2>2, <2>4, <2>5 DEF Relies, FilesOf
      <2>7. OwnJournal(o, r)  BY <1>1, <2>2 DEF OwnJournal, OpPcs
      <2>8. OneUser'  BY <1>3, <2>3, OpOneUser
      <2>9. TypeOK'  BY <1>7, <2>2, <2>3 DEF IndInv, TypeOK, Step
      <2>10. QED
          BY <1>1, <1>5, <1>8, <1>9, <2>2, <2>3, <2>6, <2>7, <2>8, <2>9, AgentGoesOn
  <1>11. CASE JournalFails(o)
      <2>1. PICK r : r = Idle  OBVIOUS
      <2>2. Step(o, r)  BY <1>11, <2>1 DEF JournalFails
      <2>3. r \in AgentRec /\ r.pc = "idle" /\ r.j = None  BY <2>1, IdleRec
      <2>4. Relies(r)' /\ OwnJournal(o, r)  BY <1>1, <2>3 DEF Relies, OwnJournal, OpPcs
      <2>5. OneUser'  BY <2>2, <2>3, OpOneUser
      <2>6. TypeOK'  BY <1>7, <2>2, <2>3 DEF IndInv, TypeOK, Step, JournalPcs
      <2>7. QED  BY <1>1, <1>5, <1>8, <1>9, <2>2, <2>3, <2>4, <2>5, <2>6, AgentGoesOn
  <1>12. QED  BY <1>10, <1>11

(* A file is moved into the quarantine of a durable journal that names it, and
   the moves are synced. *)
LEMMA MovesKeep ==
    ASSUME IndInv, NEW o \in Ops, (\E f \in Files : MoveFile(o, f)) \/ MovesSynced(o)
    PROVE  IndInv'
  <1>1. o \in Agents /\ o # Boot  BY DeletionConstants DEF Agents
  <1>2. ag[o] \in AgentRec /\ OwnJournal(o, ag[o]) /\ Relies(ag[o])
      BY <1>1 DEF IndInv, TypeOK, AgentsRely
  <1>3. ag[o].pc = "move" /\ ag[o].j = o
      BY <1>1, <1>2 DEF MoveFile, MovesSynced, At, OwnJournal
  <1>4. /\ jrn[o].here /\ jrn[o].kept /\ jrn[o].rows = ag[o].targets
        /\ ag[o].todo \subseteq FilesOf(jrn[o].rows)
        /\ jrn[o].files = FilesOf(jrn[o].rows)
      BY <1>2, <1>3 DEF Relies
  <1>5. \A b \in Agents : b # o => ag[b].j # o  BY <1>1, <1>3, Sole
  <1>6. rows' = rows /\ jrn' = jrn /\ lock' = lock  BY DEF MoveFile, MovesSynced
  <1>7. CASE \E f \in Files : MoveFile(o, f)
      <2>1. PICK f \in Files : MoveFile(o, f)  BY <1>7
      <2>2. PICK r : r = [ag[o] EXCEPT !.todo = @ \ {f}]  OBVIOUS
      <2>3. /\ r \in AgentRec /\ r.pc = "move" /\ r.j = o
            /\ r.todo = ag[o].todo \ {f} /\ r.targets = ag[o].targets
          BY <1>2, <1>3, <2>2 DEF AgentRec
      <2>4. Step(o, r)  BY <2>1, <2>2 DEF MoveFile
      <2>5. /\ disk' = disk /\ loc' \in [Files -> Places]
            /\ \A g \in Files : g # f => loc'[g] = loc[g]
            /\ loc'[f] \in {loc[f], o}
          BY <2>1 DEF MoveFile, IndInv, TypeOK, Places
      <2>6. f \in jrn[o].files /\ Owner[f] \in jrn[o].rows
          BY <1>4, <2>1 DEF MoveFile, FilesOf
      <2>7. Touches(o)  BY <1>6, <2>5 DEF Touches
      <2>8. \A g \in Files : Owner[g] \in rows' /\ (loc'[g] = o \/ disk'[g] = o)
                                => SafeAt(g, o)'
          BY <1>4, <1>6, <2>5, <2>6, DeletionConstants DEF IndInv, LiveSafe, SafeAt
      <2>9. r.todo \subseteq FilesOf(jrn[o].rows)  BY <1>4, <2>3
      <2>10. Relies(r)'
          BY <1>4, <1>6, <2>3, <2>9 DEF Relies, FilesOf
      <2>11. OwnJournal(o, r)  BY <1>1, <2>3 DEF OwnJournal, OpPcs
      <2>12. OneUser'  BY <1>3, <2>4, OpOneUser
      <2>13. TypeOK'  BY <1>6, <2>3, <2>4, <2>5 DEF IndInv, TypeOK, Step
      <2>14. QED
          BY <1>1, <1>5, <2>3, <2>4, <2>7, <2>8, <2>10, <2>11, <2>12, <2>13, AgentGoesOn
  <1>8. CASE MovesSynced(o)
      <2>1. PICK r : r = [ag[o] EXCEPT !.pc = "delete"]  OBVIOUS
      <2>2. r \in AgentRec /\ r.pc = "delete" /\ r.j = o /\ r.targets = ag[o].targets
          BY <1>2, <1>3, <2>1 DEF AgentRec, Pcs
      <2>3. Step(o, r)  BY <1>8, <2>1 DEF MovesSynced
      <2>4. /\ loc' = loc /\ disk' \in [Files -> Places]
            /\ \A f \in Files : disk'[f] = IF loc[f] = o THEN o ELSE disk[f]
          BY <1>8 DEF MovesSynced, IndInv, TypeOK, Places
      <2>5. Touches(o)  BY <1>6, <2>4 DEF Touches
      <2>6. \A f \in Files : Owner[f] \in rows' /\ (loc'[f] = o \/ disk'[f] = o)
                                => SafeAt(f, o)'
          BY <1>6, <2>4 DEF IndInv, LiveSafe, SafeAt
      <2>7. Relies(r)'  BY <1>4, <1>6, <2>2 DEF Relies
      <2>8. OwnJournal(o, r)  BY <1>1, <2>2 DEF OwnJournal, OpPcs
      <2>9. OneUser'  BY <1>3, <2>3, OpOneUser
      <2>10. TypeOK'  BY <1>6, <2>2, <2>3, <2>4 DEF IndInv, TypeOK, Step
      <2>11. QED
          BY <1>1, <1>5, <2>2, <2>3, <2>5, <2>6, <2>7, <2>8, <2>9, <2>10, AgentGoesOn
  <1>9. QED  BY <1>7, <1>8

(* The rows go: the journal's files have no owner any more. *)
LEMMA DeletesKeep ==
    ASSUME IndInv, NEW o \in Ops, DeleteRows(o) \/ AnswerLost(o)
    PROVE  IndInv'
  <1>1. o \in Agents /\ o # Boot  BY DeletionConstants DEF Agents
  <1>2. ag[o] \in AgentRec /\ OwnJournal(o, ag[o]) /\ Relies(ag[o])
      BY <1>1 DEF IndInv, TypeOK, AgentsRely
  <1>3. ag[o].pc = "delete" /\ ag[o].j = o /\ jrn[o].rows = ag[o].targets
      BY <1>1, <1>2 DEF DeleteRows, AnswerLost, At, OwnJournal, Relies
  <1>4. \A b \in Agents : b # o => ag[b].j # o  BY <1>1, <1>3, Sole
  <1>5. /\ rows' \subseteq rows /\ rows' \cap ag[o].targets = {}
        /\ loc' = loc /\ disk' = disk /\ jrn' = jrn /\ lock' \in Ops \cup {None}
      BY <1>3 DEF DeleteRows, AnswerLost, Doomed, Cascade, Unlock, IndInv, TypeOK
  <1>6. Touches(o)  BY <1>5 DEF Touches
  <1>7. \A f \in Files : Owner[f] \in rows' /\ (loc'[f] = o \/ disk'[f] = o)
                            => SafeAt(f, o)'
      BY <1>5 DEF IndInv, LiveSafe, SafeAt
  <1>8. \A f \in Files : Owner[f] \in rows' => loc'[f] # o
      BY <1>3, <1>5, DeletionConstants DEF IndInv, LiveSafe, SafeAt
  <1>9. PICK r : Step(o, r) /\ r \in {[ag[o] EXCEPT !.pc = "cleanup"], Rollback(o)}
      BY DEF DeleteRows, AnswerLost
  <1>10. r \in AgentRec /\ r.pc \in {"cleanup", "restore"} /\ r.j = o
      BY <1>2, <1>3, <1>9 DEF AgentRec, Pcs, Rollback, IndInv, TypeOK, JournalRec
  <1>11. Relies(r)'  BY <1>3, <1>5, <1>8, <1>10 DEF Relies
  <1>12. OwnJournal(o, r)  BY <1>1, <1>10 DEF OwnJournal, OpPcs
  <1>13. OneUser'  BY <1>3, <1>9, OpOneUser
  <1>14. TypeOK'  BY <1>5, <1>9, <1>10 DEF IndInv, TypeOK, Step
  <1>15. QED
      BY <1>1, <1>4, <1>6, <1>7, <1>9, <1>10, <1>11, <1>12, <1>13, <1>14, AgentGoesOn

(* Files go home and, when none is left, that is synced. *)
LEMMA RestoresKeep ==
    ASSUME IndInv, NEW a \in Agents, (\E f \in Files : RestoreFile(a, f)) \/ RestoreSynced(a)
    PROVE  IndInv'
  <1> DEFINE j == ag[a].j
  <1>1. ag[a] \in AgentRec /\ OwnJournal(a, ag[a]) /\ Relies(ag[a])
      BY DEF IndInv, TypeOK, AgentsRely
  <1>2. ag[a].pc = "restore"  BY DEF RestoreFile, RestoreSynced, At
  <1>3. j \in Ops /\ j # "orig"
      BY <1>2, DeletionConstants DEF IndInv, TypeOK, JournalPcs
  <1>4. \A b \in Agents : b # a => ag[b].j # j  BY <1>3, Sole
  <1>5. rows' = rows /\ jrn' = jrn /\ lock' \in Ops \cup {None}
      BY DEF RestoreFile, RestoreSynced, Unlock, IndInv, TypeOK
  <1>6. \A f \in Files : Owner[f] \in rows /\ loc[f] = j => f \in ag[a].todo \/ ag[a].failed
      BY <1>1, <1>2 DEF Relies
  <1>7. CASE \E f \in Files : RestoreFile(a, f)
      <2>1. PICK f \in Files : RestoreFile(a, f)  BY <1>7
      <2>2. PICK r : r = [ag[a] EXCEPT !.todo = @ \ {f}]  OBVIOUS
      <2>3. /\ r \in AgentRec /\ r.pc = "restore" /\ r.j = j /\ r.dirs = ag[a].dirs
            /\ r.todo = ag[a].todo \ {f} /\ r.failed = ag[a].failed
          BY <1>1, <1>2, <2>2 DEF AgentRec
      <2>4. Step(a, r)  BY <2>1, <2>2 DEF RestoreFile
      <2>5. /\ disk' = disk /\ loc' \in [Files -> Places]
            /\ \A g \in Files : g # f => loc'[g] = loc[g]
            /\ loc'[f] = IF loc[f] = j THEN "orig" ELSE loc[f]
          BY <2>1 DEF RestoreFile, IndInv, TypeOK, Places
      <2>6. Touches(j)  BY <1>5, <2>5 DEF Touches
      <2>7. PICK q : q = j  OBVIOUS
      <2>12. \A g \in Files : Owner[g] \in rows' /\ (loc'[g] = q \/ disk'[g] = q)
                                => SafeAt(g, q)'
          BY <1>3, <1>5, <2>5, <2>7 DEF IndInv, LiveSafe, SafeAt
      <2>8. Relies(r)'  BY <1>3, <1>5, <1>6, <2>3, <2>5 DEF Relies
      <2>9. OwnJournal(a, r)  BY <1>1, <1>2, <2>3 DEF OwnJournal
      <2>10. OneUser'
          <3>1. CASE a = Boot  BY <2>3, <2>4, <3>1, BootOneUser
          <3>2. CASE a # Boot  BY <1>2, <2>4, <3>2, OpOneUser DEF Agents
          <3>3. QED  BY <3>1, <3>2
      <2>11. TypeOK'  BY <1>3, <1>5, <2>3, <2>4, <2>5 DEF IndInv, TypeOK, Step
      <2>13. QED
          BY <1>4, <2>3, <2>4, <2>6, <2>7, <2>8, <2>9, <2>10, <2>11, <2>12, AgentGoesOn
  <1>8. CASE RestoreSynced(a) /\ ag[a].failed
      <2>1. PICK r : r = Ends(a)  OBVIOUS
      <2>2. Step(a, r) /\ UNCHANGED <<rows, loc, disk, jrn>>
          BY <1>8, <2>1 DEF RestoreSynced
      <2>3. /\ r \in AgentRec /\ r.pc \in {"idle", "next"} /\ r.j = None
            /\ a # Boot => r.pc = "idle"
            /\ a = Boot => r.dirs = ag[a].dirs
            /\ OwnJournal(a, r)
          BY <2>1, EndsOK
      <2>4. Relies(r)  BY <2>3 DEF Relies
      <2>5. OneUser'
          <3>1. CASE a = Boot  BY <2>2, <2>3, <3>1, BootOneUser
          <3>2. CASE a # Boot  BY <2>2, <2>3, <3>2, OpOneUser DEF Agents
          <3>3. QED  BY <3>1, <3>2
      <2>6. QED  BY <1>5, <2>2, <2>3, <2>4, <2>5, RecordOnly DEF JournalPcs
  <1>9. CASE RestoreSynced(a) /\ ~ag[a].failed
      <2>1. PICK r : r = [ag[a] EXCEPT !.pc = "restored"]  OBVIOUS
      <2>2. r \in AgentRec /\ r.pc = "restored" /\ r.j = j /\ r.dirs = ag[a].dirs
          BY <1>1, <2>1 DEF AgentRec, Pcs
      <2>3. Step(a, r)  BY <1>9, <2>1 DEF RestoreSynced
      <2>4. /\ loc' = loc /\ disk' \in [Files -> Places]
            /\ \A f \in Files : disk'[f] = IF disk[f] = j THEN loc[f] ELSE disk[f]
          BY <1>9 DEF RestoreSynced, IndInv, TypeOK
      <2>5. Touches(j)  BY <1>5, <2>4 DEF Touches
      <2>6. \A f \in Files : Owner[f] \in rows => loc[f] # j
          BY <1>6, <1>9 DEF RestoreSynced
      <2>7. \A f \in Files : Owner[f] \in rows' => loc'[f] # j /\ disk'[f] # j
          BY <1>5, <2>4, <2>6
      <2>8. Relies(r)'  BY <2>2, <2>7 DEF Relies, NoLiveIn
      <2>9. OwnJournal(a, r)
          BY <1>1, <1>2, <2>2 DEF OwnJournal, OpPcs, BootPcs
      <2>10. OneUser'
          <3>1. CASE a = Boot  BY <2>2, <2>3, <3>1, BootOneUser
          <3>2. CASE a # Boot  BY <1>2, <2>3, <3>2, OpOneUser DEF Agents
          <3>3. QED  BY <3>1, <3>2
      <2>11. TypeOK'  BY <1>3, <1>5, <2>2, <2>3, <2>4 DEF IndInv, TypeOK, Step
      <2>12. QED
          BY <1>4, <2>2, <2>3, <2>5, <2>7, <2>8, <2>9, <2>10, <2>11, AgentGoesOn
  <1>10. QED  BY <1>7, <1>8, <1>9

(* An operation's directory is removed when nothing living is left in it. *)
LEMMA RemovalsKeep ==
    ASSUME IndInv, NEW a \in Agents,
           (\E f \in Files : RemoveFile(a, f)) \/ RemoveJournal(a) \/ Removed(a)
    PROVE  IndInv'
  <1> DEFINE j == ag[a].j
  <1>1. ag[a] \in AgentRec /\ OwnJournal(a, ag[a]) /\ Relies(ag[a])
      BY DEF IndInv, TypeOK, AgentsRely
  <1>2. ag[a].pc \in {"restored", "cleanup"}  BY DEF RemoveFile, RemoveJournal, Removed
  <1>3. j \in Ops /\ j # "orig"
      BY <1>2, DeletionConstants DEF IndInv, TypeOK, JournalPcs
  <1>4. \A b \in Agents : b # a => ag[b].j # j  BY <1>3, Sole
  <1>5. \A f \in Files : Owner[f] \in rows => loc[f] # j /\ disk[f] # j
      <2>1. CASE ag[a].pc = "restored"  BY <1>1, <2>1 DEF Relies, NoLiveIn
      <2>2. CASE ag[a].pc = "cleanup"
          <3>1. jrn[j].rows \cap rows = {}  BY <1>1, <2>2 DEF Relies
          <3>2. QED  BY <1>3, <3>1 DEF IndInv, LiveSafe, SafeAt
      <2>3. QED  BY <1>2, <2>1, <2>2
  <1>6. /\ rows' = rows /\ lock' \in Ops \cup {None}
        /\ loc' \in [Files -> Places] /\ disk' \in [Files -> Places]
        /\ \A f \in Files : loc[f] # j => loc'[f] = loc[f]
        /\ \A f \in Files : disk[f] # j => disk'[f] = disk[f]
        /\ jrn' \in [Ops -> JournalRec]
        /\ \A o \in Ops : o # j => jrn'[o] = jrn[o]
        /\ jrn'[j].rows \subseteq jrn[j].rows
      <2>1. CASE \E f \in Files : RemoveFile(a, f)
          BY <2>1 DEF RemoveFile, IndInv, TypeOK, Places
      <2>2. CASE RemoveJournal(a)
          BY <1>3, <2>2 DEF RemoveJournal, IndInv, TypeOK, JournalRec
      <2>3. CASE Removed(a)
          <3>1. NoJournal \in JournalRec /\ NoJournal.rows = {}
              BY DEF NoJournal, JournalRec
          <3>2. CASE At(a, "restored")
              BY <1>3, <2>3, <3>1, <3>2 DEF Removed, Unlock, IndInv, TypeOK
          <3>3. CASE ~At(a, "restored")
              BY <1>3, <2>3, <3>3 DEF Removed, Unlock, IndInv, TypeOK
          <3>4. QED  BY <3>2, <3>3
      <2>4. QED  BY <2>1, <2>2, <2>3
  <1>7. Touches(j)  BY <1>5, <1>6 DEF Touches
  <1>8. \A f \in Files : Owner[f] \in rows' => loc'[f] # j /\ disk'[f] # j
      BY <1>5, <1>6
  <1>9. CASE (\E f \in Files : RemoveFile(a, f)) \/ RemoveJournal(a)
      <2>1. PICK r : r = ag[a]  OBVIOUS
      <2>2. ag' = ag  BY <1>9 DEF RemoveFile, RemoveJournal
      <2>3. Step(a, r)  BY <2>1, <2>2 DEF Step, IndInv, TypeOK
      <2>4. Relies(r)'
          <3>1. r.pc = "cleanup" => jrn'[r.j].rows \cap rows' = {}
              BY <1>1, <1>6, <2>1 DEF Relies
          <3>2. QED  BY <1>2, <1>8, <2>1, <3>1 DEF Relies, NoLiveIn
      <2>5. OneUser'  BY <2>2 DEF IndInv, OneUser, At
      <2>6. TypeOK'  BY <1>6, <2>2 DEF IndInv, TypeOK
      <2>7. QED  BY <1>1, <1>4, <1>7, <1>8, <2>1, <2>3, <2>4, <2>5, <2>6, AgentGoesOn
  <1>10. CASE Removed(a)
      <2>1. PICK r : r = Ends(a)  OBVIOUS
      <2>2. Step(a, r)  BY <1>10, <2>1 DEF Removed
      <2>3. /\ r \in AgentRec /\ r.pc \in {"idle", "next"} /\ r.j = None
            /\ a # Boot => r.pc = "idle"
            /\ a = Boot => r.dirs = ag[a].dirs
            /\ OwnJournal(a, r)
          BY <2>1, EndsOK
      <2>4. Relies(r)'  BY <2>3 DEF Relies
      <2>5. OneUser'
          <3>1. CASE a = Boot  BY <2>2, <2>3, <3>1, BootOneUser
          <3>2. CASE a # Boot  BY <2>2, <2>3, <3>2, OpOneUser DEF Agents
          <3>3. QED  BY <3>1, <3>2
      <2>6. TypeOK'  BY <1>6, <2>2, <2>3 DEF IndInv, TypeOK, Step, JournalPcs
      <2>7. QED  BY <1>4, <1>7, <1>8, <2>2, <2>3, <2>4, <2>5, <2>6, AgentGoesOn
  <1>11. QED  BY <1>9, <1>10

(* Writing back what a removal left concerns no living file. *)
LEMMA WriteBackKeeps ==
    ASSUME IndInv, NEW o \in Ops, WriteBack(o)
    PROVE  IndInv'
  <1>1. \A f \in Files : Owner[f] \in rows => loc[f] # o /\ disk[f] # o
      BY DeletionConstants DEF WriteBack, IndInv, LiveSafe, SafeAt
  <1>2. NoJournal \in JournalRec  BY DEF NoJournal, JournalRec
  <1>3. /\ UNCHANGED <<rows, loc, ag, lock>>
        /\ disk' \in [Files -> Places]
        /\ \A f \in Files : disk'[f] = IF disk[f] = o THEN loc[f] ELSE disk[f]
        /\ jrn' \in [Ops -> JournalRec] /\ \A p \in Ops : p # o => jrn'[p] = jrn[p]
      BY <1>2 DEF WriteBack, IndInv, TypeOK
  <1>4. Touches(o)  BY <1>3 DEF Touches
  <1>5. TypeOK'  BY <1>3 DEF IndInv, TypeOK
  <1>6. LiveSafe'  BY <1>1, <1>3, <1>4, StaysSafe
  <1>7. \A b \in Agents : ag[b].j # o  BY DEF WriteBack, NobodyOn
  <1>8. AgentsRely'  BY <1>3, <1>4, <1>7, OthersRely DEF AgentsRely
  <1>9. OneUser'  BY <1>3 DEF IndInv, OneUser, At
  <1>10. QED  BY <1>5, <1>6, <1>8, <1>9 DEF IndInv

(* After a crash every living file is where it was or where it was synced, and
   the journal it needs survived with it. *)
LEMMA CrashKeeps ==
    ASSUME IndInv, Crash
    PROVE  IndInv'
  <1>1. PICK lost, lostJ :
          /\ loc' = [f \in Files |-> IF f \in lost THEN disk[f] ELSE loc[f]]
          /\ jrn' = [o \in Ops |-> AfterLoss(o, o \in lostJ)]
      BY DEF Crash
  <1>2. /\ disk' = loc' /\ rows' = rows /\ lock' = None
        /\ ag' = [a \in Agents |-> IF a = Boot THEN [Idle EXCEPT !.pc = "scan"] ELSE Idle]
      BY DEF Crash
  <1>3. \A o \in Ops : jrn[o] \in JournalRec  BY DEF IndInv, TypeOK
  <1>4. /\ jrn' \in [Ops -> JournalRec]
        /\ \A o \in Ops : jrn[o].here /\ jrn[o].kept =>
              /\ jrn'[o].here /\ jrn'[o].kept
              /\ jrn'[o].rows = jrn[o].rows /\ jrn'[o].files = jrn[o].files
      <2>1. \A o \in Ops, u \in BOOLEAN :
              /\ AfterLoss(o, u) \in JournalRec
              /\ jrn[o].here /\ jrn[o].kept =>
                   /\ AfterLoss(o, u).here /\ AfterLoss(o, u).kept
                   /\ AfterLoss(o, u).rows = jrn[o].rows
                   /\ AfterLoss(o, u).files = jrn[o].files
          BY <1>3 DEF AfterLoss, JournalRec, NoJournal
      <2>2. \A o \in Ops : (o \in lostJ) \in BOOLEAN  OBVIOUS
      <2>3. QED  BY <1>1, <2>1, <2>2
  <1>5. loc' \in [Files -> Places]  BY <1>1 DEF IndInv, TypeOK
  <1>6. /\ [Idle EXCEPT !.pc = "scan"] \in AgentRec
        /\ [Idle EXCEPT !.pc = "scan"].pc = "scan" /\ [Idle EXCEPT !.pc = "scan"].j = None
        /\ Idle \in AgentRec /\ Idle.pc = "idle" /\ Idle.j = None
      BY DEF Idle, AgentRec, Pcs
  <1>7. \A a \in Agents : /\ ag'[a] \in AgentRec /\ ag'[a].j = None
                          /\ ag'[a].pc = IF a = Boot THEN "scan" ELSE "idle"
      BY <1>2, <1>6
  <1>8. TypeOK'  BY <1>2, <1>4, <1>5, <1>7 DEF IndInv, TypeOK, JournalPcs
  <1>9. LiveSafe'
      <2> SUFFICES ASSUME NEW f \in Files, Owner[f] \in rows
                   PROVE  SafeAt(f, loc[f])'
          BY <1>2 DEF LiveSafe, SafeAt
      <2>1. loc'[f] \in {loc[f], disk[f]}  BY <1>1
      <2>2. SafeAt(f, loc[f]) /\ SafeAt(f, disk[f])  BY DEF IndInv, LiveSafe
      <2>3. QED  BY <1>4, <2>1, <2>2 DEF SafeAt
  <1>10. AgentsRely'
      BY <1>7 DEF AgentsRely, OwnJournal, Relies, OpPcs, BootPcs
  <1>11. OneUser'  BY <1>7, DeletionConstants DEF OneUser, Agents
  <1>12. QED  BY <1>8, <1>9, <1>10, <1>11 DEF IndInv

-----------------------------------------------------------------------------
(* The theorems.                                                           *)

(* The initial state satisfies the invariant. *)
LEMMA InitOK == Init => IndInv
  <1> SUFFICES ASSUME Init PROVE IndInv
      OBVIOUS
  <1>1. /\ [Idle EXCEPT !.pc = "scan"] \in AgentRec
        /\ [Idle EXCEPT !.pc = "scan"].pc = "scan" /\ [Idle EXCEPT !.pc = "scan"].j = None
        /\ Idle \in AgentRec /\ Idle.pc = "idle" /\ Idle.j = None
      BY DEF Idle, AgentRec, Pcs
  <1>2. \A a \in Agents : /\ ag[a] \in AgentRec /\ ag[a].j = None
                          /\ ag[a].pc = IF a = Boot THEN "scan" ELSE "idle"
      BY <1>1 DEF Init
  <1>3. NoJournal \in JournalRec  BY DEF NoJournal, JournalRec
  <1>4. ag \in [Agents -> AgentRec]  BY <1>2 DEF Init
  <1>5. TypeOK  BY <1>2, <1>3, <1>4 DEF Init, TypeOK, Places, JournalPcs
  <1>6. LiveSafe  BY DEF Init, LiveSafe, SafeAt
  <1>7. AgentsRely
      BY <1>2 DEF AgentsRely, OwnJournal, Relies, OpPcs, BootPcs
  <1>8. OneUser  BY <1>2, DeletionConstants DEF OneUser, Agents
  <1>9. QED  BY <1>5, <1>6, <1>7, <1>8 DEF IndInv

(* Every step keeps it. *)
LEMMA NextKeeps ==
    ASSUME IndInv, "bootRaces" \notin Faults, [Next]_vars
    PROVE  IndInv'
  <1>1. CASE \E o \in Ops : OpStep(o)
      <2>1. PICK o \in Ops : OpStep(o)  BY <1>1
      <2>2. CASE \E r \in Recs : DeleteRecording(o, r)
          <3>1. PICK r \in Recs : DeleteRecording(o, r)  BY <2>2
          <3>2. QED  BY <3>1, StartKeeps DEF DeleteRecording, Rows
      <2>3. CASE \E k \in Clips : DeleteClip(o, k)
          BY <2>3, StartKeeps DEF DeleteClip, Rows
      <2>4. CASE DeleteAll(o)
          BY <2>4, StartKeeps DEF DeleteAll, IndInv, TypeOK
      <2>5. QED
          BY <2>1, <2>2, <2>3, <2>4, OpRecordsKeep, JournalKeeps, MovesKeep,
             TxExpiresKeeps, DeletesKeep DEF OpStep
  <1>2. CASE \E o \in Ops : WriteBack(o)  BY <1>2, WriteBackKeeps
  <1>3. CASE \E a \in Agents : AgentStep(a)
      BY <1>3, AgentFailsKeep, RestoresKeep, RemovalsKeep DEF AgentStep
  <1>4. CASE BootStep  BY <1>4, BootKeeps
  <1>5. CASE \E r \in Rows : Register(r)  BY <1>5, RegisterKeeps
  <1>6. CASE Crash  BY <1>6, CrashKeeps
  <1>7. CASE UNCHANGED vars
      BY <1>7 DEF vars, IndInv, TypeOK, LiveSafe, SafeAt, AgentsRely, OwnJournal, Relies,
                  NoLiveIn, FilesOf, OneUser, At
  <1>8. QED  BY <1>1, <1>2, <1>3, <1>4, <1>5, <1>6, <1>7 DEF Next

(* The inductive invariant holds in every state, if no recovery is started
   beside running deletions. *)
THEOREM Inductive ==
    ASSUME "bootRaces" \notin Faults
    PROVE  Spec => []IndInv
  <1>1. Init => IndInv  BY InitOK
  <1>2. IndInv /\ [Next]_vars => IndInv'  BY NextKeeps
  <1>3. QED  BY <1>1, <1>2, PTL DEF Spec

(* Every variable keeps its type, and an agent whose step of the deletion or of
   the recovery is about a journal knows which. *)
THEOREM Typing ==
    ASSUME "bootRaces" \notin Faults
    PROVE  Spec => []TypeOK
  <1>1. IndInv => TypeOK  BY DEF IndInv
  <1>2. QED  BY <1>1, Inductive, PTL

(* No file of a recording or clip that has its row is ever lost: power loss,
   failed renames, failed transactions and lost answers included, as long as
   every journal is small enough for the recovery to read. *)
THEOREM FilesNotLost ==
    ASSUME "bootRaces" \notin Faults,
           \A S \in SUBSET Files : Cardinality(S) <= MaxEntries
    PROVE  Spec => []NothingLost
  <1>1. IndInv => NothingLost
      <2> SUFFICES ASSUME IndInv, NEW f \in Files, Owner[f] \in rows
                   PROVE  Recoverable(f)
          BY DEF NothingLost
      <2>1. SafeAt(f, loc[f])  BY DEF IndInv, LiveSafe
      <2>2. loc[f] \in Ops => jrn[loc[f]].files \in SUBSET Files
          BY DEF IndInv, TypeOK, JournalRec
      <2>3. QED  BY <2>1, <2>2 DEF SafeAt, Recoverable, Readable
  <1>2. QED  BY <1>1, Inductive, PTL
=============================================================================
