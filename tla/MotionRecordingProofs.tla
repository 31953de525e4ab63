------------------------ MODULE MotionRecordingProofs ------------------------
(***************************************************************************)
(* Recording on movement, for any number of movements at a time and any    *)
(* durations of post-roll, start and pre-event window.                     *)
(*                                                                         *)
(* A recording ends.  RecordingEnds bounds a time and says nothing of who  *)
(* will stop the recorder.  The invariant names him: a recorder in the map *)
(* has a handler that is going to set the quiet timer or to roll it back,  *)
(* or the timer, or a call that is about to stop it (Answered), and none   *)
(* of these comes later than the deadline of the last movement (Ages,      *)
(* TimerOK).  The quiet timer's call gives up when the row says that the   *)
(* camera is not armed or does not record: that it is then right to do so  *)
(* is what WishOK and ModeOK are for.                                      *)
(*                                                                         *)
(* Ring or recorder.  The handlers drop the ring only with a recorder in   *)
(* the map and the timer ends the recorder only with a ring, so the proof  *)
(* is that neither happens beside the other: the timer runs only with a    *)
(* recorder, and because the post-roll is longer than the longest handler  *)
(* it never fires on one that has found no recorder (TimerCovered).        *)
(*                                                                         *)
(* The beginning of an event.  Of every handler past its row read, what is *)
(* left in the ring is older than its window, or later than its movement,  *)
(* or on its list (Sought, SoughtAgain), and the oldest segment of a list  *)
(* goes first (Underway).  A start that is not longer than the window then *)
(* makes what one handler drops too old for all the others (OldForAll).    *)
(***************************************************************************)
EXTENDS MotionRecording, TLAPS, WellFoundedInduction

MotionPcs == {"idle", "row", "promote", "start", "keep", "probe", "commit", "again",
              "rollback", "event", "ring"}

PcsOf(c) == IF c = "quiet" THEN {"idle", "row", "ring", "stop", "kill"}
            ELSE IF c = "operator" THEN {"idle", "stop", "kill", "write"}
            ELSE IF c = "arming" THEN {"idle", "ring"}
            ELSE MotionPcs

AllPcs == Quick \cup Slow \cup {"idle", "probe"}

CallRec == [pc : AllPcs, at : Nat, trigger : Nat, todo : SUBSET Nat,
            victim : Motions \cup {None}, want : {"motion", "manual"}]

TypeInv ==
    /\ mode \in {"motion", "manual"} /\ desired \in BOOLEAN
    /\ active \in Motions \cup {None}
    /\ buffer \in SUBSET Nat
    /\ timer \in Nat /\ now \in Nat /\ last \in Nat /\ last <= now
    /\ call \in [Calls -> CallRec]
    /\ \A c \in Calls : call[c].pc \in PcsOf(c)

(* The gaps RecordingEnds leaves out have not been met. *)
Sound == gaps \cap {"overlap", "unattended"} = {}

Deadline == last + MaxStart + 2 + PostRoll

(* How long a call has been where it is: nobody stays in a query while a slot
   passes, and in a promotion or a kill only while one does. *)
Age(k) ==
    /\ k.at <= now
    /\ k.pc \in Quick => now = k.at
    /\ k.pc \in Slow => now <= k.at + 1
    /\ k.pc = "probe" => now <= k.at + MaxStart

(* When a handler gets to its awaits, counted from its movement. *)
HandlerAge(k) ==
    /\ k.trigger <= last
    /\ k.pc \in {"row", "promote"} => k.at <= k.trigger
    /\ k.pc \in {"start", "keep", "probe"} => k.at <= k.trigger + 1
    /\ k.pc \in {"commit", "again", "rollback"} => k.at <= k.trigger + 1 + MaxStart
    /\ k.pc = "event" => k.at <= k.trigger + 2 + MaxStart

Ages ==
    /\ \A c \in Calls \ {"arming"} : Age(call[c])
    /\ \A m \in Motions : HandlerAge(call[m])

TimerOK ==
    /\ timer # 0 => now <= timer
    /\ timer <= Deadline
    /\ Busy("quiet") => call["quiet"].at <= Deadline

(* The operator's request has the camera for itself. *)
OperatorAlone ==
    Sound /\ Busy("operator") =>
        /\ timer = 0 /\ \A c \in Calls \ {"operator"} : ~Busy(c)
        /\ active # None => call["operator"].at <= Deadline
        /\ At("operator", "kill") => call["operator"].victim = active
        /\ At("operator", "write") => active = None

Stopping(c) == At(c, "kill") /\ call[c].victim = active

(* Somebody answers for the recorder in the map. *)
Answered ==
    Sound /\ active # None =>
        \/ timer # 0
        \/ call["quiet"].pc \in {"row", "ring", "stop"}
        \/ At("operator", "stop")
        \/ Stopping("quiet") \/ Stopping("operator")
        \/ call[active].pc \in {"commit", "again", "event", "rollback"}

(* A recorder that the row does not ask for is being started or stopped. *)
WishOK ==
    Sound /\ active # None /\ ~desired =>
        \/ Stopping("quiet") \/ Stopping("operator")
        \/ call[active].pc \in {"commit", "rollback"}

(* A camera that is not armed has no recorder, and no handler starts one. *)
ModeOK ==
    Sound /\ mode # "motion" =>
        active = None /\ \A m \in Motions : call[m].pc \in {"idle", "row"}

MotionInv == TypeInv /\ Ages /\ TimerOK /\ OperatorAlone /\ Answered /\ WishOK /\ ModeOK

-----------------------------------------------------------------------------
(* Consequences and frames.                                                *)

LEMMA CallsApart ==
    /\ {"quiet", "operator", "arming"} \subseteq Calls /\ Motions \subseteq Calls
    /\ \A m \in Motions : m \notin {"quiet", "operator", "arming", None} /\ PcsOf(m) = MotionPcs
    /\ PcsOf("quiet") = {"idle", "row", "ring", "stop", "kill"}
    /\ PcsOf("operator") = {"idle", "stop", "kill", "write"}
    /\ PcsOf("arming") = {"idle", "ring"}
BY Constants DEF Calls, PcsOf

LEMMA IdleTyped == Idle \in CallRec /\ Idle.pc = "idle" /\ Idle.at = 0 /\ Idle.trigger = 0
BY DEF Idle, CallRec, AllPcs

(* Whoever answers for the recorder has the deadline in sight. *)
LEMMA InTime == MotionInv => RecordingEnds
<1> SUFFICES ASSUME MotionInv, active # None, Sound
             PROVE  now <= Deadline + 1
  BY DEF RecordingEnds, Sound, Deadline
<1>1. /\ PostRoll \in Nat /\ MaxStart \in Nat /\ now \in Nat /\ last \in Nat /\ timer \in Nat
      /\ active \in Motions /\ call \in [Calls -> CallRec]
      /\ {"quiet", "operator"} \subseteq Calls \ {"arming"}
      /\ active \in Calls \ {"arming"}
  BY Constants, CallsApart DEF MotionInv, TypeInv
<1>2. \A c \in {"quiet", "operator", active} : call[c].at \in Nat /\ call[c].trigger \in Nat /\ Age(call[c])
  BY <1>1 DEF CallRec, MotionInv, Ages
<1>3. Deadline \in Nat
  BY <1>1 DEF Deadline
<1>4. CASE timer # 0
  BY <1>1, <1>3, <1>4 DEF MotionInv, TimerOK
<1>5. CASE call["quiet"].pc \in {"row", "ring", "stop", "kill"}
  BY <1>1, <1>2, <1>3, <1>5 DEF MotionInv, TimerOK, Age, Quick, Slow, Busy
<1>6. CASE call["operator"].pc \in {"stop", "kill"}
  BY <1>1, <1>2, <1>3, <1>6 DEF MotionInv, OperatorAlone, Age, Quick, Slow, Busy
<1>7. CASE call[active].pc \in {"commit", "again", "event", "rollback"}
  <2>1. HandlerAge(call[active])
    BY <1>1 DEF MotionInv, Ages
  <2>2. now <= call[active].trigger + 2 + MaxStart
    BY <1>1, <1>2, <1>7, <2>1 DEF Age, HandlerAge, Quick, Slow
  <2> QED BY <1>1, <1>2, <2>1, <2>2 DEF HandlerAge, Deadline
<1> QED BY <1>4, <1>5, <1>6, <1>7 DEF MotionInv, Answered, Stopping, At

Answering == {"commit", "again", "event", "rollback"}
Startup   == {"commit", "rollback"}

LEMMA LaterDeadline ==
    ASSUME NEW a \in Nat, NEW b \in Nat, a <= b
    PROVE  \E x \in Nat, y \in Nat : /\ x = a + MaxStart + 2 + PostRoll
                                     /\ y = b + MaxStart + 2 + PostRoll /\ x <= y
<1>1. PostRoll \in Nat /\ MaxStart \in Nat
  BY Constants
<1> QED BY <1>1

LEMMA DeadlineMoves ==
    ASSUME last \in Nat, now \in Nat, last <= now, last' \in {last, now}
    PROVE  /\ last' \in Nat /\ last <= last' /\ last' <= now
           /\ Deadline \in Nat /\ Deadline' \in Nat /\ Deadline <= Deadline'
<1>2. last' \in Nat /\ last <= last' /\ last' <= now
  OBVIOUS
<1>3. PICK a \in Nat, b \in Nat : a = last /\ b = last' /\ a <= b
  BY <1>2
<1>4. PICK x \in Nat, y \in Nat : /\ x = a + MaxStart + 2 + PostRoll
                                  /\ y = b + MaxStart + 2 + PostRoll /\ x <= y
  BY <1>3, LaterDeadline
<1>5. Deadline = x /\ Deadline' = y
  BY <1>3, <1>4 DEF Deadline
<1> QED BY <1>2, <1>4, <1>5

(* A step of a handler, with what it has to leave behind. *)
LEMMA HandlerStep ==
    ASSUME MotionInv, NEW m \in Motions, NEW r \in CallRec, r.pc \in MotionPcs,
           call' = [call EXCEPT ![m] = r], Age(r), HandlerAge(r)',
           UNCHANGED <<mode, now>>, last' \in {last, now}, gaps \subseteq gaps',
           desired' \in {desired, TRUE}, buffer' \in SUBSET Nat,
           \/ timer' = timer
           \/ timer' = now + PostRoll /\ now + PostRoll <= Deadline',
           active' \in {active, None, m},
           Sound' => /\ Busy(m) \/ ~Busy("operator")
                     /\ active' = m /\ timer' = 0 =>
                          r.pc \in Answering \/ (active = m /\ call[m].pc \notin Answering)
                     /\ active' = m /\ ~desired' =>
                          r.pc \in Startup \/ (active = m /\ call[m].pc \notin Startup)
                     /\ \/ mode = "motion" \/ call[m].pc \notin {"idle", "row"}
                        \/ r.pc \in {"idle", "row"} /\ active' \in {active, None}
    PROVE  MotionInv'
<1>1. /\ PostRoll \in Nat \ {0} /\ MaxStart \in Nat /\ now \in Nat /\ last \in Nat /\ timer \in Nat
      /\ active \in Motions \cup {None} /\ call \in [Calls -> CallRec] /\ last <= now
      /\ m \in Calls
  BY Constants, CallsApart DEF MotionInv, TypeInv
<1>2. call'[m] = r /\ \A c \in Calls : c # m => call'[c] = call[c]
  BY <1>1
<1>3. last' \in Nat /\ last <= last' /\ last' <= now /\ Deadline <= Deadline' /\ Deadline \in Nat
      /\ Deadline' \in Nat
  BY <1>1, DeadlineMoves
<1>4. Sound' => Sound
  BY DEF Sound
<1>5. m \notin {"quiet", "operator", "arming", None} /\ {"quiet", "operator", "arming"} \subseteq Calls
      /\ Motions \subseteq Calls
  BY CallsApart
<1>6. timer' \in Nat /\ (timer # 0 => timer' # 0) /\ (timer' # timer => timer' # 0)
  BY <1>1
<1>7. TypeInv'
  <2>1. call' \in [Calls -> CallRec] /\ \A c \in Calls : call'[c].pc \in PcsOf(c)
    BY <1>1, <1>2, CallsApart DEF MotionInv, TypeInv
  <2>2. mode' \in {"motion", "manual"} /\ desired' \in BOOLEAN /\ active' \in Motions \cup {None}
    BY <1>1 DEF MotionInv, TypeInv
  <2> QED BY <1>1, <1>3, <1>6, <2>1, <2>2 DEF TypeInv
<1>8. Ages'
  <2>1. ASSUME NEW c \in Calls \ {"arming"}
        PROVE  Age(call[c])'
    <3>1. PICK k : k = call'[c]
      OBVIOUS
    <3>2. Age(k)
      BY <1>2, <3>1 DEF MotionInv, Ages
    <3> QED BY <3>1, <3>2 DEF Age
  <2>2. ASSUME NEW h \in Motions
        PROVE  HandlerAge(call[h])'
    <3>1. CASE h = m
      BY <1>2, <3>1 DEF HandlerAge
    <3>2. CASE h # m
      <4>1. PICK k \in CallRec : k = call[h] /\ k = call'[h]
        BY <1>1, <1>2, <1>5, <3>2
      <4>2. HandlerAge(k)
        BY <4>1 DEF MotionInv, Ages
      <4>3. k.trigger \in Nat
        BY DEF CallRec
      <4>4. HandlerAge(k)'
        BY <1>1, <1>3, <4>2, <4>3 DEF HandlerAge
      <4> QED BY <4>1, <4>4 DEF HandlerAge
    <3> QED BY <3>1, <3>2
  <2> QED BY <2>1, <2>2 DEF Ages
<1>9. TimerOK'
  <2>1. timer' # 0 => now <= timer'
    BY <1>1 DEF MotionInv, TimerOK
  <2>2. timer' <= Deadline'
    BY <1>1, <1>3 DEF MotionInv, TimerOK
  <2>3. Busy("quiet")' => call'["quiet"].at <= Deadline'
    <3>1. call'["quiet"] = call["quiet"] /\ call["quiet"].at \in Nat
      BY <1>1, <1>2, <1>5 DEF CallRec
    <3> QED BY <1>1, <1>3, <3>1 DEF MotionInv, TimerOK, Busy
  <2> QED BY <2>1, <2>2, <2>3 DEF TimerOK
<1>10. Sound' => ~Busy("operator") /\ ~Busy("operator")'
  <2>1. Sound /\ Busy("operator") => ~Busy(m)
    BY <1>1, <1>5 DEF MotionInv, OperatorAlone
  <2> QED BY <1>2, <1>4, <1>5, <2>1 DEF Busy
<1>11. OperatorAlone'
  BY <1>10 DEF OperatorAlone
<1>12. ASSUME Sound', active' # None, timer' = 0
       PROVE  Answered'
  <2>1. CASE active' = m
    <3>1. CASE r.pc \in Answering
      BY <1>2, <2>1, <3>1 DEF Answered, Answering
    <3>2. CASE active = m /\ call[m].pc \notin Answering
      <4>1. \/ timer # 0 \/ call["quiet"].pc \in {"row", "ring", "stop"} \/ Stopping("quiet")
        BY <1>4, <1>5, <1>10, <1>12, <3>2 DEF MotionInv, Answered, Answering, Stopping, At, Busy
      <4> QED BY <1>2, <1>5, <1>6, <1>12, <2>1, <3>2, <4>1 DEF Answered, Stopping, At
    <3> QED BY <1>12, <2>1, <3>1, <3>2
  <2>2. CASE active' # m
    <3>1. active' = active /\ active \in Calls /\ active # m
      BY <1>1, <1>5, <1>12, <2>2
    <3> QED BY <1>2, <1>4, <1>5, <1>6, <1>10, <1>12, <3>1 DEF MotionInv, Answered, Stopping, At, Busy
  <2> QED BY <2>1, <2>2
<1>13. Answered'
  BY <1>6, <1>12 DEF Answered
<1>14. WishOK'
  <2>1. ASSUME Sound', active' # None, ~desired'
        PROVE  WishOK'
    <3>0. ~desired
      BY <2>1 DEF MotionInv, TypeInv
    <3>1. CASE active' = m
      <4>1. CASE r.pc \in Startup
        BY <1>2, <3>1, <4>1 DEF WishOK, Startup
      <4>2. CASE active = m /\ call[m].pc \notin Startup
        <5>1. Stopping("quiet")
          BY <1>4, <1>5, <1>10, <2>1, <3>0, <4>2 DEF MotionInv, WishOK, Startup, Stopping, At, Busy
        <5> QED BY <1>2, <1>5, <3>1, <4>2, <5>1 DEF WishOK, Stopping, At
      <4> QED BY <2>1, <3>1, <4>1, <4>2
    <3>2. CASE active' # m
      <4>1. active' = active /\ active \in Calls /\ active # m
        BY <1>1, <1>5, <2>1, <3>2
      <4> QED BY <1>2, <1>4, <1>5, <1>10, <2>1, <3>0, <4>1 DEF MotionInv, WishOK, Stopping, At, Busy
    <3> QED BY <3>1, <3>2
  <2> QED BY <2>1 DEF WishOK
<1>15. ModeOK'
  <2>1. ASSUME Sound', mode # "motion"
        PROVE  active' = None /\ \A h \in Motions : call'[h].pc \in {"idle", "row"}
    <3>1. active = None /\ \A h \in Motions : call[h].pc \in {"idle", "row"}
      BY <1>4, <2>1 DEF MotionInv, ModeOK
    <3>2. r.pc \in {"idle", "row"} /\ active' = None
      BY <2>1, <3>1
    <3> QED BY <1>2, <1>5, <3>1, <3>2
  <2> QED BY <2>1 DEF ModeOK
<1> QED BY <1>7, <1>8, <1>9, <1>11, <1>13, <1>14, <1>15 DEF MotionInv

-----------------------------------------------------------------------------
(* The steps of a handler.                                                 *)

(* Where a call goes. *)
LEMMA GoRec ==
    ASSUME MotionInv, NEW c \in Calls, NEW q \in AllPcs, Go(c, q)
    PROVE  \E r \in CallRec : /\ call' = [call EXCEPT ![c] = r]
                              /\ r.pc = q /\ r.at = now /\ r.trigger = call[c].trigger
                              /\ r.victim = call[c].victim /\ r.want = call[c].want
<1>1. call \in [Calls -> CallRec] /\ call[c] \in CallRec /\ now \in Nat
  BY DEF MotionInv, TypeInv
<1>2. PICK r : r = [call[c] EXCEPT !.pc = q, !.at = now, !.todo = {}]
  OBVIOUS
<1>3. r \in CallRec
  BY <1>1, <1>2 DEF CallRec
<1>4. /\ r.pc = q /\ r.at = now /\ r.trigger = call[c].trigger
      /\ r.victim = call[c].victim /\ r.want = call[c].want
  BY <1>1, <1>2 DEF CallRec
<1>5. call' = [call EXCEPT ![c] = r]
  BY <1>1, <1>2 DEF Go
<1> QED BY <1>3, <1>4, <1>5

LEMMA PromoteRec ==
    ASSUME MotionInv, NEW c \in Calls, NEW q \in AllPcs, NEW n \in Nat, NEW todo \in SUBSET Nat,
           Promote(c, q, n, todo)
    PROVE  \E r \in CallRec : /\ call' = [call EXCEPT ![c] = r]
                              /\ r.pc = q /\ r.at = n /\ r.trigger = call[c].trigger
<1>1. call \in [Calls -> CallRec] /\ call[c] \in CallRec
  BY DEF MotionInv, TypeInv
<1>2. PICK left \in SUBSET Nat : left = todo \ {Min(todo)}
  OBVIOUS
<1>3. PICK r : r = [call[c] EXCEPT !.pc = q, !.at = n, !.todo = left]
  OBVIOUS
<1>4. r \in CallRec
  BY <1>1, <1>3 DEF CallRec
<1>5. r.pc = q /\ r.at = n /\ r.trigger = call[c].trigger
  BY <1>1, <1>3 DEF CallRec
<1>6. call' = [call EXCEPT ![c] = r]
  BY <1>1, <1>2, <1>3 DEF Promote
<1> QED BY <1>4, <1>5, <1>6

(* How late a handler may be at each of its awaits. *)
LEMMA Reached ==
    ASSUME MotionInv, NEW m \in Motions
    PROVE  LET k == call[m]
           IN  /\ k.trigger \in Nat /\ k.at \in Nat /\ now \in Nat /\ MaxStart \in Nat
               /\ k.trigger <= last /\ m \in Calls
               /\ k.pc = "row" => now <= k.trigger
               /\ k.pc \in {"promote", "start", "keep"} => now <= k.trigger + 1
               /\ k.pc \in {"probe", "commit"} => now <= k.trigger + 1 + MaxStart
               /\ k.pc \in {"again", "rollback", "event"} => now <= k.trigger + 2 + MaxStart
<1>1. m \in Calls /\ m # "arming"
  BY CallsApart
<1>2. PICK k \in CallRec : k = call[m]
  BY <1>1 DEF MotionInv, TypeInv
<1>3. Age(k) /\ HandlerAge(k)
  BY <1>1, <1>2 DEF MotionInv, Ages
<1>4. k.trigger \in Nat /\ k.at \in Nat /\ now \in Nat /\ MaxStart \in Nat
  BY Constants DEF MotionInv, TypeInv, CallRec
<1>5. /\ k.trigger <= last
      /\ k.pc = "row" => now <= k.trigger
      /\ k.pc \in {"promote", "start", "keep"} => now <= k.trigger + 1
  BY <1>3, <1>4 DEF Age, HandlerAge, Quick, Slow
<1>6. k.pc \in {"probe", "commit"} => now <= k.trigger + 1 + MaxStart
  BY <1>3, <1>4 DEF Age, HandlerAge, Quick, Slow
<1>7. k.pc \in {"again", "rollback", "event"} => now <= k.trigger + 2 + MaxStart
  BY <1>3, <1>4 DEF Age, HandlerAge, Quick, Slow
<1> QED BY <1>1, <1>2, <1>4, <1>5, <1>6, <1>7

(* What may be late where. *)
OnTime(q, n, trigger) ==
    /\ q \notin {"row", "promote"}
    /\ q \in {"start", "keep", "probe"} => n <= trigger + 1
    /\ q \in {"commit", "again", "rollback"} => n <= trigger + 1 + MaxStart
    /\ q = "event" => n <= trigger + 2 + MaxStart

(* A handler moves on to another await. *)
LEMMA HandlerGoes ==
    ASSUME MotionInv, NEW m \in Motions, NEW q \in MotionPcs, Go(m, q), Busy(m),
           UNCHANGED <<mode, now, last, timer>>, gaps \subseteq gaps',
           desired' \in {desired, TRUE}, buffer' \in SUBSET Nat,
           active' \in {active, None, m}, OnTime(q, now, call[m].trigger),
           active' = m => q \in Answering \/ (active = m /\ call[m].pc \notin Answering),
           active' = m /\ ~desired' => q \in Startup \/ (active = m /\ call[m].pc \notin Startup),
           mode = "motion" \/ call[m].pc # "row"
    PROVE  MotionInv'
<1>1. /\ call[m].trigger \in Nat /\ now \in Nat /\ call[m].trigger <= last /\ m \in Calls
  BY Reached
<1>2. PICK r \in CallRec : /\ call' = [call EXCEPT ![m] = r]
                           /\ r.pc = q /\ r.at = now /\ r.trigger = call[m].trigger
  BY <1>1, GoRec DEF MotionPcs, AllPcs, Quick, Slow
<1>3. Age(r)
  BY <1>1, <1>2, Constants DEF Age
<1>4. HandlerAge(r)
  BY <1>1, <1>2 DEF HandlerAge, OnTime
<1>5. HandlerAge(r)'
  BY <1>4 DEF HandlerAge
<1>6. call[m].pc # "idle"
  BY DEF Busy
<1> QED BY <1>2, <1>3, <1>5, <1>6, HandlerStep

(* A handler is over. *)
LEMMA HandlerFinishes ==
    ASSUME MotionInv, NEW m \in Motions, Finish(m), Busy(m),
           UNCHANGED <<mode, now, last>>, gaps \subseteq gaps', UNCHANGED desired,
           buffer' \in SUBSET Nat, active' \in {active, None}, active' = m => active = m,
           \/ timer' = timer
           \/ timer' = now + PostRoll /\ now + PostRoll <= Deadline,
           Sound' /\ active' = m => call[m].pc \notin Answering \/ timer' # 0,
           Sound' /\ active' = m /\ ~desired => call[m].pc \notin Startup
    PROVE  MotionInv'
<1>1. call' = [call EXCEPT ![m] = Idle]
  BY DEF Finish
<1>2. Idle \in CallRec /\ Idle.pc = "idle" /\ Idle.at = 0 /\ Idle.trigger = 0
  BY IdleTyped
<1>3. now \in Nat /\ last \in Nat
  BY DEF MotionInv, TypeInv
<1>4. Age(Idle) /\ HandlerAge(Idle)
  BY <1>2, <1>3 DEF Age, HandlerAge, Quick, Slow
<1>5. HandlerAge(Idle)'
  <2>1. PICK k : k = Idle
    OBVIOUS
  <2>2. k = Idle' /\ HandlerAge(k)
    BY <1>4, <2>1 DEF Idle
  <2>3. HandlerAge(k)'
    BY <2>2 DEF HandlerAge
  <2> QED BY <2>2, <2>3 DEF HandlerAge
<1>6. Deadline' = Deadline
  BY DEF Deadline
<1>7. \/ timer' = timer
      \/ timer' = now + PostRoll /\ now + PostRoll <= Deadline'
  BY <1>6
<1>8. "idle" \in MotionPcs
  BY DEF MotionPcs
<1> QED BY <1>1, <1>2, <1>4, <1>5, <1>7, <1>8, HandlerStep

LEMMA DetectKeeps ==
    ASSUME MotionInv, NEW m \in Motions, Detect(m)
    PROVE  MotionInv'
<1>1. PICK r : r = [Idle EXCEPT !.pc = "row", !.at = now, !.trigger = now]
  OBVIOUS
<1>2. now \in Nat /\ last \in Nat /\ buffer \in SUBSET Nat
  BY DEF MotionInv, TypeInv
<1>3. r \in CallRec /\ r.pc = "row" /\ r.at = now /\ r.trigger = now
  BY <1>1, <1>2, IdleTyped DEF Idle, CallRec, AllPcs, Quick
<1>4. /\ call' = [call EXCEPT ![m] = r] /\ last' = now /\ ~Busy(m)
      /\ UNCHANGED <<mode, desired, active, buffer, timer, now>>
      /\ gaps' = gaps \cup {g \in {"overlap"} : Busy("operator")}
  BY <1>1 DEF Detect, db, rec, rings
<1>5. Age(r)
  BY <1>2, <1>3 DEF Age, Quick, Slow
<1>6. HandlerAge(r)'
  BY <1>2, <1>3, <1>4 DEF HandlerAge
<1>7. gaps \subseteq gaps' /\ (Sound' => ~Busy("operator"))
  BY <1>4 DEF Sound
<1>8. call[m].pc \notin Answering /\ call[m].pc \notin Startup
  BY <1>4 DEF Busy, Answering, Startup
<1>9. r.pc \in MotionPcs
  BY <1>3 DEF MotionPcs
<1> QED BY <1>2, <1>3, <1>4, <1>5, <1>6, <1>7, <1>8, <1>9, HandlerStep

(* The ring's directory only ever holds slots. *)
LEMMA BufferTyped ==
    ASSUME MotionInv
    PROVE  /\ buffer \in SUBSET Nat /\ \A n : Candidates(n) \in SUBSET Nat
           /\ StopPreBuffer => buffer' \in SUBSET Nat
           /\ \A c, q, n, todo : Promote(c, q, n, todo) => buffer' \in SUBSET Nat
<1>1. buffer \in SUBSET Nat
  BY DEF MotionInv, TypeInv
<1>2. \A n : Candidates(n) \in SUBSET Nat
  BY <1>1 DEF Candidates
<1>3. StopPreBuffer => buffer' \in SUBSET Nat
  BY <1>1 DEF StopPreBuffer
<1>4. \A c, q, n, todo : Promote(c, q, n, todo) => buffer' \in SUBSET Nat
  BY <1>1 DEF Promote
<1> QED BY <1>1, <1>2, <1>3, <1>4

LEMMA ReadRowKeeps ==
    ASSUME MotionInv, NEW m \in Motions, ReadRow(m)
    PROVE  MotionInv'
<1>1. call[m].pc = "row" /\ Busy(m) /\ UNCHANGED <<mode, desired, active, now, last>>
  BY DEF ReadRow, At, Busy, db, rec, Quietly
<1>2. call[m].pc \notin Answering /\ call[m].pc \notin Startup
  BY <1>1 DEF Answering, Startup
<1>3. /\ call[m].trigger \in Nat /\ now \in Nat /\ now <= call[m].trigger
      /\ call[m].trigger <= last /\ m \in Calls /\ buffer \in SUBSET Nat
      /\ last \in Nat /\ MaxStart \in Nat /\ PostRoll \in Nat
  BY <1>1, Reached, BufferTyped, Constants DEF MotionInv, TypeInv
<1>4. CASE mode # "motion" /\ Finish(m) /\ UNCHANGED <<rings, timer, gaps>>
  BY <1>1, <1>2, <1>3, <1>4, HandlerFinishes DEF rings
<1>5. CASE Finish(m) /\ ScheduleMotionStop /\ UNCHANGED rings /\ gaps \subseteq gaps'
  <2>1. timer' = now + PostRoll /\ now + PostRoll <= Deadline
    BY <1>3, <1>5 DEF ScheduleMotionStop, Deadline
  <2>2. buffer' \in SUBSET Nat
    BY <1>3, <1>5 DEF rings
  <2> QED BY <1>1, <1>2, <1>5, <2>1, <2>2, HandlerFinishes
<1>6. CASE mode = "motion" /\ UNCHANGED <<timer, gaps>> /\ Go(m, "start") /\ UNCHANGED rings
  <2>1. OnTime("start", now, call[m].trigger) /\ "start" \in MotionPcs
    BY <1>3 DEF OnTime, MotionPcs
  <2>2. buffer' \in SUBSET Nat
    BY <1>3, <1>6 DEF rings
  <2>3. active' = m => active = m
    BY <1>1
  <2> QED BY <1>1, <1>2, <1>6, <2>1, <2>2, <2>3, HandlerGoes
<1>7. CASE /\ mode = "motion" /\ UNCHANGED <<timer, gaps>>
           /\ Promote(m, "promote", now, Candidates(call[m].trigger))
  <2>1. PICK r \in CallRec : /\ call' = [call EXCEPT ![m] = r]
                             /\ r.pc = "promote" /\ r.at = now /\ r.trigger = call[m].trigger
    BY <1>3, <1>7, PromoteRec, BufferTyped DEF AllPcs, Slow
  <2>2. Age(r) /\ HandlerAge(r)
    BY <1>3, <2>1 DEF Age, HandlerAge, Quick, Slow
  <2>3. HandlerAge(r)'
    BY <1>1, <2>2 DEF HandlerAge
  <2>4. buffer' \in SUBSET Nat /\ "promote" \in MotionPcs
    BY <1>7, BufferTyped DEF MotionPcs
  <2>5. active' = m => active = m
    BY <1>1
  <2> QED BY <1>1, <1>2, <1>7, <2>1, <2>2, <2>3, <2>4, <2>5, HandlerStep
<1> QED BY <1>4, <1>5, <1>6, <1>7 DEF ReadRow

LEMMA ReadRowFailsKeeps ==
    ASSUME MotionInv, NEW m \in Motions, ReadRowFails(m)
    PROVE  MotionInv'
<1>1. /\ call[m].pc = "row" /\ Busy(m) /\ Finish(m)
      /\ UNCHANGED <<mode, desired, active, now, last, timer, gaps, buffer>>
  BY DEF ReadRowFails, At, Busy, db, rec, rings, Fails, Quietly
<1>2. call[m].pc \notin Answering /\ call[m].pc \notin Startup
  BY <1>1 DEF Answering, Startup
<1> QED BY <1>1, <1>2, HandlerFinishes, BufferTyped

LEMMA PromotedKeeps ==
    ASSUME MotionInv, NEW m \in Motions, Promoted(m)
    PROVE  MotionInv'
<1>1. /\ call[m].pc = "promote" /\ Busy(m) /\ Go(m, "start")
      /\ UNCHANGED <<mode, desired, active, now, last, timer, gaps, buffer>>
  BY DEF Promoted, At, Busy, db, rec, rings, Healthy, Quietly
<1>2. call[m].pc \notin Answering /\ call[m].pc \notin Startup /\ "start" \in MotionPcs
  BY <1>1 DEF Answering, Startup, MotionPcs
<1>3. OnTime("start", now, call[m].trigger)
  BY <1>1, Reached DEF OnTime
<1>4. active' = m => active = m
  BY <1>1
<1> QED BY <1>1, <1>2, <1>3, <1>4, HandlerGoes, BufferTyped

LEMMA PromoteNextKeeps ==
    ASSUME MotionInv, NEW m \in Motions, PromoteNext(m)
    PROVE  MotionInv'
<1>1. /\ call[m].pc \in {"promote", "again"} /\ Busy(m)
      /\ Promote(m, call[m].pc, call[m].at, call[m].todo)
      /\ UNCHANGED <<mode, desired, active, now, last, timer, gaps>>
  BY DEF PromoteNext, Busy, db, rec, Healthy, Quietly
<1>2. PICK k \in CallRec : k = call[m] /\ m \in Calls
  BY CallsApart DEF MotionInv, TypeInv
<1>3. Age(k) /\ HandlerAge(k)
  BY <1>2, CallsApart DEF MotionInv, Ages
<1>4. k.pc \in AllPcs /\ k.at \in Nat /\ k.todo \in SUBSET Nat
  BY DEF CallRec
<1>5. PICK r \in CallRec : /\ call' = [call EXCEPT ![m] = r]
                           /\ r.pc = k.pc /\ r.at = k.at /\ r.trigger = k.trigger
  BY <1>1, <1>2, <1>4, PromoteRec
<1>6. Age(r) /\ HandlerAge(r)
  BY <1>3, <1>5 DEF Age, HandlerAge
<1>7. HandlerAge(r)'
  BY <1>1, <1>6 DEF HandlerAge
<1>8. buffer' \in SUBSET Nat /\ r.pc \in MotionPcs
  BY <1>1, <1>2, <1>5, BufferTyped DEF MotionPcs
<1>9. /\ active' = m => r.pc \in Answering \/ (active = m /\ call[m].pc \notin Answering)
      /\ active' = m => active = m /\ call[m].pc \notin Startup
      /\ call[m].pc \notin {"idle", "row"}
  BY <1>1, <1>2, <1>5 DEF Answering, Startup
<1> QED BY <1>1, <1>5, <1>6, <1>7, <1>8, <1>9, HandlerStep

LEMMA StartChecksKeeps ==
    ASSUME MotionInv, NEW m \in Motions, StartChecks(m)
    PROVE  MotionInv'
<1>1. /\ call[m].pc = "start" /\ Busy(m)
      /\ UNCHANGED <<mode, desired, active, now, last, timer, gaps, buffer>>
  BY DEF StartChecks, At, Busy, db, rec, rings, Healthy, Quietly
<1>2. PICK q \in {"keep", "probe"} : Go(m, q)
  BY DEF StartChecks
<1>3. call[m].pc \notin Answering /\ call[m].pc \notin Startup /\ q \in MotionPcs
  BY <1>1 DEF Answering, Startup, MotionPcs
<1>4. OnTime(q, now, call[m].trigger)
  BY <1>1, Reached DEF OnTime
<1>5. active' = m => active = m
  BY <1>1
<1> QED BY <1>1, <1>2, <1>3, <1>4, <1>5, HandlerGoes, BufferTyped

(* The catch of a handler whose recorder, if any, is not in the map. *)
LEMMA FailedKeeps ==
    ASSUME MotionInv, NEW m \in Motions, Failed(m), Busy(m), call[m].pc # "row",
           UNCHANGED <<mode, now, last, timer, desired, buffer>>, gaps \subseteq gaps',
           active' \in {active, None},
           Sound' /\ active' = m => call[m].pc \notin Answering
    PROVE  MotionInv'
<1>1. call[m].pc \notin Answering => call[m].pc \notin Startup
  BY DEF Answering, Startup
<1>2. active' = m => active = m
  BY CallsApart
<1>3. CASE Finish(m)
  BY <1>1, <1>2, <1>3, HandlerFinishes, BufferTyped
<1>4. CASE Go(m, "ring")
  <2>1. PICK r \in CallRec : /\ call' = [call EXCEPT ![m] = r]
                             /\ r.pc = "ring" /\ r.at = now /\ r.trigger = call[m].trigger
    BY <1>4, GoRec, CallsApart DEF AllPcs, Quick
  <2>2. Age(r) /\ HandlerAge(r)
    BY <2>1, Reached DEF Age, HandlerAge, Quick, Slow
  <2>3. HandlerAge(r)'
    BY <2>2 DEF HandlerAge
  <2>4. r.pc \in MotionPcs /\ call[m].pc \notin {"idle", "row"}
    BY <2>1 DEF MotionPcs, Busy
  <2> QED BY <1>1, <1>2, <2>1, <2>2, <2>3, <2>4, HandlerStep, BufferTyped
<1> QED BY <1>3, <1>4 DEF Failed

LEMMA StartFailsKeeps ==
    ASSUME MotionInv, NEW m \in Motions, StartFails(m)
    PROVE  MotionInv'
<1>1. /\ call[m].pc \in {"start", "probe", "keep"} /\ Busy(m) /\ Failed(m)
      /\ UNCHANGED <<mode, desired, active, now, last, timer, gaps, buffer>>
  BY DEF StartFails, Busy, db, rec, rings, Fails, Quietly
<1>2. call[m].pc \notin Answering /\ call[m].pc # "row"
  BY <1>1 DEF Answering
<1> QED BY <1>1, <1>2, FailedKeeps

LEMMA SpawnKeeps ==
    ASSUME MotionInv, NEW m \in Motions, Spawn(m)
    PROVE  MotionInv'
<1>1. /\ call[m].pc = "probe" /\ Busy(m) /\ Go(m, "commit") /\ active' = m
      /\ UNCHANGED <<mode, desired, now, last, timer, gaps, buffer>>
  BY DEF Spawn, At, Busy, db, rings, Healthy, Quietly
<1>2. "commit" \in Answering /\ "commit" \in Startup /\ "commit" \in MotionPcs
  BY DEF Answering, Startup, MotionPcs
<1>3. OnTime("commit", now, call[m].trigger)
  BY <1>1, Reached DEF OnTime
<1> QED BY <1>1, <1>2, <1>3, HandlerGoes, BufferTyped

LEMMA CommitKeeps ==
    ASSUME MotionInv, NEW m \in Motions, Commit(m)
    PROVE  MotionInv'
<1>1. /\ call[m].pc \in {"commit", "keep"} /\ Busy(m) /\ desired' = TRUE /\ Started(m)
      /\ UNCHANGED <<mode, active, now, last, timer, gaps>>
  BY DEF Commit, Busy, rec, Healthy, Quietly
<1>2. /\ call[m].trigger \in Nat /\ now \in Nat /\ now <= call[m].trigger + 1 + MaxStart
      /\ call[m].trigger <= last /\ m \in Calls /\ MaxStart \in Nat
  BY <1>1, Reached
<1>3. CASE StopPreBuffer /\ Go(m, "event")
  <2>1. OnTime("event", now, call[m].trigger) /\ "event" \in Answering /\ "event" \in MotionPcs
    BY <1>2 DEF OnTime, Answering, MotionPcs
  <2> QED BY <1>1, <1>3, <2>1, HandlerGoes, BufferTyped
<1>4. CASE Promote(m, "again", now, Candidates(now))
  <2>1. PICK r \in CallRec : /\ call' = [call EXCEPT ![m] = r]
                             /\ r.pc = "again" /\ r.at = now /\ r.trigger = call[m].trigger
    BY <1>2, <1>4, PromoteRec, BufferTyped DEF AllPcs, Slow
  <2>2. Age(r) /\ HandlerAge(r)
    BY <1>2, <2>1 DEF Age, HandlerAge, Quick, Slow
  <2>3. HandlerAge(r)'
    BY <1>1, <2>2 DEF HandlerAge
  <2>4. buffer' \in SUBSET Nat /\ r.pc \in MotionPcs /\ r.pc \in Answering
    BY <1>4, <2>1, BufferTyped DEF MotionPcs, Answering
  <2>5. call[m].pc \notin {"idle", "row"}
    BY <1>1
  <2> QED BY <1>1, <2>1, <2>2, <2>3, <2>4, <2>5, HandlerStep
<1> QED BY <1>1, <1>3, <1>4 DEF Started

LEMMA CommitFailsKeeps ==
    ASSUME MotionInv, NEW m \in Motions, CommitFails(m)
    PROVE  MotionInv'
<1>1. /\ call[m].pc = "commit" /\ Busy(m) /\ Go(m, "rollback") /\ gaps \subseteq gaps'
      /\ UNCHANGED <<mode, desired, active, now, last, timer, buffer>>
  BY DEF CommitFails, At, Busy, db, rec, rings, Fails, Quietly
<1>2. "rollback" \in Answering /\ "rollback" \in Startup /\ "rollback" \in MotionPcs
  BY DEF Answering, Startup, MotionPcs
<1>3. OnTime("rollback", now, call[m].trigger)
  BY <1>1, Reached DEF OnTime
<1> QED BY <1>1, <1>2, <1>3, HandlerGoes, BufferTyped

LEMMA RollbackKeeps ==
    ASSUME MotionInv, NEW m \in Motions, Rollback(m)
    PROVE  MotionInv'
<1>1. /\ call[m].pc = "rollback" /\ Busy(m) /\ Failed(m) /\ gaps \subseteq gaps'
      /\ UNCHANGED <<mode, desired, now, last, timer, buffer>>
      /\ active' = IF active = m THEN None ELSE active
  BY DEF Rollback, At, Busy, db, rings, Healthy, Quietly, Ended
<1>2. active' \in {active, None} /\ active' # m
  BY <1>1, CallsApart
<1> QED BY <1>1, <1>2, FailedKeeps

LEMMA PromotedAgainKeeps ==
    ASSUME MotionInv, NEW m \in Motions, PromotedAgain(m)
    PROVE  MotionInv'
<1>1. /\ call[m].pc = "again" /\ Busy(m) /\ Go(m, "event") /\ StopPreBuffer
      /\ UNCHANGED <<mode, desired, active, now, last, timer, gaps>>
  BY DEF PromotedAgain, At, Busy, db, rec, Healthy, Quietly
<1>2. /\ "event" \in Answering /\ "event" \in MotionPcs /\ call[m].pc \notin Startup
      /\ active' = m => active = m
  BY <1>1 DEF Answering, Startup, MotionPcs
<1>3. OnTime("event", now, call[m].trigger)
  BY <1>1, Reached DEF OnTime
<1> QED BY <1>1, <1>2, <1>3, HandlerGoes, BufferTyped

LEMMA RegisterEventKeeps ==
    ASSUME MotionInv, NEW m \in Motions, RegisterEvent(m)
    PROVE  MotionInv'
<1>1. /\ call[m].pc = "event" /\ Busy(m) /\ Finish(m) /\ timer' = now + PostRoll
      /\ UNCHANGED <<mode, desired, active, now, last, gaps, buffer>>
  BY DEF RegisterEvent, At, Busy, db, rec, rings, Healthy, Quietly, ScheduleMotionStop
<1>2. now + PostRoll <= Deadline
  <2>1. /\ call[m].trigger \in Nat /\ now \in Nat /\ MaxStart \in Nat /\ call[m].trigger <= last
        /\ now <= call[m].trigger + 2 + MaxStart /\ PostRoll \in Nat /\ last \in Nat
    BY <1>1, Reached, Constants DEF MotionInv, TypeInv
  <2> QED BY <2>1 DEF Deadline
<1>3. timer' # 0
  BY <1>1, Constants DEF MotionInv, TypeInv
<1>4. call[m].pc \notin Startup /\ (active' = m => active = m)
  BY <1>1 DEF Startup
<1> QED BY <1>1, <1>2, <1>3, <1>4, HandlerFinishes, BufferTyped

LEMMA RegisterEventFailsKeeps ==
    ASSUME MotionInv, NEW m \in Motions, RegisterEventFails(m)
    PROVE  MotionInv'
<1>1. /\ call[m].pc = "event" /\ Busy(m) /\ Failed(m) /\ gaps' = gaps \cup {"unattended"}
      /\ UNCHANGED <<mode, desired, active, now, last, timer, buffer>>
  BY DEF RegisterEventFails, At, Busy, db, rec, rings, Fails, Quietly
<1>2. ~Sound' /\ call[m].pc # "row" /\ gaps \subseteq gaps'
  BY <1>1 DEF Sound
<1> QED BY <1>1, <1>2, FailedKeeps

LEMMA MotionKeeps ==
    ASSUME MotionInv, NEW m \in Motions, Motion(m)
    PROVE  MotionInv'
BY DetectKeeps, ReadRowKeeps, ReadRowFailsKeeps, PromotedKeeps, PromoteNextKeeps,
   StartChecksKeeps, StartFailsKeeps, SpawnKeeps, CommitKeeps, CommitFailsKeeps,
   RollbackKeeps, PromotedAgainKeeps, RegisterEventKeeps, RegisterEventFailsKeeps DEF Motion

-----------------------------------------------------------------------------
(* The quiet timer, the operator, the ring and time.                       *)

(* The other calls move: types and times. *)
LEMMA TimesKeep ==
    ASSUME MotionInv, NEW f \in [Calls -> CallRec], call' = f,
           \A c \in Calls : \/ f[c] = call[c]
                            \/ c \notin Motions /\ f[c].pc \in PcsOf(c) /\ (c # "arming" => Age(f[c])),
           UNCHANGED <<now, last>>, mode' \in {"motion", "manual"}, desired' \in BOOLEAN,
           buffer' \in SUBSET Nat, timer' \in {timer, 0}, active' \in {active, None},
           f["quiet"].pc # "idle" => f["quiet"].at <= Deadline
    PROVE  TypeInv' /\ Ages' /\ TimerOK'
<1>1. TypeInv'
  BY DEF MotionInv, TypeInv
<1>2. Ages'
  <2>1. ASSUME NEW c \in Calls \ {"arming"}
        PROVE  Age(call[c])'
    <3>1. Age(f[c])
      BY DEF MotionInv, Ages
    <3> QED BY <3>1 DEF Age
  <2>2. ASSUME NEW m \in Motions
        PROVE  HandlerAge(call[m])'
    <3>1. f[m] = call[m] /\ HandlerAge(call[m])
      BY CallsApart DEF MotionInv, Ages
    <3> QED BY <3>1 DEF HandlerAge
  <2> QED BY <2>1, <2>2 DEF Ages
<1>3. TimerOK'
  <2>1. Deadline' = Deadline /\ timer \in Nat /\ Deadline \in Nat
    BY Constants DEF Deadline, MotionInv, TypeInv
  <2>2. timer' # 0 => now <= timer'
    BY DEF MotionInv, TimerOK
  <2>3. timer' <= Deadline
    BY <2>1 DEF MotionInv, TimerOK
  <2> QED BY <2>1, <2>2, <2>3 DEF TimerOK, Busy
<1> QED BY <1>1, <1>2, <1>3

(* A step of the quiet timer's call. *)
LEMMA QuietStep ==
    ASSUME MotionInv, NEW r \in CallRec, r.pc \in {"idle", "row", "ring", "stop", "kill"},
           call' = [call EXCEPT !["quiet"] = r], Age(r), r.pc # "idle" => r.at <= Deadline,
           Busy("quiet") \/ timer # 0,
           UNCHANGED <<mode, now, last>>, gaps \subseteq gaps', desired' \in BOOLEAN,
           buffer' \in SUBSET Nat, timer' \in {timer, 0}, active' \in {active, None},
           Sound' /\ active' # None =>
               /\ \/ timer' # 0 \/ r.pc \in {"row", "ring", "stop"}
                  \/ r.pc = "kill" /\ r.victim = active
                  \/ call[active].pc \in Answering
               /\ desired' \/ (r.pc = "kill" /\ r.victim = active) \/ call[active].pc \in Startup
    PROVE  MotionInv'
<1>1. call \in [Calls -> CallRec] /\ "quiet" \in Calls /\ "operator" \in Calls /\ active \in Motions \cup {None}
  BY CallsApart DEF MotionInv, TypeInv
<1>2. PICK f \in [Calls -> CallRec] : f = call'
  BY <1>1
<1>3. f["quiet"] = r /\ \A c \in Calls : c # "quiet" => f[c] = call[c]
  BY <1>1, <1>2
<1>4. TypeInv' /\ Ages' /\ TimerOK'
  <2>1. mode' \in {"motion", "manual"}
    BY DEF MotionInv, TypeInv
  <2>2. \A c \in Calls : \/ f[c] = call[c]
                         \/ c \notin Motions /\ f[c].pc \in PcsOf(c) /\ (c # "arming" => Age(f[c]))
    BY <1>3, CallsApart
  <2> QED BY <1>2, <1>3, <2>1, <2>2, TimesKeep
<1>5. Sound' => Sound
  BY DEF Sound
<1>6. Sound' => ~Busy("operator") /\ ~Busy("operator")'
  BY <1>1, <1>2, <1>3, <1>5, CallsApart DEF MotionInv, OperatorAlone, Busy
<1>7. OperatorAlone'
  BY <1>6 DEF OperatorAlone
<1>8. active' # None => active' = active /\ active \in Calls /\ f[active] = call[active]
  BY <1>1, <1>3, CallsApart
<1>9. Answered'
  BY <1>2, <1>3, <1>8 DEF Answered, Answering, Stopping, At
<1>10. WishOK'
  BY <1>2, <1>3, <1>8 DEF WishOK, Startup, Stopping, At
<1>11. ModeOK'
  <2>1. \A m \in Motions : f[m] = call[m]
    BY <1>3, CallsApart
  <2> QED BY <1>2, <1>5, <2>1 DEF MotionInv, ModeOK
<1> QED BY <1>4, <1>7, <1>9, <1>10, <1>11 DEF MotionInv

(* Where the quiet timer's call is. *)
LEMMA QuietFacts ==
    ASSUME MotionInv, Busy("quiet")
    PROVE  /\ call["quiet"].at <= Deadline /\ Age(call["quiet"]) /\ "quiet" \in Calls
           /\ call["quiet"].at \in Nat /\ now \in Nat
           /\ call["quiet"].pc \in Quick => now <= Deadline
<1>1. "quiet" \in Calls \ {"arming"}
  BY CallsApart
<1>2. call["quiet"].at <= Deadline /\ Age(call["quiet"]) /\ now \in Nat /\ call["quiet"] \in CallRec
  BY <1>1 DEF MotionInv, TypeInv, Ages, TimerOK
<1>3. call["quiet"].pc \in Quick => now <= Deadline
  BY <1>2 DEF Age
<1> QED BY <1>1, <1>2, <1>3 DEF CallRec

(* The quiet timer's call is over. *)
LEMMA QuietFinishes ==
    ASSUME MotionInv, Finish("quiet"), Busy("quiet"),
           UNCHANGED <<mode, now, last, timer>>, gaps \subseteq gaps', desired' \in BOOLEAN,
           buffer' \in SUBSET Nat, active' \in {active, None},
           Sound' /\ active' # None =>
               /\ timer # 0 \/ call[active].pc \in Answering
               /\ desired' \/ call[active].pc \in Startup
    PROVE  MotionInv'
<1>1. call' = [call EXCEPT !["quiet"] = Idle]
  BY DEF Finish
<1>2. Idle \in CallRec /\ Idle.pc = "idle" /\ Idle.at = 0
  BY IdleTyped
<1>3. Age(Idle)
  BY <1>2 DEF Age, Quick, Slow, MotionInv, TypeInv
<1> QED BY <1>1, <1>2, <1>3, QuietStep

(* The quiet timer's call moves on. *)
LEMMA QuietGoes ==
    ASSUME MotionInv, NEW q \in {"row", "ring", "stop"}, Go("quiet", q),
           Busy("quiet") \/ timer # 0, now <= Deadline,
           UNCHANGED <<mode, now, last, desired, active>>, gaps \subseteq gaps',
           buffer' \in SUBSET Nat, timer' \in {timer, 0},
           ~At("quiet", "kill")
    PROVE  MotionInv'
<1>1. PICK r \in CallRec : /\ call' = [call EXCEPT !["quiet"] = r] /\ r.pc = q /\ r.at = now
  BY GoRec, CallsApart DEF AllPcs, Quick
<1>2. Age(r) /\ desired' \in BOOLEAN
  BY <1>1 DEF Age, Quick, Slow, MotionInv, TypeInv
<1>3. Sound' => Sound
  BY DEF Sound
<1>4. ASSUME Sound', active' # None, ~desired'
      PROVE  call[active].pc \in Startup
  <2>1. ~Busy("operator")
    BY <1>3, <1>4, CallsApart DEF MotionInv, OperatorAlone, Busy
  <2>2. ~Stopping("quiet") /\ ~Stopping("operator")
    BY <2>1 DEF Stopping, At, Busy
  <2> QED BY <1>3, <1>4, <2>2 DEF MotionInv, WishOK, Startup
<1> QED BY <1>1, <1>2, <1>4, QuietStep

LEMMA QuietKeeps ==
    ASSUME MotionInv, Quiet
    PROVE  MotionInv'
<1>1. /\ timer # 0 /\ now >= timer /\ ~Busy("quiet") /\ timer' = 0 /\ Go("quiet", "row")
      /\ UNCHANGED <<mode, desired, active, now, last, gaps, buffer>>
  BY DEF Quiet, db, rec, rings, Healthy, Quietly
<1>2. now <= Deadline
  <2>1. timer \in Nat /\ now \in Nat /\ now <= timer /\ timer <= Deadline
    BY <1>1 DEF MotionInv, TypeInv, TimerOK
  <2>2. now = timer
    BY <1>1, <2>1
  <2> QED BY <2>1, <2>2
<1>3. ~At("quiet", "kill")
  BY <1>1 DEF Busy, At
<1> QED BY <1>1, <1>2, <1>3, QuietGoes, BufferTyped

LEMMA QuietRowKeeps ==
    ASSUME MotionInv, QuietRow
    PROVE  MotionInv'
<1>1. /\ call["quiet"].pc = "row" /\ Busy("quiet") /\ ~At("quiet", "kill")
      /\ UNCHANGED <<mode, desired, active, now, last, timer, gaps, buffer>>
  BY DEF QuietRow, At, Busy, db, rec, rings, Healthy, Quietly
<1>2. now <= Deadline
  BY <1>1, QuietFacts DEF Quick
<1>3. CASE mode = "motion" /\ desired
  <2>1. PICK q \in {"stop", "ring"} : Go("quiet", q)
    BY <1>3 DEF QuietRow
  <2> QED BY <1>1, <1>2, <2>1, QuietGoes, BufferTyped
<1>4. CASE ~(mode = "motion" /\ desired)
  <2>1. Finish("quiet")
    BY <1>4 DEF QuietRow
  <2>2. ASSUME Sound', active' # None
        PROVE  call[active].pc \in Startup
    <3>1. Sound /\ active # None
      BY <1>1, <2>2 DEF Sound
    <3>2. mode = "motion"
      BY <3>1 DEF MotionInv, ModeOK
    <3>3. ~Busy("operator")
      BY <1>1, <3>1, CallsApart DEF MotionInv, OperatorAlone
    <3>4. ~Stopping("quiet") /\ ~Stopping("operator")
      BY <1>1, <3>3 DEF Stopping, At, Busy
    <3> QED BY <1>4, <3>1, <3>2, <3>4 DEF MotionInv, WishOK, Startup
  <2>3. Startup \subseteq Answering /\ desired' \in BOOLEAN
    BY <1>1 DEF Startup, Answering, MotionInv, TypeInv
  <2> QED BY <1>1, <2>1, <2>2, <2>3, QuietFinishes, BufferTyped
<1> QED BY <1>3, <1>4

LEMMA QuietRowFailsKeeps ==
    ASSUME MotionInv, QuietRowFails
    PROVE  MotionInv'
<1>1. /\ call["quiet"].pc = "row" /\ Busy("quiet") /\ Finish("quiet")
      /\ gaps' = gaps \cup {"unattended"}
      /\ UNCHANGED <<mode, desired, active, now, last, timer, buffer>>
  BY DEF QuietRowFails, At, Busy, db, rec, rings, Fails, Quietly
<1>2. ~Sound' /\ gaps \subseteq gaps' /\ desired' \in BOOLEAN
  BY <1>1 DEF Sound, MotionInv, TypeInv
<1> QED BY <1>1, <1>2, QuietFinishes, BufferTyped

LEMMA QuietStopKeeps ==
    ASSUME MotionInv, Stop("quiet")
    PROVE  MotionInv'
<1>1. /\ call["quiet"].pc = "stop" /\ Busy("quiet") /\ desired' = FALSE
      /\ UNCHANGED <<mode, active, now, last, timer, gaps>>
  BY DEF Stop, At, Busy, rec, Healthy, Quietly
<1>2. CASE active = None
  <2>1. Finish("quiet") /\ UNCHANGED rings
    BY <1>2 DEF Stop, AfterStop
  <2>2. buffer' \in SUBSET Nat
    BY <2>1, BufferTyped DEF rings
  <2> QED BY <1>1, <1>2, <2>1, <2>2, QuietFinishes
<1>3. CASE active # None
  <2>1. /\ call' = [call EXCEPT !["quiet"].pc = "kill", !["quiet"].at = now, !["quiet"].victim = active]
        /\ UNCHANGED rings
    BY <1>3 DEF Stop
  <2>2. call \in [Calls -> CallRec] /\ "quiet" \in Calls /\ now \in Nat /\ now <= Deadline
        /\ active \in Motions \cup {None}
    BY <1>1, QuietFacts DEF MotionInv, TypeInv, Quick
  <2>3. PICK k \in CallRec : k = call["quiet"]
    BY <2>2
  <2>4. PICK r : r = [k EXCEPT !.pc = "kill", !.at = now, !.victim = active]
    OBVIOUS
  <2>5. r \in CallRec
    BY <2>2, <2>4 DEF CallRec, AllPcs, Slow
  <2>6. r.pc = "kill" /\ r.at = now /\ r.victim = active
    BY <2>4 DEF CallRec
  <2>7. call' = [call EXCEPT !["quiet"] = r]
    BY <2>1, <2>2, <2>3, <2>4
  <2>8. Age(r)
    BY <2>2, <2>6 DEF Age, Quick
  <2>9. buffer' \in SUBSET Nat
    BY <2>1, BufferTyped DEF rings
  <2> QED BY <1>1, <2>2, <2>5, <2>6, <2>7, <2>8, <2>9, QuietStep
<1> QED BY <1>2, <1>3

LEMMA QuietStopFailsKeeps ==
    ASSUME MotionInv, StopFails("quiet")
    PROVE  MotionInv'
<1>1. /\ call["quiet"].pc = "stop" /\ Busy("quiet") /\ Finish("quiet")
      /\ gaps' = gaps \cup {"unattended"}
      /\ UNCHANGED <<mode, desired, active, now, last, timer, buffer>>
  BY DEF StopFails, AfterStop, At, Busy, db, rec, rings, FailsIn, Fails, Quietly
<1>2. ~Sound' /\ gaps \subseteq gaps' /\ desired' \in BOOLEAN
  BY <1>1 DEF Sound, MotionInv, TypeInv
<1> QED BY <1>1, <1>2, QuietFinishes, BufferTyped

LEMMA QuietKillKeeps ==
    ASSUME MotionInv, Kill("quiet")
    PROVE  MotionInv'
<1>1. /\ call["quiet"].pc = "kill" /\ Busy("quiet") /\ Finish("quiet")
      /\ UNCHANGED <<mode, desired, now, last, timer, gaps, buffer>>
      /\ active' = IF active = call["quiet"].victim THEN None ELSE active
  BY DEF Kill, AfterStop, At, Busy, db, rings, Healthy, Quietly, Ended
<1>2. ASSUME Sound', active' # None
      PROVE  /\ timer # 0 \/ call[active].pc \in Answering
             /\ desired' \/ call[active].pc \in Startup
  <2>1. Sound /\ active # None /\ active # call["quiet"].victim
    BY <1>1, <1>2 DEF Sound
  <2>2. ~Busy("operator")
    BY <1>1, <2>1, CallsApart DEF MotionInv, OperatorAlone
  <2>3. ~Stopping("quiet") /\ ~Stopping("operator") /\ ~At("operator", "stop")
    BY <2>1, <2>2 DEF Stopping, At, Busy
  <2>4. timer # 0 \/ call[active].pc \in Answering
    BY <1>1, <2>1, <2>3 DEF MotionInv, Answered, Answering
  <2>5. desired' \/ call[active].pc \in Startup
    BY <1>1, <2>1, <2>3 DEF MotionInv, WishOK, Startup
  <2> QED BY <2>4, <2>5
<1>3. active' \in {active, None} /\ desired' \in BOOLEAN
  BY <1>1 DEF MotionInv, TypeInv
<1> QED BY <1>1, <1>2, <1>3, QuietFinishes, BufferTyped

(* The calls after a step of one of them. *)
LEMMA OneCall ==
    ASSUME MotionInv, NEW c \in Calls, NEW r \in CallRec, call' = [call EXCEPT ![c] = r]
    PROVE  \E f \in [Calls -> CallRec] : /\ f = call' /\ f[c] = r
                                         /\ \A d \in Calls : d # c => f[d] = call[d]
<1>1. call \in [Calls -> CallRec]
  BY DEF MotionInv, TypeInv
<1>2. PICK f \in [Calls -> CallRec] : f = call'
  BY <1>1
<1>3. f[c] = r /\ \A d \in Calls : d # c => f[d] = call[d]
  BY <1>1, <1>2
<1> QED BY <1>2, <1>3

(* A step of the operator's request. *)
LEMMA OperatorStep ==
    ASSUME MotionInv, NEW f \in [Calls -> CallRec], call' = f,
           \A c \in Calls \ {"operator", "arming"} : f[c] = call[c],
           f["operator"].pc \in {"idle", "stop", "kill", "write"}, Age(f["operator"]),
           f["arming"].pc \in {"idle", "ring"},
           UNCHANGED <<now, last>>, gaps \subseteq gaps', mode' \in {"motion", "manual"},
           desired' \in BOOLEAN, buffer' \in SUBSET Nat, timer' \in {timer, 0},
           active' \in {active, None},
           Sound' =>
               /\ timer' = 0 /\ \A c \in Calls \ {"operator"} : ~Busy(c)
               /\ f["operator"].pc = "idle" \/ f["arming"].pc = "idle"
               /\ active' # None => /\ f["operator"].at <= Deadline /\ mode' = "motion"
                                    /\ \/ f["operator"].pc = "stop" /\ desired'
                                       \/ f["operator"].pc = "kill"
               /\ f["operator"].pc = "kill" => f["operator"].victim = active'
               /\ f["operator"].pc = "write" => active' = None
    PROVE  MotionInv'
<1>1. /\ {"quiet", "operator", "arming"} \subseteq Calls
      /\ \A m \in Motions : m \in Calls \ {"quiet", "operator", "arming"}
  BY CallsApart
<1>2. TypeInv' /\ Ages' /\ TimerOK'
  <2>1. \A c \in Calls : \/ f[c] = call[c]
                         \/ c \notin Motions /\ f[c].pc \in PcsOf(c) /\ (c # "arming" => Age(f[c]))
    BY <1>1, CallsApart
  <2>2. f["quiet"].pc # "idle" => f["quiet"].at <= Deadline
    BY <1>1 DEF MotionInv, TimerOK, Busy
  <2> QED BY <2>1, <2>2, TimesKeep
<1>3. Deadline' = Deadline
  BY DEF Deadline
<1>4. Sound' => \A c \in Calls \ {"operator", "arming"} : f[c].pc = "idle"
  BY DEF Busy
<1>5. OperatorAlone'
  <2>1. ASSUME Sound', f["operator"].pc # "idle"
        PROVE  \A c \in Calls \ {"operator"} : f[c].pc = "idle"
    BY <1>1, <1>4, <2>1
  <2> QED BY <1>1, <1>3, <2>1 DEF OperatorAlone, Busy, At
<1>6. Answered'
  BY DEF Answered, Stopping, At
<1>7. WishOK'
  BY DEF WishOK, Stopping, At
<1>8. ModeOK'
  BY <1>1, <1>4 DEF ModeOK
<1> QED BY <1>2, <1>5, <1>6, <1>7, <1>8 DEF MotionInv

LEMMA SetMotionRecordingKeeps ==
    ASSUME MotionInv, NEW want \in {"motion", "manual"}, SetMotionRecording(want)
    PROVE  MotionInv'
<1>1. /\ ~Busy("operator") /\ timer' = 0
      /\ UNCHANGED <<mode, desired, active, now, last, buffer>>
      /\ gaps' = gaps \cup {g \in {"overlap"} : \E c \in Calls : Busy(c)}
  BY DEF SetMotionRecording, db, rec, rings
<1>2. call \in [Calls -> CallRec] /\ {"operator", "arming"} \subseteq Calls /\ now \in Nat
      /\ call["arming"].pc \in {"idle", "ring"}
  BY CallsApart DEF MotionInv, TypeInv
<1>3. PICK r : r = [Idle EXCEPT !.pc = "stop", !.at = now, !.want = want]
  OBVIOUS
<1>4. r \in CallRec /\ r.pc = "stop" /\ r.at = now
  BY <1>2, <1>3, IdleTyped DEF Idle, CallRec, AllPcs, Quick
<1>5. PICK f \in [Calls -> CallRec] : /\ f = call' /\ f["operator"] = r
                                      /\ \A c \in Calls : c # "operator" => f[c] = call[c]
  <2>1. call' = [call EXCEPT !["operator"] = r] /\ "operator" \in Calls
    BY <1>2, <1>3 DEF SetMotionRecording
  <2> QED BY <1>4, <2>1, OneCall
<1>6. Age(r)
  BY <1>2, <1>4 DEF Age, Quick, Slow
<1>7. Sound' => Sound /\ \A c \in Calls : ~Busy(c)
  BY <1>1 DEF Sound
<1>8. ASSUME Sound', active # None
      PROVE  now <= Deadline /\ mode = "motion" /\ desired
  <2>1. Sound /\ \A c \in Calls : call[c].pc = "idle"
    BY <1>7, <1>8 DEF Busy
  <2>2. active \in Calls /\ "quiet" \in Calls /\ timer \in Nat
    BY <1>8, CallsApart DEF MotionInv, TypeInv
  <2>3. timer # 0
    BY <1>2, <1>8, <2>1, <2>2 DEF MotionInv, Answered, Stopping, At
  <2>4. now <= Deadline
    <3>1. now <= timer /\ timer <= Deadline
      BY <2>3 DEF MotionInv, TimerOK
    <3>2. Deadline \in Nat
      BY Constants DEF MotionInv, TypeInv, Deadline
    <3> QED BY <1>2, <2>2, <3>1, <3>2
  <2>5. desired
    BY <1>2, <1>8, <2>1, <2>2 DEF MotionInv, WishOK, Stopping, At
  <2>6. mode = "motion"
    BY <1>8, <2>1 DEF MotionInv, ModeOK
  <2> QED BY <2>4, <2>5, <2>6
<1>9. f["arming"] = call["arming"] /\ (Sound' => f["arming"].pc = "idle")
  BY <1>2, <1>5, <1>7 DEF Busy
<1>10. mode' \in {"motion", "manual"} /\ desired' \in BOOLEAN /\ gaps \subseteq gaps'
  BY <1>1 DEF MotionInv, TypeInv
<1> QED BY <1>1, <1>2, <1>4, <1>5, <1>6, <1>7, <1>8, <1>9, <1>10, OperatorStep, BufferTyped

(* Where the operator's request is. *)
LEMMA OperatorFacts ==
    ASSUME MotionInv, Busy("operator")
    PROVE  /\ call \in [Calls -> CallRec] /\ {"operator", "arming"} \subseteq Calls
           /\ now \in Nat /\ timer \in Nat /\ call["arming"].pc \in {"idle", "ring"}
           /\ call["operator"].pc \in Quick => now = call["operator"].at
           /\ Sound => /\ timer = 0 /\ \A c \in Calls \ {"operator"} : ~Busy(c)
                       /\ call["arming"].pc = "idle"
                       /\ active # None => call["operator"].at <= Deadline /\ mode = "motion"
<1>1. /\ call \in [Calls -> CallRec] /\ {"operator", "arming"} \subseteq Calls
      /\ now \in Nat /\ timer \in Nat /\ call["arming"].pc \in {"idle", "ring"}
  BY CallsApart DEF MotionInv, TypeInv
<1>2. call["operator"].pc \in Quick => now = call["operator"].at
  BY <1>1 DEF MotionInv, Ages, Age
<1>3. Sound => /\ timer = 0 /\ \A c \in Calls \ {"operator"} : ~Busy(c)
               /\ active # None => call["operator"].at <= Deadline /\ mode = "motion"
  BY DEF MotionInv, OperatorAlone, ModeOK
<1>4. Sound => call["arming"].pc = "idle"
  BY <1>1, <1>3 DEF Busy
<1> QED BY <1>1, <1>2, <1>3, <1>4

(* The request has stopped the recorder, or there was none: the ring. *)
LEMMA OperatorWrites ==
    ASSUME MotionInv, Busy("operator"), AfterStop("operator"),
           UNCHANGED <<mode, now, last, timer>>, gaps \subseteq gaps',
           desired' \in BOOLEAN, active' \in {active, None}, Sound' => active' = None
    PROVE  MotionInv'
<1>1. PICK r \in CallRec : call' = [call EXCEPT !["operator"] = r] /\ r.pc = "write" /\ r.at = now
  BY GoRec, CallsApart DEF AfterStop, AllPcs, Quick
<1>2. PICK f \in [Calls -> CallRec] : /\ f = call' /\ f["operator"] = r
                                      /\ \A c \in Calls : c # "operator" => f[c] = call[c]
  BY <1>1, OperatorFacts
<1>3. Age(r) /\ mode' \in {"motion", "manual"}
  BY <1>1, OperatorFacts DEF Age, Quick, Slow, MotionInv, TypeInv
<1>4. buffer' \in SUBSET Nat
  BY BufferTyped DEF AfterStop, rings
<1>5. Sound' => Sound
  BY DEF Sound
<1>6. f["arming"] = call["arming"]
  BY <1>2, OperatorFacts
<1> QED BY <1>1, <1>2, <1>3, <1>4, <1>5, <1>6, OperatorFacts, OperatorStep

LEMMA OperatorStopKeeps ==
    ASSUME MotionInv, Stop("operator")
    PROVE  MotionInv'
<1>1. /\ call["operator"].pc = "stop" /\ Busy("operator") /\ desired' = FALSE
      /\ UNCHANGED <<mode, active, now, last, timer, gaps>>
  BY DEF Stop, At, Busy, rec, Healthy, Quietly
<1>2. CASE active = None
  BY <1>1, <1>2, OperatorWrites DEF Stop
<1>3. CASE active # None
  <2>1. /\ call' = [call EXCEPT !["operator"].pc = "kill", !["operator"].at = now,
                                !["operator"].victim = active]
        /\ UNCHANGED rings
    BY <1>3 DEF Stop
  <2>2. call["operator"] \in CallRec /\ now \in Nat /\ active \in Motions \cup {None}
    BY <1>1, OperatorFacts DEF MotionInv, TypeInv
  <2>3. PICK k \in CallRec : k = call["operator"]
    BY <2>2
  <2>4. PICK r : r = [k EXCEPT !.pc = "kill", !.at = now, !.victim = active]
    OBVIOUS
  <2>5. r \in CallRec
    BY <2>2, <2>4 DEF CallRec, AllPcs, Slow
  <2>6. r.pc = "kill" /\ r.at = now /\ r.victim = active
    BY <2>4 DEF CallRec
  <2>7. PICK f \in [Calls -> CallRec] : /\ f = call' /\ f["operator"] = r
                                        /\ \A c \in Calls : c # "operator" => f[c] = call[c]
    <3>1. call \in [Calls -> CallRec] /\ "operator" \in Calls
      BY <1>1, OperatorFacts
    <3>2. call' = [call EXCEPT !["operator"] = r]
      BY <2>1, <2>3, <2>4, <3>1
    <3> QED BY <2>5, <3>1, <3>2, OneCall
  <2>8. Age(r) /\ mode' \in {"motion", "manual"}
    BY <1>1, <2>2, <2>6 DEF Age, Quick, MotionInv, TypeInv
  <2>9. buffer' \in SUBSET Nat
    BY <2>1, BufferTyped DEF rings
  <2>10. Sound' => Sound
    BY <1>1 DEF Sound
  <2>11. Sound' => now <= Deadline /\ mode = "motion"
    BY <1>1, <1>3, <2>10, OperatorFacts DEF Quick
  <2>12. f["arming"] = call["arming"]
    BY <1>1, <2>7, OperatorFacts
  <2> QED BY <1>1, <2>6, <2>7, <2>8, <2>9, <2>10, <2>11, <2>12, OperatorFacts, OperatorStep
<1> QED BY <1>2, <1>3

LEMMA OperatorStopFailsKeeps ==
    ASSUME MotionInv, StopFails("operator")
    PROVE  MotionInv'
<1>1. /\ call["operator"].pc = "stop" /\ Busy("operator") /\ AfterStop("operator")
      /\ gaps' = gaps \cup {"unattended"}
      /\ UNCHANGED <<mode, desired, active, now, last, timer>>
  BY DEF StopFails, At, Busy, db, rec, FailsIn, Quietly
<1>2. ~Sound' /\ gaps \subseteq gaps' /\ desired' \in BOOLEAN
  BY <1>1 DEF Sound, MotionInv, TypeInv
<1> QED BY <1>1, <1>2, OperatorWrites

LEMMA OperatorKillKeeps ==
    ASSUME MotionInv, Kill("operator")
    PROVE  MotionInv'
<1>1. /\ call["operator"].pc = "kill" /\ Busy("operator") /\ AfterStop("operator")
      /\ UNCHANGED <<mode, desired, now, last, timer, gaps>>
      /\ active' = IF active = call["operator"].victim THEN None ELSE active
  BY DEF Kill, At, Busy, db, Healthy, Quietly, Ended
<1>2. Sound' => active' = None
  BY <1>1 DEF Sound, MotionInv, OperatorAlone, At
<1>3. active' \in {active, None} /\ desired' \in BOOLEAN
  BY <1>1 DEF MotionInv, TypeInv
<1> QED BY <1>1, <1>2, <1>3, OperatorWrites

LEMMA WriteKeeps ==
    ASSUME MotionInv, Write
    PROVE  MotionInv'
<1>1. /\ call["operator"].pc = "write" /\ Busy("operator") /\ desired' = FALSE
      /\ mode' = call["operator"].want /\ UNCHANGED <<active, now, last, timer, gaps, buffer>>
  BY DEF Write, At, Busy, rec, rings, Healthy, Quietly
<1>2. call["operator"] \in CallRec /\ call["arming"] \in CallRec
  BY <1>1, OperatorFacts
<1>3. mode' \in {"motion", "manual"}
  BY <1>1, <1>2 DEF CallRec
<1>4. PICK q \in {"ring", "idle"} :
         call' = [call EXCEPT !["operator"] = Idle, !["arming"].pc = q]
  BY DEF Write
<1>5. PICK a : a = [call["arming"] EXCEPT !.pc = q]
  OBVIOUS
<1>6. a \in CallRec /\ a.pc = q
  BY <1>2, <1>5 DEF CallRec, AllPcs, Quick
<1>7. PICK f \in [Calls -> CallRec] : /\ f = call' /\ f["operator"] = Idle /\ f["arming"] = a
                                      /\ \A c \in Calls \ {"operator", "arming"} : f[c] = call[c]
  <2>1. call \in [Calls -> CallRec] /\ {"operator", "arming"} \subseteq Calls /\ Idle \in CallRec
    BY <1>1, OperatorFacts, IdleTyped
  <2>2. PICK i \in CallRec : i = Idle
    BY <2>1
  <2>3. call' = [call EXCEPT !["operator"] = i, !["arming"] = a]
    BY <1>4, <1>5, <2>1, <2>2
  <2>4. PICK f \in [Calls -> CallRec] : f = call'
    BY <1>6, <2>1, <2>3
  <2>5. f["operator"] = i /\ f["arming"] = a /\ \A c \in Calls \ {"operator", "arming"} : f[c] = call[c]
    BY <2>1, <2>3, <2>4
  <2> QED BY <2>2, <2>4, <2>5
<1>8. Age(Idle)
  BY IdleTyped DEF Age, Quick, Slow, MotionInv, TypeInv
<1>9. Sound' => Sound /\ active = None
  BY <1>1 DEF Sound, MotionInv, OperatorAlone, At
<1> QED BY <1>1, <1>3, <1>6, <1>7, <1>8, <1>9, OperatorFacts, OperatorStep, IdleTyped, BufferTyped

LEMMA WriteFailsKeeps ==
    ASSUME MotionInv, WriteFails
    PROVE  MotionInv'
<1>1. /\ call["operator"].pc = "write" /\ Busy("operator") /\ Finish("operator")
      /\ gaps' = gaps \cup {"unattended"}
      /\ UNCHANGED <<mode, desired, active, now, last, timer, buffer>>
  BY DEF WriteFails, At, Busy, db, rec, rings, FailsIn, Quietly
<1>2. PICK f \in [Calls -> CallRec] : /\ f = call' /\ f["operator"] = Idle
                                      /\ \A c \in Calls : c # "operator" => f[c] = call[c]
  BY <1>1, CallsApart, IdleTyped, OneCall DEF Finish
<1>3. Age(Idle)
  BY IdleTyped DEF Age, Quick, Slow, MotionInv, TypeInv
<1>4. ~Sound' /\ gaps \subseteq gaps' /\ desired' \in BOOLEAN /\ mode' \in {"motion", "manual"}
  BY <1>1 DEF Sound, MotionInv, TypeInv
<1>5. f["arming"] = call["arming"]
  BY <1>1, <1>2, OperatorFacts
<1> QED BY <1>1, <1>2, <1>3, <1>4, <1>5, OperatorFacts, OperatorStep, IdleTyped, BufferTyped

LEMMA OperatorKeeps ==
    ASSUME MotionInv, Operator
    PROVE  MotionInv'
BY SetMotionRecordingKeeps, OperatorStopKeeps, OperatorStopFailsKeeps, OperatorKillKeeps,
   WriteKeeps, WriteFailsKeeps DEF Operator

(* Nobody but the call that arms the camera moves, and that one only ends. *)
LEMMA StaysPut ==
    ASSUME MotionInv, NEW f \in [Calls -> CallRec], call' = f,
           \A c \in Calls \ {"arming"} : f[c] = call[c],
           f["arming"] = call["arming"] \/ f["arming"].pc = "idle",
           UNCHANGED <<mode, desired, active, timer, now, last>>, gaps \subseteq gaps',
           buffer' \in SUBSET Nat
    PROVE  MotionInv'
<1>1. /\ {"quiet", "operator"} \subseteq Calls \ {"arming"} /\ "arming" \in Calls
      /\ \A m \in Motions : m \in Calls \ {"arming"}
  BY CallsApart
<1>2. f["quiet"] = call["quiet"] /\ f["operator"] = call["operator"] /\ \A m \in Motions : f[m] = call[m]
  BY <1>1
<1>3. TypeInv' /\ Ages' /\ TimerOK'
  <2>1. \A c \in Calls : \/ f[c] = call[c]
                         \/ c \notin Motions /\ f[c].pc \in PcsOf(c) /\ (c # "arming" => Age(f[c]))
    BY <1>1, CallsApart
  <2>2. f["quiet"].pc # "idle" => f["quiet"].at <= Deadline
    BY <1>2 DEF MotionInv, TimerOK, Busy
  <2>3. mode' \in {"motion", "manual"} /\ desired' \in BOOLEAN
    BY DEF MotionInv, TypeInv
  <2> QED BY <2>1, <2>2, <2>3, TimesKeep
<1>4. Sound' => Sound
  BY DEF Sound
<1>5. Deadline' = Deadline
  BY DEF Deadline
<1>6. OperatorAlone'
  <2>1. ASSUME Sound', f["operator"].pc # "idle"
        PROVE  /\ timer = 0 /\ \A c \in Calls \ {"operator"} : f[c].pc = "idle"
               /\ active # None => f["operator"].at <= Deadline
               /\ f["operator"].pc = "kill" => f["operator"].victim = active
               /\ f["operator"].pc = "write" => active = None
    <3>1. Sound /\ Busy("operator")
      BY <1>2, <1>4, <2>1 DEF Busy
    <3>2. /\ timer = 0 /\ \A c \in Calls \ {"operator"} : call[c].pc = "idle"
          /\ active # None => call["operator"].at <= Deadline
          /\ call["operator"].pc = "kill" => call["operator"].victim = active
          /\ call["operator"].pc = "write" => active = None
      BY <3>1 DEF MotionInv, OperatorAlone, At, Busy
    <3> QED BY <1>1, <1>2, <3>2
  <2> QED BY <1>5, <2>1 DEF OperatorAlone, At, Busy
<1>7. Answered'
  BY <1>2, <1>4 DEF MotionInv, TypeInv, Answered, Stopping, At
<1>8. WishOK'
  BY <1>2, <1>4 DEF MotionInv, TypeInv, WishOK, Stopping, At
<1>9. ModeOK'
  BY <1>2, <1>4 DEF MotionInv, ModeOK
<1> QED BY <1>3, <1>6, <1>7, <1>8, <1>9 DEF MotionInv

(* A ring comes up or fails to, for whoever asked for it. *)
LEMMA RingKeeps ==
    ASSUME MotionInv, NEW c \in Calls \ {"operator"}, RingUp(c) \/ RingFails(c)
    PROVE  MotionInv'
<1>1. /\ call[c].pc = "ring" /\ Busy(c) /\ AfterRing(c)
      /\ UNCHANGED <<mode, desired, active, timer, now, last>> /\ buffer' = buffer
      /\ gaps \subseteq gaps'
  BY DEF RingUp, RingFails, StartPreBuffer, At, Busy, db, rec, Fails, Quietly
<1>2. buffer' \in SUBSET Nat /\ gaps \subseteq gaps'
  BY <1>1, BufferTyped
<1>3. CASE c = "quiet"
  <2>1. Go("quiet", "stop") /\ ~At("quiet", "kill") /\ Busy("quiet")
    BY <1>1, <1>3 DEF AfterRing, At
  <2>2. now <= Deadline
    BY <1>1, <1>3, <2>1, QuietFacts DEF Quick
  <2> QED BY <1>1, <1>2, <2>1, <2>2, QuietGoes
<1>4. CASE c = "arming"
  <2>1. call' = [call EXCEPT !["arming"] = Idle] /\ "arming" \in Calls
    BY <1>1, <1>4 DEF AfterRing, Finish
  <2>2. PICK i \in CallRec : i = Idle /\ i.pc = "idle"
    BY IdleTyped
  <2>3. PICK f \in [Calls -> CallRec] : /\ f = call' /\ f["arming"] = i
                                        /\ \A d \in Calls : d # "arming" => f[d] = call[d]
    BY <2>1, <2>2, OneCall
  <2> QED BY <1>1, <1>2, <2>2, <2>3, StaysPut
<1>5. CASE c \in Motions
  <2>1. Finish(c) /\ call[c].pc \notin Answering /\ call[c].pc \notin Startup
    BY <1>1, <1>5, CallsApart DEF AfterRing, Answering, Startup
  <2> QED BY <1>1, <1>2, <1>5, <2>1, HandlerFinishes
<1> QED BY <1>3, <1>4, <1>5 DEF Calls

(* The ring's own steps. *)
LEMMA RingAloneKeeps ==
    ASSUME MotionInv, RingDies \/ PrunePreBuffers \/ UNCHANGED vars
    PROVE  MotionInv'
<1>1. call \in [Calls -> CallRec]
  BY DEF MotionInv, TypeInv
<1>2. CASE RingDies
  <2>1. UNCHANGED <<mode, desired, active, timer, now, last, call, buffer>> /\ gaps \subseteq gaps'
    BY <1>2 DEF RingDies, db, rec, Fails, Quietly
  <2>2. PICK f \in [Calls -> CallRec] : f = call /\ call' = f
    BY <1>1, <2>1
  <2> QED BY <2>1, <2>2, StaysPut, BufferTyped
<1>3. CASE PrunePreBuffers
  <2>1. UNCHANGED <<mode, desired, active, timer, now, last, call, gaps>> /\ buffer' \subseteq buffer
    BY <1>3 DEF PrunePreBuffers, db, rec, Healthy, Quietly
  <2>2. PICK f \in [Calls -> CallRec] : f = call /\ call' = f
    BY <1>1, <2>1
  <2>3. buffer' \in SUBSET Nat /\ gaps \subseteq gaps'
    BY <2>1, BufferTyped
  <2> QED BY <2>1, <2>2, <2>3, StaysPut
<1>4. CASE UNCHANGED vars
  <2>1. UNCHANGED <<mode, desired, active, timer, now, last, call, gaps, buffer>> /\ gaps \subseteq gaps'
    BY <1>4 DEF vars
  <2>2. PICK f \in [Calls -> CallRec] : f = call /\ call' = f
    BY <1>1, <2>1
  <2> QED BY <2>1, <2>2, StaysPut, BufferTyped
<1> QED BY <1>2, <1>3, <1>4

(* A slot passes over a call that may wait for it. *)
LEMMA AgeTicks ==
    ASSUME NEW k \in CallRec, NEW n \in Nat, NEW d \in Nat, d = n + 1,
           k.at <= n, k.pc \notin Quick, k.pc \in Slow => n = k.at,
           k.pc = "probe" => n < k.at + MaxStart
    PROVE  k.at <= d /\ (k.pc \in Slow => d <= k.at + 1) /\ (k.pc = "probe" => d <= k.at + MaxStart)
<1>1. k.at \in Nat /\ MaxStart \in Nat
  BY Constants DEF CallRec
<1> QED BY <1>1

LEMMA TickKeeps ==
    ASSUME MotionInv, Tick
    PROVE  MotionInv'
<1>1. /\ UNCHANGED <<mode, desired, active, timer, call, last, gaps>>
      /\ buffer' \subseteq buffer \cup {now'} /\ now \in Nat /\ last \in Nat /\ last <= now
      /\ timer \in Nat /\ call \in [Calls -> CallRec] /\ buffer \in SUBSET Nat
  BY DEF Tick, db, rec, MotionInv, TypeInv
<1>2. PICK n \in Nat : n = now + 1 /\ n = now'
  BY <1>1 DEF Tick
<1>3. TypeInv'
  <2>1. last <= n /\ buffer' \in SUBSET Nat
    BY <1>1, <1>2
  <2> QED BY <1>1, <1>2, <2>1 DEF MotionInv, TypeInv
<1>4. ASSUME NEW c \in Calls \ {"arming"}
      PROVE  Age(call[c])'
  <2>1. PICK k \in CallRec : k = call[c] /\ k = call'[c]
    BY <1>1
  <2>2. k.at <= now /\ k.pc \notin Quick
        /\ (k.pc \in Slow => now = k.at) /\ (k.pc = "probe" => now < k.at + MaxStart)
    BY <2>1 DEF MotionInv, Ages, Age, Tick, At
  <2>3. k.at <= n /\ (k.pc \in Slow => n <= k.at + 1) /\ (k.pc = "probe" => n <= k.at + MaxStart)
    BY <1>1, <1>2, <2>2, AgeTicks
  <2> QED BY <1>2, <2>1, <2>2, <2>3 DEF Age
<1>5. Ages'
  <2>1. ASSUME NEW m \in Motions
        PROVE  HandlerAge(call[m])'
    BY <1>1 DEF MotionInv, Ages, HandlerAge
  <2> QED BY <1>4, <2>1 DEF Ages
<1>6. TimerOK'
  <2>1. timer # 0 => n <= timer
    BY <1>1, <1>2 DEF Tick
  <2> QED BY <1>1, <1>2, <2>1 DEF MotionInv, TimerOK, Deadline, Busy
<1>7. OperatorAlone'
  BY <1>1 DEF MotionInv, OperatorAlone, Sound, Busy, At, Deadline
<1>8. Answered'
  BY <1>1 DEF MotionInv, Answered, Sound, Stopping, At
<1>9. WishOK' /\ ModeOK'
  BY <1>1 DEF MotionInv, WishOK, ModeOK, Sound, Stopping, At
<1> QED BY <1>3, <1>5, <1>6, <1>7, <1>8, <1>9 DEF MotionInv

(* Nothing but the call that arms the camera runs, and no recorder. *)
AtRest ==
    /\ mode \in {"motion", "manual"} /\ desired \in BOOLEAN /\ active = None /\ timer = 0
    /\ buffer \in SUBSET Nat /\ now \in Nat /\ last \in Nat /\ last <= now
    /\ call \in [Calls -> CallRec] /\ call["arming"].pc \in {"idle", "ring"}
    /\ \A c \in Calls \ {"arming"} : call[c] = Idle

LEMMA RestIsFine == AtRest => MotionInv
<1> SUFFICES ASSUME AtRest PROVE MotionInv
  OBVIOUS
<1> USE DEF AtRest
<1>1. /\ {"quiet", "operator"} \subseteq Calls \ {"arming"} /\ "arming" \in Calls
      /\ \A m \in Motions : m \in Calls \ {"arming"}
  BY CallsApart
<1>2. Idle \in CallRec /\ Idle.pc = "idle" /\ Idle.at = 0 /\ Idle.trigger = 0
  BY IdleTyped
<1>3. TypeInv
  <2>1. \A c \in Calls : call[c].pc \in PcsOf(c)
    BY <1>1, <1>2 DEF PcsOf, MotionPcs
  <2> QED BY <2>1 DEF TypeInv
<1>4. Ages
  <2>1. Age(Idle) /\ HandlerAge(Idle)
    BY <1>2 DEF Age, HandlerAge, Quick, Slow
  <2> QED BY <1>1, <2>1 DEF Ages
<1>5. TimerOK
  <2>1. Deadline \in Nat
    BY Constants DEF Deadline
  <2> QED BY <1>1, <1>2, <2>1 DEF TimerOK, Busy
<1>6. OperatorAlone
  BY <1>1, <1>2 DEF OperatorAlone, Busy
<1>7. Answered /\ WishOK
  BY DEF Answered, WishOK
<1>8. ModeOK
  BY <1>1, <1>2 DEF ModeOK
<1> QED BY <1>3, <1>4, <1>5, <1>6, <1>7, <1>8 DEF MotionInv

LEMMA InitRests == Init => MotionInv
<1> SUFFICES ASSUME Init PROVE MotionInv
  OBVIOUS
<1>1. PICK a : a = [Idle EXCEPT !.pc = "ring"]
  OBVIOUS
<1>2. a \in CallRec /\ a.pc = "ring" /\ Idle \in CallRec
  BY <1>1, IdleTyped DEF Idle, CallRec, AllPcs, Quick
<1>3. call = [c \in Calls |-> IF c = "arming" THEN a ELSE Idle] /\ "arming" \in Calls
  BY <1>1, CallsApart DEF Init
<1>4. call \in [Calls -> CallRec] /\ call["arming"] = a /\ \A c \in Calls \ {"arming"} : call[c] = Idle
  BY <1>2, <1>3
<1>5. AtRest
  <2>0. /\ mode = "motion" /\ desired = FALSE /\ active = None /\ timer = 0
        /\ buffer = {} /\ now = 0 /\ last = 0
    BY Zenon DEF Init
  <2>1. mode \in {"motion", "manual"} /\ desired \in BOOLEAN /\ buffer \in SUBSET Nat
    BY <2>0, Zenon
  <2>2. now \in Nat /\ last \in Nat /\ last <= now
    BY <2>0
  <2> QED BY <1>2, <1>4, <2>0, <2>1, <2>2 DEF AtRest
<1> QED BY <1>5, RestIsFine

LEMMA ApiRestartsKeeps ==
    ASSUME MotionInv, ApiRestarts
    PROVE  MotionInv'
<1>1. /\ UNCHANGED <<mode, desired, buffer, now, last>> /\ active' = None /\ timer' = 0
      /\ mode \in {"motion", "manual"} /\ desired \in BOOLEAN /\ buffer \in SUBSET Nat
      /\ now \in Nat /\ last \in Nat /\ last <= now
  BY DEF ApiRestarts, db, Fails, Quietly, MotionInv, TypeInv
<1>2. PICK i \in CallRec : i = Idle /\ i.pc = "idle"
  BY IdleTyped
<1>3. PICK r : r = [Idle EXCEPT !.pc = "ring", !.at = now]
  OBVIOUS
<1>4. r \in CallRec /\ r.pc = "ring"
  BY <1>1, <1>3, IdleTyped DEF Idle, CallRec, AllPcs, Quick
<1>5. PICK a \in CallRec : a.pc \in {"idle", "ring"} /\ a = IF mode = "motion" THEN r ELSE i
  BY <1>2, <1>4
<1>6. call' = [c \in Calls |-> IF c = "arming" THEN a ELSE i] /\ "arming" \in Calls
  BY <1>2, <1>3, <1>5, CallsApart DEF ApiRestarts
<1>7. call' \in [Calls -> CallRec] /\ call'["arming"] = a /\ \A c \in Calls \ {"arming"} : call'[c] = i
  BY <1>6
<1>8. i = Idle'
  BY <1>2 DEF Idle
<1>9. mode' \in {"motion", "manual"} /\ desired' \in BOOLEAN /\ buffer' \in SUBSET Nat
      /\ now' \in Nat /\ last' \in Nat /\ last' <= now'
  BY <1>1
<1>10. AtRest'
  BY <1>1, <1>5, <1>7, <1>8, <1>9 DEF AtRest
<1> QED BY <1>10, RestIsFine, PTL

LEMMA NextKeeps ==
    ASSUME MotionInv, [Next]_vars
    PROVE  MotionInv'
<1>1. CASE UNCHANGED vars
  BY <1>1, RingAloneKeeps
<1>2. CASE Next
  BY <1>2, MotionKeeps, RingKeeps, QuietKeeps, QuietRowKeeps, QuietRowFailsKeeps, QuietStopKeeps,
     QuietStopFailsKeeps, QuietKillKeeps, OperatorKeeps, RingAloneKeeps, TickKeeps,
     ApiRestartsKeeps DEF Next
<1> QED BY <1>1, <1>2

(* A recording on movement ends in time: whatever the number of movements
   handled at once, however they, the quiet timer, the operator and failing
   starts interleave, and whatever the post-roll and the longest probe. *)
THEOREM RecordingOnMotionEnds == Spec => []RecordingEnds
<1>1. Init => MotionInv
  BY InitRests
<1>2. MotionInv /\ [Next]_vars => MotionInv'
  BY NextKeeps
<1>3. MotionInv => RecordingEnds
  BY InTime
<1> QED BY <1>1, <1>2, <1>3, PTL DEF Spec

-----------------------------------------------------------------------------
(* The last of ring and recorder.                                          *)

(* The gaps CoverageKept leaves out have not been met. *)
Clean == gaps \cap {"overlap", "rollback", "unheard"} = {}

(* A handler that has found no recorder and is not done with it, and one that has
   seen a recorder. *)
Beyond == {"promote", "start", "keep", "probe", "commit", "again", "event"}
Manned == {"keep", "commit", "again", "event"}

(* The timer runs and fires only with a recorder, never on a handler that may be
   about to drop the ring, and it takes the recorder with a ring in place. *)
TimerCovered ==
    /\ timer # 0 => active # None
    /\ Busy("quiet") => /\ active # None /\ timer = 0
                        /\ \A m \in Motions : call[m].pc \notin Beyond
    /\ call["quiet"].pc \in {"stop", "kill"} => ring \/ dark
    /\ \A m \in Motions : call[m].pc \in Beyond /\ timer # 0 => call[m].trigger + PostRoll <= timer

HandlersCovered ==
    \A m \in Motions : /\ call[m].pc \in Manned => active # None
                       /\ call[m].pc # "rollback"

OperatorApart ==
    Busy("operator") => timer = 0 /\ \A c \in Calls \ {"operator"} : ~Busy(c)

CoverInv ==
    /\ active # None => active \in recs
    /\ Clean => TimerCovered /\ HandlersCovered /\ OperatorApart

(* A step of a call that is not a handler's, or of none. *)
LEMMA OtherCovers ==
    ASSUME CoverInv, NEW f \in [Calls -> CallRec], call' = f,
           \A m \in Motions : f[m] = call[m],
           gaps \subseteq gaps', timer' \in {timer, 0}, active' # None => active' \in recs',
           Clean' => /\ f["quiet"].pc # "idle" => /\ active' # None /\ timer' = 0
                                                  /\ \A m \in Motions : call[m].pc \notin Beyond
                     /\ f["quiet"].pc \in {"stop", "kill"} => ring' \/ dark'
                     /\ \/ active' # None \/ active = None
                        \/ timer' = 0 /\ \A m \in Motions : call[m].pc \notin Manned
                     /\ f["operator"].pc # "idle" =>
                          timer' = 0 /\ \A c \in Calls \ {"operator"} : f[c].pc = "idle"
    PROVE  CoverInv'
<1>1. Clean' => Clean
  BY DEF Clean
<1>2. ASSUME Clean'
      PROVE  TimerCovered' /\ HandlersCovered' /\ OperatorApart'
  <2>1. TimerCovered /\ HandlersCovered
    BY <1>1, <1>2 DEF CoverInv
  <2>2. TimerCovered'
    BY <1>2, <2>1 DEF TimerCovered, Busy
  <2>3. HandlersCovered'
    BY <1>2, <2>1 DEF HandlersCovered
  <2>4. OperatorApart'
    BY <1>2 DEF OperatorApart, Busy
  <2> QED BY <2>2, <2>3, <2>4
<1> QED BY <1>2 DEF CoverInv

(* A step of a handler. *)
LEMMA HandlerCovers ==
    ASSUME MotionInv, CoverInv, NEW m \in Motions, NEW r \in CallRec,
           call' = [call EXCEPT ![m] = r], gaps \subseteq gaps',
           active' # None => active' \in recs',
           Clean' => /\ active # None => active' # None
                     /\ r.pc # "rollback"
                     /\ r.pc \in Manned => call[m].pc \in Manned \/ active' # None
                     /\ r.pc \in Beyond =>
                          /\ r.trigger = call[m].trigger
                          /\ call[m].pc \in Beyond \/ (call[m].pc = "row" /\ active = None)
                     /\ \/ timer' = timer
                        \/ timer' = now + PostRoll /\ active # None /\ ~Busy("quiet")
                     /\ ring \/ dark => ring' \/ dark' \/ call[m].pc \in Beyond
                     /\ Busy(m) \/ ~Busy("operator")
    PROVE  CoverInv'
<1>1. /\ {"quiet", "operator"} \subseteq Calls /\ m \in Calls /\ Motions \subseteq Calls
      /\ m \notin {"quiet", "operator"}
  BY CallsApart
<1>2. PICK f \in [Calls -> CallRec] : f = call' /\ f[m] = r /\ \A c \in Calls : c # m => f[c] = call[c]
  BY <1>1, OneCall
<1>3. f["quiet"] = call["quiet"] /\ f["operator"] = call["operator"]
  BY <1>1, <1>2
<1>4. /\ timer \in Nat /\ now \in Nat /\ PostRoll \in Nat /\ last \in Nat /\ last <= now
      /\ \A h \in Motions : call[h].trigger \in Nat /\ call[h].trigger <= last
  BY Reached, Constants DEF MotionInv, TypeInv
<1>5. ASSUME Clean'
      PROVE  TimerCovered' /\ HandlersCovered' /\ OperatorApart'
  <2>1. TimerCovered /\ HandlersCovered /\ OperatorApart
    BY <1>5 DEF CoverInv, Clean
  <2>2. timer' # 0 => active' # None
    BY <1>5, <2>1 DEF TimerCovered
  <2>3. ASSUME f["quiet"].pc # "idle"
        PROVE  active' # None /\ timer' = 0 /\ \A h \in Motions : f[h].pc \notin Beyond
    <3>1. active # None /\ timer = 0 /\ \A h \in Motions : call[h].pc \notin Beyond
      BY <1>3, <2>1, <2>3 DEF TimerCovered, Busy
    <3> QED BY <1>1, <1>2, <1>3, <1>5, <2>3, <3>1 DEF Busy
  <2>4. f["quiet"].pc \in {"stop", "kill"} => ring' \/ dark'
    BY <1>3, <1>5, <2>1, <2>3 DEF TimerCovered, Busy
  <2>5. ASSUME NEW h \in Motions, f[h].pc \in Beyond, timer' # 0
        PROVE  f[h].trigger + PostRoll <= timer'
    <3>1. f[h].trigger = call[h].trigger
      BY <1>1, <1>2, <1>5, <2>5
    <3>2. CASE timer' = now + PostRoll
      BY <1>4, <3>1, <3>2
    <3>3. CASE timer' = timer
      <4>1. call[h].pc \in Beyond
        BY <1>1, <1>2, <1>5, <2>1, <2>5, <3>3 DEF TimerCovered
      <4> QED BY <2>1, <2>5, <3>1, <3>3, <4>1 DEF TimerCovered
    <3> QED BY <1>5, <3>2, <3>3
  <2>6. TimerCovered'
    BY <1>2, <2>2, <2>3, <2>4, <2>5 DEF TimerCovered, Busy
  <2>7. HandlersCovered'
    <3> SUFFICES ASSUME NEW h \in Motions
                 PROVE  (f[h].pc \in Manned => active' # None) /\ f[h].pc # "rollback"
      BY <1>2 DEF HandlersCovered
    <3> QED BY <1>1, <1>2, <1>5, <2>1 DEF HandlersCovered
  <2>8. OperatorApart'
    <3>1. ~Busy("operator")
      BY <1>1, <1>5, <2>1 DEF OperatorApart
    <3> QED BY <1>2, <1>3, <3>1 DEF OperatorApart, Busy
  <2> QED BY <2>6, <2>7, <2>8
<1> QED BY <1>5 DEF CoverInv

(* A handler moves on, with the recorder in the map where it was. *)
LEMMA GoesCovered ==
    ASSUME MotionInv, CoverInv, NEW m \in Motions, NEW q \in MotionPcs, Go(m, q), Busy(m),
           gaps \subseteq gaps', UNCHANGED <<active, timer>>, active \in recs => active \in recs',
           ring \/ dark => ring' \/ dark' \/ call[m].pc \in Beyond,
           Clean' => /\ q # "rollback"
                     /\ q \in Manned => call[m].pc \in Manned \/ active # None
                     /\ q \in Beyond => call[m].pc \in Beyond \/ (call[m].pc = "row" /\ active = None)
    PROVE  CoverInv'
<1>1. PICK r \in CallRec : /\ call' = [call EXCEPT ![m] = r]
                           /\ r.pc = q /\ r.trigger = call[m].trigger
  BY GoRec, CallsApart DEF MotionPcs, AllPcs, Quick, Slow
<1>2. active' # None => active' \in recs'
  BY DEF CoverInv
<1> QED BY <1>1, <1>2, HandlerCovers

(* A handler promotes a segment of the ring. *)
LEMMA PromotesCovered ==
    ASSUME MotionInv, CoverInv, NEW m \in Motions, NEW q \in {"promote", "again"},
           NEW n \in Nat, NEW todo \in SUBSET Nat, Promote(m, q, n, todo), Busy(m),
           UNCHANGED <<active, recs, timer, gaps>>,
           q = "again" => call[m].pc \in Manned,
           call[m].pc \in Beyond \/ (call[m].pc = "row" /\ active = None)
    PROVE  CoverInv'
<1>1. PICK r \in CallRec : /\ call' = [call EXCEPT ![m] = r]
                           /\ r.pc = q /\ r.trigger = call[m].trigger
  BY PromoteRec, CallsApart DEF AllPcs, Slow
<1>2. ring' = ring /\ dark' = dark
  BY DEF Promote
<1>3. active' # None => active' \in recs'
  BY DEF CoverInv
<1> QED BY <1>1, <1>2, <1>3, HandlerCovers DEF Manned

(* A handler is over. *)
LEMMA FinishesCovered ==
    ASSUME MotionInv, CoverInv, NEW m \in Motions, Finish(m), Busy(m),
           gaps \subseteq gaps', active' # None => active' \in recs',
           Clean' => /\ active # None => active' # None
                     /\ \/ timer' = timer
                        \/ timer' = now + PostRoll /\ active # None /\ ~Busy("quiet")
                     /\ ring \/ dark => ring' \/ dark'
    PROVE  CoverInv'
<1>1. PICK i \in CallRec : i = Idle /\ i.pc = "idle"
  BY IdleTyped
<1>2. call' = [call EXCEPT ![m] = i]
  BY <1>1 DEF Finish
<1>3. i.pc # "rollback" /\ i.pc \notin Manned /\ i.pc \notin Beyond
  BY <1>1 DEF Manned, Beyond
<1> QED BY <1>1, <1>2, <1>3, HandlerCovers

LEMMA FailedCovered ==
    ASSUME MotionInv, CoverInv, NEW m \in Motions, Failed(m), Busy(m), gaps \subseteq gaps',
           UNCHANGED <<timer, ring, dark>>, active' # None => active' \in recs',
           Clean' => active' = active
    PROVE  CoverInv'
<1>1. CASE Finish(m)
  BY <1>1, FinishesCovered
<1>2. CASE Go(m, "ring")
  <2>1. PICK r \in CallRec : /\ call' = [call EXCEPT ![m] = r]
                             /\ r.pc = "ring" /\ r.trigger = call[m].trigger
    BY <1>2, GoRec, CallsApart DEF AllPcs, Quick
  <2>2. r.pc # "rollback" /\ r.pc \notin Manned /\ r.pc \notin Beyond
    BY <2>1 DEF Manned, Beyond
  <2> QED BY <2>1, <2>2, HandlerCovers
<1> QED BY <1>1, <1>2 DEF Failed

LEMMA DetectCovered ==
    ASSUME MotionInv, CoverInv, NEW m \in Motions, Detect(m)
    PROVE  CoverInv'
<1>1. PICK r : r = [Idle EXCEPT !.pc = "row", !.at = now, !.trigger = now]
  OBVIOUS
<1>2. r \in CallRec /\ r.pc = "row"
  BY <1>1, IdleTyped DEF Idle, CallRec, AllPcs, Quick, MotionInv, TypeInv
<1>3. /\ call' = [call EXCEPT ![m] = r] /\ UNCHANGED <<active, recs, timer, ring, dark>>
      /\ gaps' = gaps \cup {g \in {"overlap"} : Busy("operator")}
  BY <1>1 DEF Detect, rec, rings
<1>4. gaps \subseteq gaps' /\ (Clean' => ~Busy("operator"))
  BY <1>3 DEF Clean
<1>5. r.pc \notin Manned /\ r.pc \notin Beyond /\ r.pc # "rollback"
  BY <1>2 DEF Manned, Beyond
<1>6. active' # None => active' \in recs'
  BY <1>3 DEF CoverInv
<1> QED BY <1>2, <1>3, <1>4, <1>5, <1>6, HandlerCovers

LEMMA ReadRowCovered ==
    ASSUME MotionInv, CoverInv, NEW m \in Motions, ReadRow(m)
    PROVE  CoverInv'
<1>1. call[m].pc = "row" /\ Busy(m) /\ UNCHANGED <<active, recs>> /\ now \in Nat
  BY DEF ReadRow, At, Busy, rec, MotionInv, TypeInv
<1>2. active' # None => active' \in recs'
  BY <1>1 DEF CoverInv
<1>3. CASE mode # "motion" /\ Finish(m) /\ UNCHANGED <<rings, timer, gaps>>
  BY <1>1, <1>2, <1>3, FinishesCovered DEF rings
<1>4. CASE /\ active # None /\ Finish(m) /\ ScheduleMotionStop /\ UNCHANGED rings
           /\ gaps' = gaps \cup {g \in {"unheard"} : Busy("quiet")}
  <2>1. gaps \subseteq gaps' /\ (Clean' => ~Busy("quiet"))
    BY <1>4 DEF Clean
  <2>2. timer' = now + PostRoll /\ ring' = ring /\ dark' = dark
    BY <1>4 DEF ScheduleMotionStop, rings
  <2> QED BY <1>1, <1>2, <1>4, <2>1, <2>2, FinishesCovered
<1>5. CASE active = None /\ UNCHANGED <<timer, gaps>> /\ Go(m, "start") /\ UNCHANGED rings
  <2>1. "start" \in MotionPcs /\ "start" \notin Manned
    BY DEF MotionPcs, Manned
  <2>2. ring' = ring /\ dark' = dark
    BY <1>5 DEF rings
  <2> QED BY <1>1, <1>5, <2>1, <2>2, GoesCovered
<1>6. CASE /\ active = None /\ UNCHANGED <<timer, gaps>>
           /\ Promote(m, "promote", now, Candidates(call[m].trigger))
  BY <1>1, <1>6, PromotesCovered, BufferTyped
<1> QED BY <1>3, <1>4, <1>5, <1>6 DEF ReadRow

LEMMA ReadRowFailsCovered ==
    ASSUME MotionInv, CoverInv, NEW m \in Motions, ReadRowFails(m)
    PROVE  CoverInv'
<1>1. Busy(m) /\ Finish(m) /\ UNCHANGED <<active, recs, timer, ring, dark, gaps>>
  BY DEF ReadRowFails, At, Busy, rec, rings
<1>2. active' # None => active' \in recs'
  BY <1>1 DEF CoverInv
<1> QED BY <1>1, <1>2, FinishesCovered

LEMMA PromotedCovered ==
    ASSUME MotionInv, CoverInv, NEW m \in Motions, Promoted(m)
    PROVE  CoverInv'
<1>1. /\ call[m].pc = "promote" /\ Busy(m) /\ Go(m, "start")
      /\ UNCHANGED <<active, recs, timer, gaps, ring, dark>>
  BY DEF Promoted, At, Busy, rec, rings, Healthy
<1>2. "start" \in MotionPcs /\ "start" \notin Manned /\ call[m].pc \in Beyond
  BY <1>1 DEF MotionPcs, Manned, Beyond
<1> QED BY <1>1, <1>2, GoesCovered

LEMMA PromoteNextCovered ==
    ASSUME MotionInv, CoverInv, NEW m \in Motions, PromoteNext(m)
    PROVE  CoverInv'
<1>1. /\ call[m].pc \in {"promote", "again"} /\ Busy(m)
      /\ Promote(m, call[m].pc, call[m].at, call[m].todo)
      /\ UNCHANGED <<active, recs, timer, gaps>>
  BY DEF PromoteNext, Busy, rec, Healthy
<1>2. call[m] \in CallRec
  BY CallsApart DEF MotionInv, TypeInv
<1>3. call[m].at \in Nat /\ call[m].todo \in SUBSET Nat
  BY <1>2 DEF CallRec
<1>4. call[m].pc \in Beyond /\ (call[m].pc = "again" => call[m].pc \in Manned)
  BY <1>1 DEF Beyond, Manned
<1> QED BY <1>1, <1>3, <1>4, PromotesCovered

LEMMA StartChecksCovered ==
    ASSUME MotionInv, CoverInv, NEW m \in Motions, StartChecks(m)
    PROVE  CoverInv'
<1>1. /\ call[m].pc = "start" /\ Busy(m) /\ Go(m, IF active # None THEN "keep" ELSE "probe")
      /\ UNCHANGED <<active, recs, timer, gaps, ring, dark>>
  BY DEF StartChecks, At, Busy, rec, rings, Healthy
<1>2. PICK q \in {"keep", "probe"} : Go(m, q) /\ (q = "keep" => active # None)
  BY <1>1
<1>3. q \in MotionPcs /\ (q \in Manned => active # None) /\ call[m].pc \in Beyond /\ q # "rollback"
  BY <1>1, <1>2 DEF MotionPcs, Manned, Beyond
<1> QED BY <1>1, <1>2, <1>3, GoesCovered

LEMMA StartFailsCovered ==
    ASSUME MotionInv, CoverInv, NEW m \in Motions, StartFails(m)
    PROVE  CoverInv'
<1>1. Busy(m) /\ Failed(m) /\ UNCHANGED <<active, recs, timer, gaps, ring, dark>>
  BY DEF StartFails, Busy, rec, rings
<1>2. active' # None => active' \in recs'
  BY <1>1 DEF CoverInv
<1> QED BY <1>1, <1>2, FailedCovered

LEMMA SpawnCovered ==
    ASSUME MotionInv, CoverInv, NEW m \in Motions, Spawn(m)
    PROVE  CoverInv'
<1>1. /\ call[m].pc = "probe" /\ Busy(m) /\ Go(m, "commit") /\ active' = m /\ m \in recs'
      /\ UNCHANGED <<timer, gaps, ring, dark>> /\ m # None
  BY CallsApart DEF Spawn, At, Busy, rings, Healthy
<1>2. PICK r \in CallRec : /\ call' = [call EXCEPT ![m] = r]
                           /\ r.pc = "commit" /\ r.trigger = call[m].trigger
  BY <1>1, GoRec, CallsApart DEF AllPcs, Quick
<1>3. call[m].pc \in Beyond
  BY <1>1 DEF Beyond
<1> QED BY <1>1, <1>2, <1>3, HandlerCovers

LEMMA CommitCovered ==
    ASSUME MotionInv, CoverInv, NEW m \in Motions, Commit(m)
    PROVE  CoverInv'
<1>1. /\ call[m].pc \in {"commit", "keep"} /\ Busy(m) /\ Started(m)
      /\ UNCHANGED <<active, recs, timer, gaps>>
  BY DEF Commit, Busy, rec, Healthy
<1>2. call[m].pc \in Beyond /\ call[m].pc \in Manned
  BY <1>1 DEF Beyond, Manned
<1>3. CASE Go(m, "event")
  BY <1>1, <1>2, <1>3, GoesCovered DEF MotionPcs
<1>4. CASE Promote(m, "again", now, Candidates(now))
  <2>1. now \in Nat
    BY DEF MotionInv, TypeInv
  <2> QED BY <1>1, <1>2, <1>4, <2>1, PromotesCovered, BufferTyped
<1> QED BY <1>1, <1>3, <1>4 DEF Started

LEMMA CommitFailsCovered ==
    ASSUME MotionInv, CoverInv, NEW m \in Motions, CommitFails(m)
    PROVE  CoverInv'
<1>1. /\ Busy(m) /\ Go(m, "rollback") /\ gaps' = gaps \cup {"rollback"}
      /\ UNCHANGED <<active, recs, timer, ring, dark>>
  BY DEF CommitFails, At, Busy, rec, rings
<1>2. ~Clean' /\ gaps \subseteq gaps' /\ "rollback" \in MotionPcs
  BY <1>1 DEF Clean, MotionPcs
<1> QED BY <1>1, <1>2, GoesCovered

LEMMA RollbackCovered ==
    ASSUME MotionInv, CoverInv, NEW m \in Motions, Rollback(m)
    PROVE  CoverInv'
<1>1. /\ call[m].pc = "rollback" /\ Busy(m) /\ Failed(m)
      /\ UNCHANGED <<timer, gaps, ring, dark>> /\ recs' = recs \ {m}
      /\ active' = (IF active = m THEN None ELSE active)
  BY DEF Rollback, At, Busy, rings, Healthy, Ended
<1>2. ~Clean'
  BY <1>1 DEF CoverInv, HandlersCovered, Clean
<1>3. active' # None => active' \in recs'
  BY <1>1 DEF CoverInv
<1> QED BY <1>1, <1>2, <1>3, FailedCovered

LEMMA PromotedAgainCovered ==
    ASSUME MotionInv, CoverInv, NEW m \in Motions, PromotedAgain(m)
    PROVE  CoverInv'
<1>1. call[m].pc = "again" /\ Busy(m) /\ Go(m, "event") /\ UNCHANGED <<active, recs, timer, gaps>>
  BY DEF PromotedAgain, At, Busy, rec, Healthy
<1>2. call[m].pc \in Beyond /\ call[m].pc \in Manned
  BY <1>1 DEF Beyond, Manned
<1> QED BY <1>1, <1>2, GoesCovered DEF MotionPcs

LEMMA RegisterEventCovered ==
    ASSUME MotionInv, CoverInv, NEW m \in Motions, RegisterEvent(m)
    PROVE  CoverInv'
<1>1. /\ call[m].pc = "event" /\ Busy(m) /\ Finish(m) /\ timer' = now + PostRoll
      /\ UNCHANGED <<active, recs, gaps, ring, dark>>
  BY DEF RegisterEvent, At, Busy, rec, rings, Healthy, ScheduleMotionStop
<1>2. Clean' => active # None /\ ~Busy("quiet")
  BY <1>1 DEF CoverInv, Clean, HandlersCovered, TimerCovered, Manned, Beyond
<1>3. active' # None => active' \in recs'
  BY <1>1 DEF CoverInv
<1> QED BY <1>1, <1>2, <1>3, FinishesCovered

LEMMA RegisterEventFailsCovered ==
    ASSUME MotionInv, CoverInv, NEW m \in Motions, RegisterEventFails(m)
    PROVE  CoverInv'
<1>1. Busy(m) /\ Failed(m) /\ gaps \subseteq gaps' /\ UNCHANGED <<active, recs, timer, ring, dark>>
  BY DEF RegisterEventFails, At, Busy, rec, rings
<1>2. active' # None => active' \in recs'
  BY <1>1 DEF CoverInv
<1> QED BY <1>1, <1>2, FailedCovered

LEMMA MotionCovered ==
    ASSUME MotionInv, CoverInv, NEW m \in Motions, Motion(m)
    PROVE  CoverInv'
BY DetectCovered, ReadRowCovered, ReadRowFailsCovered, PromotedCovered, PromoteNextCovered,
   StartChecksCovered, StartFailsCovered, SpawnCovered, CommitCovered, CommitFailsCovered,
   RollbackCovered, PromotedAgainCovered, RegisterEventCovered, RegisterEventFailsCovered DEF Motion

(* A step of the quiet timer's call, which no handler stands in the way of. *)
LEMMA QuietCovered ==
    ASSUME MotionInv, CoverInv, NEW r \in CallRec, call' = [call EXCEPT !["quiet"] = r],
           r.pc # "idle" => Busy("quiet") \/ timer # 0,
           gaps \subseteq gaps', timer' \in {timer, 0}, active' # None => active' \in recs',
           Clean' => /\ r.pc # "idle" => /\ active' = active /\ timer' = 0
                                         /\ \A m \in Motions : call[m].pc \notin Beyond
                     /\ r.pc \in {"stop", "kill"} => ring' \/ dark'
                     /\ active' = active \/ Busy("quiet")
                     /\ ~Busy("operator")
    PROVE  CoverInv'
<1>1. "quiet" \in Calls /\ "operator" \in Calls /\ \A m \in Motions : m \in Calls /\ m # "quiet"
  BY CallsApart
<1>2. PICK f \in [Calls -> CallRec] : /\ f = call' /\ f["quiet"] = r
                                      /\ \A c \in Calls : c # "quiet" => f[c] = call[c]
  BY <1>1, OneCall
<1>3. \A m \in Motions : f[m] = call[m]
  BY <1>1, <1>2
<1>4. ASSUME Clean'
      PROVE  /\ r.pc # "idle" => /\ active' # None /\ timer' = 0
                                 /\ \A m \in Motions : call[m].pc \notin Beyond
             /\ r.pc \in {"stop", "kill"} => ring' \/ dark'
             /\ \/ active' # None \/ active = None
                \/ timer' = 0 /\ \A m \in Motions : call[m].pc \notin Manned
             /\ f["operator"].pc = "idle"
  <2>1. TimerCovered
    BY <1>4 DEF CoverInv, Clean
  <2>2. r.pc # "idle" => active # None
    BY <2>1 DEF TimerCovered
  <2>3. Busy("quiet") => timer' = 0 /\ \A m \in Motions : call[m].pc \notin Manned
    BY <2>1 DEF TimerCovered, Beyond, Manned
  <2>4. f["operator"].pc = "idle"
    BY <1>1, <1>2, <1>4 DEF Busy
  <2> QED BY <1>4, <2>2, <2>3, <2>4
<1> QED BY <1>2, <1>3, <1>4, OtherCovers

(* While the quiet timer's call runs, the recorder is there, no handler is about
   to drop the ring, and the operator waits. *)
LEMMA QuietApart ==
    ASSUME CoverInv, Clean, Busy("quiet")
    PROVE  /\ active # None /\ timer = 0 /\ ~Busy("operator")
           /\ \A m \in Motions : call[m].pc \notin Beyond
           /\ call["quiet"].pc \in {"stop", "kill"} => ring \/ dark
BY CallsApart DEF CoverInv, TimerCovered, OperatorApart

LEMMA QuietFiresCovered ==
    ASSUME MotionInv, CoverInv, Quiet
    PROVE  CoverInv'
<1>1. /\ timer # 0 /\ now >= timer /\ ~Busy("quiet") /\ timer' = 0 /\ Go("quiet", "row")
      /\ UNCHANGED <<active, recs, gaps>>
  BY DEF Quiet, rec, Healthy
<1>2. PICK r \in CallRec : call' = [call EXCEPT !["quiet"] = r] /\ r.pc = "row"
  BY <1>1, GoRec, CallsApart DEF AllPcs, Quick
<1>3. ASSUME Clean'
      PROVE  (\A m \in Motions : call[m].pc \notin Beyond) /\ ~Busy("operator")
  <2>1. TimerCovered /\ OperatorApart
    BY <1>1, <1>3 DEF CoverInv, Clean
  <2>2. ASSUME NEW m \in Motions, call[m].pc \in Beyond
        PROVE  FALSE
    <3>1. call[m].trigger + PostRoll <= timer
      BY <1>1, <2>1, <2>2 DEF TimerCovered
    <3>2. /\ call[m].trigger \in Nat /\ now \in Nat /\ MaxStart \in Nat /\ PostRoll \in Nat
          /\ timer \in Nat /\ PostRoll > MaxStart + 2
          /\ now <= call[m].trigger + 2 + MaxStart
      <4>1. /\ call[m].trigger \in Nat /\ now \in Nat /\ MaxStart \in Nat /\ PostRoll \in Nat
            /\ timer \in Nat /\ PostRoll > MaxStart + 2
        BY Reached, Constants DEF MotionInv, TypeInv
      <4>2. \/ now <= call[m].trigger + 1 \/ now <= call[m].trigger + 1 + MaxStart
            \/ now <= call[m].trigger + 2 + MaxStart
        BY <2>2, Reached DEF Beyond
      <4> QED BY <4>1, <4>2
    <3> QED BY <1>1, <3>1, <3>2
  <2> QED BY <1>1, <2>1, <2>2 DEF OperatorApart
<1>4. active' # None => active' \in recs'
  BY <1>1 DEF CoverInv
<1> QED BY <1>1, <1>2, <1>3, <1>4, QuietCovered

LEMMA QuietRowCovered ==
    ASSUME MotionInv, CoverInv, QuietRow \/ QuietRowFails
    PROVE  CoverInv'
<1>1. /\ call["quiet"].pc = "row" /\ Busy("quiet") /\ gaps \subseteq gaps'
      /\ UNCHANGED <<active, recs, timer, ring, dark>>
  BY DEF QuietRow, QuietRowFails, At, Busy, rec, rings, Healthy
<1>2. Clean' => Clean
  BY <1>1 DEF Clean
<1>3. active' # None => active' \in recs'
  BY <1>1 DEF CoverInv
<1>4. CASE Finish("quiet")
  <2>1. PICK i \in CallRec : i = Idle /\ i.pc = "idle"
    BY IdleTyped
  <2>2. call' = [call EXCEPT !["quiet"] = i]
    BY <1>4, <2>1 DEF Finish
  <2> QED BY <1>1, <1>2, <1>3, <2>1, <2>2, QuietApart, QuietCovered
<1>5. CASE Go("quiet", IF ring THEN "stop" ELSE "ring")
  <2>1. PICK q \in {"stop", "ring"} : Go("quiet", q) /\ (q = "stop" => ring)
    BY <1>5
  <2>2. PICK r \in CallRec : call' = [call EXCEPT !["quiet"] = r] /\ r.pc = q
    BY <2>1, GoRec, CallsApart DEF AllPcs, Quick
  <2> QED BY <1>1, <1>2, <1>3, <2>1, <2>2, QuietApart, QuietCovered
<1> QED BY <1>4, <1>5 DEF QuietRow, QuietRowFails

LEMMA QuietStopCovered ==
    ASSUME MotionInv, CoverInv, Stop("quiet") \/ StopFails("quiet")
    PROVE  CoverInv'
<1>1. /\ call["quiet"].pc = "stop" /\ Busy("quiet") /\ gaps \subseteq gaps'
      /\ UNCHANGED <<active, recs, timer, ring, dark>>
  BY DEF Stop, StopFails, AfterStop, At, Busy, rec, rings, Healthy
<1>2. Clean' => Clean
  BY <1>1 DEF Clean
<1>3. active' # None => active' \in recs'
  BY <1>1 DEF CoverInv
<1>4. CASE Finish("quiet")
  <2>1. PICK i \in CallRec : i = Idle /\ i.pc = "idle"
    BY IdleTyped
  <2>2. call' = [call EXCEPT !["quiet"] = i]
    BY <1>4, <2>1 DEF Finish
  <2> QED BY <1>1, <1>2, <1>3, <2>1, <2>2, QuietApart, QuietCovered
<1>5. CASE call' = [call EXCEPT !["quiet"].pc = "kill", !["quiet"].at = now, !["quiet"].victim = active]
  <2>1. call \in [Calls -> CallRec] /\ "quiet" \in Calls /\ now \in Nat /\ active \in Motions \cup {None}
    BY CallsApart DEF MotionInv, TypeInv
  <2>2. PICK k \in CallRec : k = call["quiet"]
    BY <2>1
  <2>3. PICK r : r = [k EXCEPT !.pc = "kill", !.at = now, !.victim = active]
    OBVIOUS
  <2>4. r \in CallRec /\ r.pc = "kill"
    BY <2>1, <2>3 DEF CallRec, AllPcs, Slow
  <2>5. call' = [call EXCEPT !["quiet"] = r]
    BY <1>5, <2>1, <2>2, <2>3
  <2> QED BY <1>1, <1>2, <1>3, <2>4, <2>5, QuietApart, QuietCovered
<1> QED BY <1>4, <1>5 DEF Stop, StopFails, AfterStop

LEMMA QuietKillCovered ==
    ASSUME MotionInv, CoverInv, Kill("quiet")
    PROVE  CoverInv'
<1>1. /\ call["quiet"].pc = "kill" /\ Busy("quiet") /\ Finish("quiet")
      /\ recs' = recs \ {call["quiet"].victim}
      /\ active' = (IF active = call["quiet"].victim THEN None ELSE active)
      /\ UNCHANGED <<timer, gaps, ring, dark>>
  BY DEF Kill, Ended, AfterStop, At, Busy, rings, Healthy
<1>2. Clean' => Clean
  BY <1>1 DEF Clean
<1>3. active' # None => active' \in recs'
  BY <1>1 DEF CoverInv
<1>4. PICK i \in CallRec : i = Idle /\ i.pc = "idle"
  BY IdleTyped
<1>5. call' = [call EXCEPT !["quiet"] = i]
  BY <1>1, <1>4 DEF Finish
<1> QED BY <1>1, <1>2, <1>3, <1>4, <1>5, QuietApart, QuietCovered

(* A step of the operator's request, which has the camera for itself. *)
LEMMA OperatorCovered ==
    ASSUME MotionInv, CoverInv, NEW f \in [Calls -> CallRec], call' = f,
           \A c \in Calls \ {"operator", "arming"} : f[c] = call[c],
           gaps \subseteq gaps', timer' \in {timer, 0}, active' # None => active' \in recs',
           Clean' => /\ timer' = 0 /\ \A c \in Calls \ {"operator"} : ~Busy(c)
                     /\ f["operator"].pc = "idle" \/ f["arming"].pc = "idle"
    PROVE  CoverInv'
<1>1. /\ "quiet" \in Calls /\ \A m \in Motions : m \in Calls /\ m \notin {"operator", "arming"}
  BY CallsApart
<1>2. \A m \in Motions : f[m] = call[m]
  BY <1>1
<1>3. ASSUME Clean'
      PROVE  /\ f["quiet"].pc = "idle" /\ timer' = 0
             /\ \A m \in Motions : call[m].pc \notin Manned
             /\ f["operator"].pc # "idle" => \A c \in Calls \ {"operator"} : f[c].pc = "idle"
  <2>1. \A c \in Calls \ {"operator"} : call[c].pc = "idle"
    BY <1>3 DEF Busy
  <2>2. \A m \in Motions : call[m].pc \notin Manned
    BY <1>1, <2>1 DEF Manned
  <2> QED BY <1>1, <1>3, <2>1, <2>2
<1> QED BY <1>2, <1>3, OtherCovers

LEMMA OperatorApartNow ==
    ASSUME CoverInv, Clean, Busy("operator")
    PROVE  /\ timer = 0 /\ call["arming"].pc = "idle"
           /\ \A c \in Calls \ {"operator"} : ~Busy(c)
BY CallsApart DEF CoverInv, OperatorApart, Busy

LEMMA SetMotionRecordingCovered ==
    ASSUME MotionInv, CoverInv, NEW want \in {"motion", "manual"}, SetMotionRecording(want)
    PROVE  CoverInv'
<1>1. /\ timer' = 0 /\ UNCHANGED <<active, recs>>
      /\ gaps' = gaps \cup {g \in {"overlap"} : \E c \in Calls : Busy(c)}
  BY DEF SetMotionRecording, rec
<1>2. PICK r : r = [Idle EXCEPT !.pc = "stop", !.at = now, !.want = want]
  OBVIOUS
<1>3. r \in CallRec
  BY <1>2, IdleTyped DEF Idle, CallRec, AllPcs, Quick, MotionInv, TypeInv
<1>4. PICK f \in [Calls -> CallRec] : /\ f = call' /\ f["operator"] = r
                                      /\ \A c \in Calls : c # "operator" => f[c] = call[c]
  <2>1. call' = [call EXCEPT !["operator"] = r] /\ "operator" \in Calls
    BY <1>2, CallsApart DEF SetMotionRecording
  <2> QED BY <1>3, <2>1, OneCall
<1>5. gaps \subseteq gaps' /\ (Clean' => \A c \in Calls : ~Busy(c))
  BY <1>1 DEF Clean
<1>6. Clean' => f["arming"].pc = "idle"
  BY <1>4, <1>5, CallsApart DEF Busy
<1>7. active' # None => active' \in recs'
  BY <1>1 DEF CoverInv
<1> QED BY <1>1, <1>4, <1>5, <1>6, <1>7, OperatorCovered

LEMMA OperatorMovesCovered ==
    ASSUME MotionInv, CoverInv, Busy("operator"), NEW r \in CallRec,
           call' = [call EXCEPT !["operator"] = r],
           gaps \subseteq gaps', timer' = timer, active' # None => active' \in recs'
    PROVE  CoverInv'
<1>1. PICK f \in [Calls -> CallRec] : /\ f = call' /\ f["operator"] = r
                                      /\ \A c \in Calls : c # "operator" => f[c] = call[c]
  BY CallsApart, OneCall
<1>2. Clean' => Clean
  BY DEF Clean
<1>3. f["arming"] = call["arming"]
  BY <1>1, CallsApart
<1> QED BY <1>1, <1>2, <1>3, OperatorApartNow, OperatorCovered

LEMMA OperatorStopCovered ==
    ASSUME MotionInv, CoverInv,
           Stop("operator") \/ StopFails("operator") \/ Kill("operator") \/ WriteFails
    PROVE  CoverInv'
<1>1. /\ Busy("operator") /\ gaps \subseteq gaps' /\ timer' = timer
      /\ UNCHANGED <<active, recs>> \/ Ended(call["operator"].victim)
  BY DEF Stop, StopFails, Kill, WriteFails, At, Busy, rec, Healthy
<1>2. active' # None => active' \in recs'
  BY <1>1 DEF CoverInv, Ended
<1>3. CASE AfterStop("operator")
  <2>1. PICK r \in CallRec : call' = [call EXCEPT !["operator"] = r]
    BY <1>3, GoRec, CallsApart DEF AfterStop, AllPcs, Quick
  <2> QED BY <1>1, <1>2, <2>1, OperatorMovesCovered
<1>4. CASE Finish("operator")
  <2>1. PICK i \in CallRec : call' = [call EXCEPT !["operator"] = i]
    BY <1>4, IdleTyped DEF Finish
  <2> QED BY <1>1, <1>2, <2>1, OperatorMovesCovered
<1>5. CASE call' = [call EXCEPT !["operator"].pc = "kill", !["operator"].at = now,
                                !["operator"].victim = active]
  <2>1. call \in [Calls -> CallRec] /\ "operator" \in Calls /\ now \in Nat
        /\ active \in Motions \cup {None}
    BY CallsApart DEF MotionInv, TypeInv
  <2>2. PICK k \in CallRec : k = call["operator"]
    BY <2>1
  <2>3. PICK r : r = [k EXCEPT !.pc = "kill", !.at = now, !.victim = active]
    OBVIOUS
  <2>4. r \in CallRec
    BY <2>1, <2>3 DEF CallRec, AllPcs, Slow
  <2>5. call' = [call EXCEPT !["operator"] = r]
    BY <1>5, <2>1, <2>2, <2>3
  <2> QED BY <1>1, <1>2, <2>4, <2>5, OperatorMovesCovered
<1> QED BY <1>3, <1>4, <1>5 DEF Stop, StopFails, Kill, WriteFails

LEMMA WriteCovered ==
    ASSUME MotionInv, CoverInv, Write
    PROVE  CoverInv'
<1>1. Busy("operator") /\ UNCHANGED <<active, recs, timer, gaps>>
  BY DEF Write, At, Busy, rec, Healthy
<1>2. PICK q \in {"ring", "idle"} :
         call' = [call EXCEPT !["operator"] = Idle, !["arming"].pc = q]
  BY DEF Write
<1>3. PICK a : a = [call["arming"] EXCEPT !.pc = q]
  OBVIOUS
<1>4. /\ call \in [Calls -> CallRec] /\ {"operator", "arming"} \subseteq Calls
      /\ call["arming"] \in CallRec
  BY CallsApart DEF MotionInv, TypeInv
<1>5. a \in CallRec
  BY <1>3, <1>4 DEF CallRec, AllPcs, Quick
<1>6. PICK i \in CallRec : i = Idle /\ i.pc = "idle"
  BY IdleTyped
<1>7. call' = [call EXCEPT !["operator"] = i, !["arming"] = a]
  BY <1>2, <1>3, <1>4, <1>6
<1>8. PICK f \in [Calls -> CallRec] : f = call'
  BY <1>4, <1>5, <1>7
<1>9. f["operator"] = i /\ \A c \in Calls \ {"operator", "arming"} : f[c] = call[c]
  BY <1>4, <1>7, <1>8
<1>10. Clean' => Clean
  BY <1>1 DEF Clean
<1>11. active' # None => active' \in recs'
  BY <1>1 DEF CoverInv
<1> QED BY <1>1, <1>6, <1>8, <1>9, <1>10, <1>11, OperatorApartNow, OperatorCovered

(* A ring comes up or fails to. *)
LEMMA RingCovered ==
    ASSUME MotionInv, CoverInv, NEW c \in Calls \ {"operator"}, RingUp(c) \/ RingFails(c)
    PROVE  CoverInv'
<1>1. /\ call[c].pc = "ring" /\ Busy(c) /\ AfterRing(c) /\ (ring' \/ dark')
      /\ UNCHANGED <<active, recs, timer>> /\ gaps \subseteq gaps'
  BY DEF RingUp, RingFails, StartPreBuffer, At, Busy, rec
<1>2. Clean' => Clean
  BY <1>1 DEF Clean
<1>3. active' # None => active' \in recs'
  BY <1>1 DEF CoverInv
<1>4. CASE c = "quiet"
  <2>1. PICK r \in CallRec : call' = [call EXCEPT !["quiet"] = r] /\ r.pc = "stop"
    BY <1>1, <1>4, GoRec, CallsApart DEF AfterRing, AllPcs, Quick
  <2> QED BY <1>1, <1>2, <1>3, <1>4, <2>1, QuietApart, QuietCovered
<1>5. CASE c = "arming"
  <2>1. PICK i \in CallRec : i = Idle /\ i.pc = "idle"
    BY IdleTyped
  <2>2. PICK f \in [Calls -> CallRec] : /\ f = call' /\ f["arming"] = i
                                        /\ \A d \in Calls : d # "arming" => f[d] = call[d]
    BY <1>1, <1>5, <2>1, OneCall DEF AfterRing, Finish
  <2>3. /\ \A m \in Motions : f[m] = call[m]
        /\ f["quiet"] = call["quiet"] /\ f["operator"] = call["operator"]
    BY <2>2, CallsApart
  <2>4. Clean' => ~Busy("operator")
    BY <1>1, <1>2, <1>5, OperatorApartNow
  <2>5. f["quiet"].pc # "idle" => Busy("quiet")
    BY <2>3 DEF Busy
  <2>6. f["operator"].pc # "idle" => Busy("operator")
    BY <2>3 DEF Busy
  <2> QED BY <1>1, <1>2, <1>3, <2>2, <2>3, <2>4, <2>5, <2>6, QuietApart, OtherCovers
<1>6. CASE c \in Motions
  BY <1>1, <1>3, <1>6, CallsApart, FinishesCovered DEF AfterRing
<1> QED BY <1>4, <1>5, <1>6 DEF Calls

(* The ring's own steps and time. *)
LEMMA TimeCovered ==
    ASSUME MotionInv, CoverInv, RingDies \/ PrunePreBuffers \/ Tick \/ UNCHANGED vars
    PROVE  CoverInv'
<1>1. /\ UNCHANGED <<active, recs, timer, call>> /\ gaps \subseteq gaps'
      /\ ring \/ dark => ring' \/ dark'
  BY DEF RingDies, PrunePreBuffers, Tick, vars, rec, Healthy
<1>2. PICK f \in [Calls -> CallRec] : f = call /\ call' = f
  BY <1>1 DEF MotionInv, TypeInv
<1>3. Clean' => Clean
  BY <1>1 DEF Clean
<1>4. active' # None => active' \in recs'
  BY <1>1 DEF CoverInv
<1>5. f["quiet"].pc # "idle" => Busy("quiet")
  BY <1>2 DEF Busy
<1>6. Clean /\ f["operator"].pc # "idle" =>
         timer = 0 /\ \A c \in Calls \ {"operator"} : f[c].pc = "idle"
  BY <1>2 DEF CoverInv, OperatorApart, Busy
<1> QED BY <1>1, <1>2, <1>3, <1>4, <1>5, <1>6, QuietApart, OtherCovers

(* Nothing but the arming call runs, and no recorder. *)
Rested == active = None /\ timer = 0 /\ \A c \in Calls \ {"arming"} : call[c].pc = "idle"

LEMMA RestCovered == Rested => CoverInv
<1> SUFFICES ASSUME Rested PROVE CoverInv
  OBVIOUS
<1>1. /\ call["quiet"].pc = "idle" /\ call["operator"].pc = "idle"
      /\ \A m \in Motions : call[m].pc = "idle"
  BY CallsApart DEF Rested
<1>2. TimerCovered
  BY <1>1 DEF Rested, TimerCovered, Beyond, Busy
<1>3. HandlersCovered
  BY <1>1 DEF HandlersCovered, Manned
<1>4. OperatorApart
  BY <1>1 DEF OperatorApart, Busy
<1> QED BY <1>2, <1>3, <1>4 DEF Rested, CoverInv

LEMMA InitCovered == Init => CoverInv
<1> SUFFICES ASSUME Init PROVE CoverInv
  OBVIOUS
<1>1. PICK i : i = Idle /\ i.pc = "idle"
  BY IdleTyped
<1>2. PICK a : a = [Idle EXCEPT !.pc = "ring"]
  OBVIOUS
<1>3. call = [c \in Calls |-> IF c = "arming" THEN a ELSE i]
  BY <1>1, <1>2 DEF Init
<1>4. \A c \in Calls \ {"arming"} : call[c].pc = "idle"
  BY <1>1, <1>3
<1>5. active = None /\ timer = 0
  BY Zenon DEF Init
<1> QED BY <1>4, <1>5, RestCovered DEF Rested

LEMMA ApiRestartsCovered ==
    ASSUME ApiRestarts
    PROVE  CoverInv'
<1>1. PICK i : i = Idle /\ i.pc = "idle"
  BY IdleTyped
<1>2. active' = None /\ timer' = 0 /\ \A c \in Calls \ {"arming"} : call'[c].pc = "idle"
  BY <1>1 DEF ApiRestarts
<1>3. Rested'
  BY <1>2 DEF Rested
<1> QED BY <1>3, RestCovered, PTL

LEMMA NextCovered ==
    ASSUME MotionInv, CoverInv, [Next]_vars
    PROVE  CoverInv'
<1>1. CASE UNCHANGED vars
  BY <1>1, TimeCovered
<1>2. CASE Operator
  BY <1>2, SetMotionRecordingCovered, OperatorStopCovered, WriteCovered DEF Operator
<1>3. CASE Next
  BY <1>2, <1>3, MotionCovered, RingCovered, QuietFiresCovered, QuietRowCovered, QuietStopCovered,
     QuietKillCovered, TimeCovered, ApiRestartsCovered DEF Next
<1> QED BY <1>1, <1>3

(* A handler that drops the ring has a recorder, and the quiet timer that stops
   one has a ring. *)
LEMMA StepCovers ==
    ASSUME MotionInv, CoverInv, [Next]_vars, ring \/ recs # {}, ~(ring' \/ recs' # {}), ~dark',
           ~ApiRestarts, ~Operator, Clean
    PROVE  FALSE
<1>1. TimerCovered /\ HandlersCovered
  BY DEF CoverInv
<1>2. active # None => active \in recs
  BY DEF CoverInv
<1>3. ASSUME NEW m \in Motions, Motion(m)
      PROVE  FALSE
  <2>1. CASE call[m].pc \in Manned
    <3>1. active \in recs /\ call[m].pc # "rollback"
      BY <1>1, <1>2, <2>1 DEF HandlersCovered
    <3>2. UNCHANGED recs
      BY <1>3, <2>1 DEF Motion, Manned, At, Busy, Detect, ReadRow, ReadRowFails, Promoted,
         PromoteNext, StartChecks, StartFails, Spawn, Commit, CommitFails, Rollback,
         PromotedAgain, RegisterEvent, RegisterEventFails, rec
    <3> QED BY <3>1, <3>2
  <2>2. CASE call[m].pc \notin Manned
    <3>1. call[m].pc # "rollback"
      BY <1>1 DEF HandlersCovered
    <3>2. ring' = ring /\ recs \subseteq recs'
      BY <1>3, <2>2, <3>1 DEF Motion, Manned, At, Busy, Detect, ReadRow, ReadRowFails, Promoted,
         PromoteNext, StartChecks, StartFails, Spawn, Commit, CommitFails, Rollback,
         PromotedAgain, RegisterEvent, RegisterEventFails, rec, rings, Promote
    <3> QED BY <3>2
  <2> QED BY <2>1, <2>2
<1>4. CASE Kill("quiet")
  <2>1. ring' = ring /\ dark' = dark /\ call["quiet"].pc = "kill"
    BY <1>4 DEF Kill, AfterStop, At, rings
  <2> QED BY <1>1, <2>1 DEF TimerCovered
<1>5. CASE \/ \E c \in Calls \ {"operator"} : RingUp(c) \/ RingFails(c)
           \/ Quiet \/ QuietRow \/ QuietRowFails \/ Stop("quiet") \/ StopFails("quiet")
           \/ PrunePreBuffers \/ Tick \/ UNCHANGED vars
  <2>1. recs' = recs /\ (ring => ring')
    BY <1>5 DEF RingUp, RingFails, StartPreBuffer, Quiet, QuietRow, QuietRowFails, Stop, StopFails,
       AfterStop, PrunePreBuffers, Tick, vars, rec, rings
  <2> QED BY <2>1
<1>6. CASE RingDies
  BY <1>6 DEF RingDies
<1> QED BY <1>3, <1>4, <1>5, <1>6 DEF Next

(* Neither a handler nor the quiet timer takes the last of ring and recorder
   away: the order of stopPreBuffer and start(), and that of startPreBuffer and
   stop(), hold under every interleaving of any number of movements. *)
THEOREM CoverIsKept == Spec => CoverageKept
<1>1. Init => MotionInv /\ CoverInv
  BY InitRests, InitCovered
<1>2. MotionInv /\ CoverInv /\ [Next]_vars => (MotionInv /\ CoverInv)'
  BY NextKeeps, NextCovered
<1>3. MotionInv /\ CoverInv /\ [Next]_vars =>
        [(ring \/ recs # {}) /\ ~(ring' \/ recs' # {})
           => \/ dark' \/ ApiRestarts \/ Operator
              \/ gaps \cap {"overlap", "rollback", "unheard"} # {}]_vars
  BY StepCovers DEF Clean
<1> QED BY <1>1, <1>2, <1>3, PTL DEF Spec, CoverageKept

-----------------------------------------------------------------------------
(* The beginning of an event.                                              *)

(* The gaps BeginningKept leaves out have not been met. *)
Tidy == gaps \subseteq {"unattended"}

(* The ring's directory belongs to the ring in the map. *)
OneRing == ~stray /\ (ring \/ buffer = {})

(* A handler that has looked for the segments of its movement has promoted them, or
   is going to: what is left is older than the window, or was written since. *)
Sought(k) ==
    k.pc \in Beyond =>
        \A t \in buffer \ kept :
            \/ t + PreEvent < k.trigger \/ t > k.trigger
            \/ k.pc = "promote" /\ t \in k.todo

(* The same for what the ring wrote during the start. *)
SoughtAgain(k) ==
    k.pc = "again" => \A t \in buffer \ kept : t + PreEvent < k.at \/ t \in k.todo

(* The oldest segment of a list is moved first. *)
Underway(k) ==
    /\ k.pc = "promote" => \A t \in k.todo : t + PreEvent > k.trigger
    /\ k.pc = "again" => \A t \in k.todo : t + PreEvent > k.at

Searching(k) ==
    /\ Sought(k) /\ SoughtAgain(k) /\ Underway(k)
    /\ k.pc \in {"event", "ring"} => buffer = {}

BeginInv ==
    /\ \A t \in buffer : t <= now
    /\ Tidy => OneRing /\ \A m \in Motions : Searching(call[m])

LEMMA TidyIsClean == Tidy => Clean
BY DEF Tidy, Clean

(* A list of segments has an oldest one. *)
LEMMA Oldest ==
    ASSUME NEW S \in SUBSET Nat, S # {}
    PROVE  Min(S) \in S /\ \A t \in S : Min(S) <= t
<1> DEFINE R == OpToRel(<, Nat)
<1>1. IsWellFoundedOn(R, Nat)
  BY NatLessThanWellFounded
<1>2. \A x, y \in Nat : <<y, x>> \in R \/ x <= y
  BY DEF OpToRel
<1> HIDE DEF R
<1>3. PICK x \in S : \A y \in S : ~(<<y, x>> \in R)
  BY <1>1, WFMin
<1>4. \E y \in S : \A t \in S : y <= t
  BY <1>2, <1>3
<1> QED BY <1>4 DEF Min

(* No segment is added or forgotten to be kept. *)
NoneAdded ==
    /\ now' = now /\ gaps \subseteq gaps'
    /\ buffer' \subseteq buffer /\ buffer' \ kept' \subseteq buffer \ kept

LEMMA StaysTidy == NoneAdded => (Tidy' => Tidy)
BY DEF NoneAdded, Tidy

LEMMA SameRings ==
    ASSUME UNCHANGED <<rings, now>>, gaps \subseteq gaps'
    PROVE  NoneAdded /\ (OneRing => OneRing') /\ buffer' = buffer /\ kept' = kept
BY DEF NoneAdded, OneRing, rings

LEMMA RingStops ==
    ASSUME StopPreBuffer, now' = now, gaps \subseteq gaps'
    PROVE  NoneAdded /\ (OneRing => OneRing' /\ buffer' = {})
BY DEF StopPreBuffer, NoneAdded, OneRing

LEMMA OneIsMoved ==
    ASSUME NEW c, NEW q, NEW n, NEW todo, Promote(c, q, n, todo), now' = now, gaps \subseteq gaps'
    PROVE  /\ NoneAdded /\ (OneRing => OneRing')
           /\ buffer' \ kept' = (buffer \ kept) \ {Min(todo)}
BY DEF Promote, NoneAdded, OneRing

(* A step of another call than a handler's, or of none. *)
LEMMA OtherBegins ==
    ASSUME BeginInv, NoneAdded, \A m \in Motions : call'[m] = call[m], Tidy' => (OneRing => OneRing')
    PROVE  BeginInv'
<1>1. \A t \in buffer' : t <= now'
  BY DEF BeginInv, NoneAdded
<1>2. ASSUME Tidy'
      PROVE  OneRing' /\ \A m \in Motions : Searching(call[m])'
  <2>1. OneRing /\ \A m \in Motions : Searching(call[m])
    BY <1>2, StaysTidy DEF BeginInv
  <2>2. ASSUME NEW m \in Motions
        PROVE  Searching(call[m])'
    <3>1. PICK k : k = call[m]
      OBVIOUS
    <3>2. call'[m] = k /\ Searching(k)
      BY <2>1, <3>1
    <3>3. Sought(k)'
      BY <3>2 DEF Searching, Sought, NoneAdded
    <3>4. SoughtAgain(k)'
      BY <3>2 DEF Searching, SoughtAgain, NoneAdded
    <3>5. Underway(k)' /\ (k.pc \in {"event", "ring"} => buffer' = {})
      BY <3>2 DEF Searching, Underway, NoneAdded
    <3>6. Searching(k)'
      BY <3>3, <3>4, <3>5 DEF Searching
    <3> QED BY <3>2, <3>6 DEF Searching, Sought, SoughtAgain, Underway
  <2> QED BY <1>2, <2>1, <2>2
<1> QED BY <1>1, <1>2 DEF BeginInv

(* A step of a handler: what it is looking for must be found. *)
LEMMA HandlerBegins ==
    ASSUME MotionInv, BeginInv, NoneAdded, NEW m \in Motions, NEW r \in CallRec,
           call' = [call EXCEPT ![m] = r],
           Tidy' => (OneRing /\ Searching(call[m]) => OneRing' /\ Searching(r)')
    PROVE  BeginInv'
<1>1. \A t \in buffer' : t <= now'
  BY DEF BeginInv, NoneAdded
<1>2. PICK f \in [Calls -> CallRec] : f = call' /\ f[m] = r /\ \A c \in Calls : c # m => f[c] = call[c]
  BY CallsApart, OneCall
<1>3. ASSUME Tidy'
      PROVE  OneRing' /\ \A h \in Motions : Searching(f[h])'
  <2>1. OneRing /\ \A h \in Motions : Searching(call[h])
    BY <1>3, StaysTidy DEF BeginInv
  <2>2. ASSUME NEW h \in Motions, h # m
        PROVE  Searching(f[h])'
    <3>1. PICK k : k = f[h]
      OBVIOUS
    <3>2. k = call[h] /\ Searching(k)
      BY <1>2, <2>1, <2>2, <3>1, CallsApart
    <3>3. Sought(k)'
      BY <3>2 DEF Searching, Sought, NoneAdded
    <3>4. SoughtAgain(k)'
      BY <3>2 DEF Searching, SoughtAgain, NoneAdded
    <3>5. Underway(k)' /\ (k.pc \in {"event", "ring"} => buffer' = {})
      BY <3>2 DEF Searching, Underway, NoneAdded
    <3> QED BY <3>1, <3>3, <3>4, <3>5 DEF Searching
  <2> QED BY <1>2, <1>3, <2>1, <2>2
<1> QED BY <1>1, <1>2, <1>3 DEF BeginInv

(* Calls that look for nothing, whatever the buffer. *)
LEMMA LooksForNothing ==
    ASSUME NEW r, r.pc \in {"idle", "row"}
    PROVE  Searching(r)'
BY DEF Searching, Sought, SoughtAgain, Underway, Beyond

LEMMA FinishBegins ==
    ASSUME MotionInv, BeginInv, NoneAdded, NEW m \in Motions, Finish(m),
           Tidy' => (OneRing => OneRing')
    PROVE  BeginInv'
<1>1. PICK i \in CallRec : i = Idle /\ i.pc = "idle"
  BY IdleTyped
<1>2. call' = [call EXCEPT ![m] = i]
  BY <1>1 DEF Finish
<1>3. Searching(i)'
  BY <1>1, LooksForNothing
<1> QED BY <1>2, <1>3, HandlerBegins

(* A handler moves on with what its promotion left. *)
LEMMA GoesOnBegins ==
    ASSUME MotionInv, BeginInv, NoneAdded, NEW m \in Motions,
           NEW q \in {"start", "keep", "probe", "commit"}, Go(m, q),
           Tidy' => (OneRing => OneRing'),
           \/ call[m].pc \in Beyond /\ (call[m].pc = "promote" => call[m].todo = {})
           \/ OneRing => \A t \in buffer \ kept : t + PreEvent < call[m].trigger \/ t > call[m].trigger
    PROVE  BeginInv'
<1>1. PICK r \in CallRec : /\ call' = [call EXCEPT ![m] = r]
                           /\ r.pc = q /\ r.trigger = call[m].trigger
  BY GoRec, CallsApart DEF AllPcs, Quick
<1>2. ASSUME OneRing, Searching(call[m])
      PROVE  Searching(r)'
  <2>1. PICK k : k = call[m]
    OBVIOUS
  <2>2. \A t \in buffer \ kept : t + PreEvent < r.trigger \/ t > r.trigger
    BY <1>1, <1>2, <2>1 DEF Searching, Sought
  <2>3. Sought(r)'
    BY <2>2 DEF Sought, NoneAdded
  <2>4. SoughtAgain(r)' /\ Underway(r)' /\ r.pc \notin {"event", "ring"}
    BY <1>1 DEF SoughtAgain, Underway
  <2> QED BY <2>3, <2>4 DEF Searching
<1> QED BY <1>1, <1>2, HandlerBegins

(* Nothing is left to look for. *)
LEMMA ClearedBegins ==
    ASSUME MotionInv, BeginInv, NoneAdded, NEW m \in Motions, NEW q \in {"event", "ring"}, Go(m, q),
           Tidy' => (OneRing => OneRing' /\ buffer' = {})
    PROVE  BeginInv'
<1>1. PICK r \in CallRec : call' = [call EXCEPT ![m] = r] /\ r.pc = q
  BY GoRec, CallsApart DEF AllPcs, Quick
<1>2. buffer' = {} => Searching(r)'
  BY <1>1 DEF Searching, Sought, SoughtAgain, Underway
<1> QED BY <1>1, <1>2, HandlerBegins

LEMMA FailedBegins ==
    ASSUME MotionInv, BeginInv, NEW m \in Motions, Failed(m), UNCHANGED <<rings, now>>, gaps \subseteq gaps'
    PROVE  BeginInv'
<1>1. NoneAdded /\ (OneRing => OneRing') /\ buffer' = buffer
  BY SameRings
<1>2. CASE Finish(m)
  BY <1>1, <1>2, FinishBegins
<1>3. CASE ~ring /\ Go(m, "ring")
  <2>1. OneRing => buffer' = {}
    BY <1>1, <1>3 DEF OneRing
  <2> QED BY <1>1, <1>3, <2>1, ClearedBegins
<1> QED BY <1>2, <1>3 DEF Failed

(* Where a promotion gets to. *)
LEMMA PromoteList ==
    ASSUME MotionInv, NEW c \in Calls, NEW q \in {"promote", "again"}, NEW n \in Nat,
           NEW todo \in SUBSET Nat, Promote(c, q, n, todo)
    PROVE  \E r \in CallRec : /\ call' = [call EXCEPT ![c] = r]
                              /\ r.pc = q /\ r.at = n /\ r.trigger = call[c].trigger
                              /\ r.todo = todo \ {Min(todo)}
<1>1. call \in [Calls -> CallRec] /\ call[c] \in CallRec
  BY DEF MotionInv, TypeInv
<1>2. PICK left \in SUBSET Nat : left = todo \ {Min(todo)}
  OBVIOUS
<1>3. PICK r : r = [call[c] EXCEPT !.pc = q, !.at = n, !.todo = left]
  OBVIOUS
<1>4. r \in CallRec
  BY <1>1, <1>3 DEF CallRec, AllPcs, Slow
<1>5. /\ r.pc = q /\ r.at = n /\ r.trigger = call[c].trigger /\ r.todo = left
      /\ call' = [call EXCEPT ![c] = r]
  BY <1>1, <1>2, <1>3 DEF CallRec, Promote
<1> QED BY <1>2, <1>4, <1>5

LEMMA DetectBegins ==
    ASSUME MotionInv, BeginInv, NEW m \in Motions, Detect(m)
    PROVE  BeginInv'
<1>1. PICK r : r = [Idle EXCEPT !.pc = "row", !.at = now, !.trigger = now]
  OBVIOUS
<1>2. r \in CallRec /\ r.pc = "row"
  BY <1>1, IdleTyped DEF Idle, CallRec, AllPcs, Quick, MotionInv, TypeInv
<1>3. call' = [call EXCEPT ![m] = r] /\ UNCHANGED <<rings, now>> /\ gaps \subseteq gaps'
  BY <1>1 DEF Detect
<1>4. Searching(r)'
  BY <1>2, LooksForNothing
<1> QED BY <1>2, <1>3, <1>4, SameRings, HandlerBegins

LEMMA ReadRowBegins ==
    ASSUME MotionInv, BeginInv, NEW m \in Motions, ReadRow(m)
    PROVE  BeginInv'
<1>1. /\ call[m].pc = "row" /\ now' = now /\ gaps \subseteq gaps'
      /\ now \in Nat /\ PreEvent \in Nat /\ call[m].trigger \in Nat
      /\ buffer \in SUBSET Nat /\ m \in Calls
  BY Constants, Reached, BufferTyped DEF ReadRow, At, Quietly, MotionInv, TypeInv
<1>2. CASE Finish(m) /\ UNCHANGED rings
  BY <1>1, <1>2, SameRings, FinishBegins
<1>3. CASE Go(m, "start") /\ UNCHANGED rings /\ ~(ring /\ Candidates(call[m].trigger) # {})
  <2>1. OneRing => \A t \in buffer \ kept :
                     t + PreEvent < call[m].trigger \/ t > call[m].trigger
    BY <1>1, <1>3 DEF OneRing, Candidates
  <2> QED BY <1>1, <1>3, <2>1, SameRings, GoesOnBegins
<1>4. CASE /\ Candidates(call[m].trigger) # {}
           /\ Promote(m, "promote", now, Candidates(call[m].trigger))
  <2>1. PICK todo \in SUBSET Nat : todo = Candidates(call[m].trigger)
    BY BufferTyped
  <2>2. PICK r \in CallRec : /\ call' = [call EXCEPT ![m] = r]
                             /\ r.pc = "promote" /\ r.trigger = call[m].trigger
                             /\ r.todo = todo \ {Min(todo)}
    BY <1>1, <1>4, <2>1, PromoteList
  <2>3. NoneAdded /\ (OneRing => OneRing') /\ buffer' \ kept' = (buffer \ kept) \ {Min(todo)}
    BY <1>1, <1>4, <2>1, OneIsMoved
  <2>4. Min(todo) \in todo /\ \A t \in todo : Min(todo) <= t
    BY <1>4, <2>1, Oldest
  <2>5. \A t \in buffer' \ kept' :
           t + PreEvent < r.trigger \/ t > r.trigger \/ (t \in todo /\ t # Min(todo))
    <3> SUFFICES ASSUME NEW t \in buffer' \ kept', t \notin todo
                 PROVE  t + PreEvent < r.trigger \/ t > r.trigger
      BY <2>3
    <3>1. t \in buffer /\ t \in Nat /\ r.trigger \in Nat
      BY <1>1, <2>2, <2>3
    <3>2. ~(t + PreEvent >= r.trigger /\ t <= r.trigger + 1)
      BY <2>1, <2>2, <3>1 DEF Candidates
    <3> QED BY <1>1, <3>1, <3>2
  <2>6. Sought(r)'
    BY <2>2, <2>5 DEF Sought
  <2>7. \A t \in todo : t \in Nat /\ t + PreEvent >= r.trigger
    BY <1>1, <2>1, <2>2 DEF Candidates
  <2>8. \A t \in r.todo : t + PreEvent > r.trigger
    <3>1. PICK n \in todo : n = Min(todo) /\ (\A t \in todo : n <= t)
      BY <2>4
    <3>2. \A t \in r.todo : t \in todo /\ t # n
      BY <2>2, <3>1
    <3>3. r.trigger \in Nat /\ n \in Nat /\ n + PreEvent >= r.trigger
      BY <1>1, <2>2, <2>7, <3>1
    <3>4. ASSUME NEW t \in r.todo
          PROVE  t + PreEvent > r.trigger
      <4>1. t \in Nat /\ n <= t /\ t # n
        BY <2>7, <3>1, <3>2
      <4> QED BY <1>1, <3>3, <4>1
    <3> QED BY <3>4
  <2>9. Underway(r)'
    BY <2>2, <2>8 DEF Underway
  <2>10. SoughtAgain(r)' /\ r.pc \notin {"event", "ring"}
    BY <2>2 DEF SoughtAgain
  <2> QED BY <2>2, <2>3, <2>6, <2>9, <2>10, HandlerBegins DEF Searching
<1> QED BY <1>2, <1>3, <1>4 DEF ReadRow

LEMMA PromotedBegins ==
    ASSUME MotionInv, BeginInv, NEW m \in Motions, Promoted(m)
    PROVE  BeginInv'
<1>1. call[m].pc \in Beyond /\ call[m].todo = {} /\ Go(m, "start")
  BY DEF Promoted, At, Beyond
<1>2. NoneAdded /\ (OneRing => OneRing')
  BY SameRings DEF Promoted, Healthy, Quietly
<1> QED BY <1>1, <1>2, GoesOnBegins

LEMMA PromoteNextBegins ==
    ASSUME MotionInv, BeginInv, NEW m \in Motions, PromoteNext(m)
    PROVE  BeginInv'
<1>1. PICK k : k = call[m]
  OBVIOUS
<1>2. /\ k.pc \in {"promote", "again"} /\ Promote(m, k.pc, k.at, k.todo)
      /\ now' = now /\ gaps \subseteq gaps'
  BY <1>1 DEF PromoteNext, Healthy, Quietly
<1>3. k \in CallRec /\ m \in Calls
  BY <1>1, CallsApart DEF MotionInv, TypeInv
<1>4. k.at \in Nat /\ k.todo \in SUBSET Nat
  BY <1>3 DEF CallRec
<1>5. PICK r \in CallRec : /\ call' = [call EXCEPT ![m] = r]
                           /\ r.pc = k.pc /\ r.at = k.at /\ r.trigger = k.trigger
                           /\ r.todo = k.todo \ {Min(k.todo)}
  BY <1>1, <1>2, <1>3, <1>4, PromoteList
<1>6. NoneAdded /\ (OneRing => OneRing') /\ buffer' \ kept' = (buffer \ kept) \ {Min(k.todo)}
  BY <1>2, OneIsMoved
<1>7. ASSUME Searching(k)
      PROVE  Searching(r)'
  <2>1. Sought(r)'
    BY <1>5, <1>6, <1>7 DEF Searching, Sought
  <2>2. SoughtAgain(r)'
    BY <1>5, <1>6, <1>7 DEF Searching, SoughtAgain
  <2>3. Underway(r)'
    BY <1>5, <1>7 DEF Searching, Underway
  <2> QED BY <1>2, <1>5, <2>1, <2>2, <2>3 DEF Searching
<1> QED BY <1>1, <1>5, <1>6, <1>7, HandlerBegins

LEMMA StartChecksBegins ==
    ASSUME MotionInv, BeginInv, NEW m \in Motions, StartChecks(m)
    PROVE  BeginInv'
<1>1. call[m].pc = "start" /\ UNCHANGED <<rings, now>> /\ gaps \subseteq gaps'
  BY DEF StartChecks, At, Healthy, Quietly
<1>2. PICK q \in {"keep", "probe"} : Go(m, q)
  BY DEF StartChecks
<1> QED BY <1>1, <1>2, SameRings, GoesOnBegins DEF Beyond

LEMMA SpawnBegins ==
    ASSUME MotionInv, BeginInv, NEW m \in Motions, Spawn(m)
    PROVE  BeginInv'
<1>1. call[m].pc = "probe" /\ Go(m, "commit") /\ UNCHANGED <<rings, now>> /\ gaps \subseteq gaps'
  BY DEF Spawn, At, Healthy, Quietly
<1> QED BY <1>1, SameRings, GoesOnBegins DEF Beyond

LEMMA CommitBegins ==
    ASSUME MotionInv, BeginInv, NEW m \in Motions, Commit(m)
    PROVE  BeginInv'
<1>1. /\ call[m].pc \in {"commit", "keep"} /\ Started(m) /\ now' = now /\ gaps \subseteq gaps'
      /\ now \in Nat /\ PreEvent \in Nat /\ buffer \in SUBSET Nat /\ m \in Calls
      /\ \A t \in buffer : t <= now
  BY Constants, BufferTyped, CallsApart DEF Commit, Healthy, Quietly, MotionInv, TypeInv, BeginInv
<1>2. CASE StopPreBuffer /\ Go(m, "event")
  BY <1>1, <1>2, RingStops, ClearedBegins
<1>3. CASE Candidates(now) # {} /\ Promote(m, "again", now, Candidates(now))
  <2>1. PICK todo \in SUBSET Nat : todo = Candidates(now)
    BY BufferTyped
  <2>2. PICK r \in CallRec : /\ call' = [call EXCEPT ![m] = r]
                             /\ r.pc = "again" /\ r.at = now /\ r.trigger = call[m].trigger
                             /\ r.todo = todo \ {Min(todo)}
    BY <1>1, <1>3, <2>1, PromoteList
  <2>3. NoneAdded /\ (OneRing => OneRing') /\ buffer' \ kept' = (buffer \ kept) \ {Min(todo)}
    BY <1>1, <1>3, <2>1, OneIsMoved
  <2>4. PICK n \in todo : n = Min(todo) /\ \A t \in todo : n <= t
    BY <1>3, <2>1, Oldest
  <2>5. ASSUME Searching(call[m])
        PROVE  Sought(r)'
    <3>1. PICK k : k = call[m]
      OBVIOUS
    <3> QED BY <1>1, <2>2, <2>3, <2>5, <3>1 DEF Searching, Sought, Beyond
  <2>6. \A t \in buffer' \ kept' : t + PreEvent < now \/ (t \in todo /\ t # n)
    <3> SUFFICES ASSUME NEW t \in buffer' \ kept', t \notin todo
                 PROVE  t + PreEvent < now
      BY <2>3, <2>4
    <3>1. t \in buffer /\ t \in Nat /\ t <= now
      BY <1>1, <2>3
    <3>2. ~(t + PreEvent >= now /\ t <= now + 1)
      BY <2>1, <3>1 DEF Candidates
    <3> QED BY <1>1, <3>1, <3>2
  <2>7. SoughtAgain(r)'
    BY <2>2, <2>4, <2>6 DEF SoughtAgain
  <2>8. ASSUME NEW t \in r.todo
        PROVE  t + PreEvent > now
    <3>1. n \in Nat /\ n + PreEvent >= now
      BY <2>1 DEF Candidates
    <3>2. t \in Nat /\ n <= t /\ t # n
      BY <2>2, <2>4
    <3> QED BY <1>1, <3>1, <3>2
  <2>9. Underway(r)' /\ r.pc \notin {"event", "ring"}
    BY <2>2, <2>8 DEF Underway
  <2> QED BY <2>2, <2>3, <2>5, <2>7, <2>9, HandlerBegins DEF Searching
<1> QED BY <1>1, <1>2, <1>3 DEF Started

LEMMA CommitFailsBegins ==
    ASSUME MotionInv, BeginInv, NEW m \in Motions, CommitFails(m)
    PROVE  BeginInv'
<1>1. /\ Go(m, "rollback") /\ UNCHANGED <<rings, now>> /\ gaps' = gaps \cup {"rollback"}
  BY DEF CommitFails, Fails, Quietly
<1>2. ~Tidy'
  BY <1>1 DEF Tidy
<1>3. PICK r \in CallRec : call' = [call EXCEPT ![m] = r]
  BY <1>1, GoRec, CallsApart DEF AllPcs, Slow
<1> QED BY <1>1, <1>2, <1>3, SameRings, HandlerBegins

LEMMA FinishedBegins ==
    ASSUME MotionInv, BeginInv, NEW m \in Motions,
           \/ ReadRowFails(m) \/ StartFails(m) \/ Rollback(m)
           \/ RegisterEvent(m) \/ RegisterEventFails(m)
    PROVE  BeginInv'
<1>1. (Finish(m) \/ Failed(m)) /\ UNCHANGED <<rings, now>> /\ gaps \subseteq gaps'
  BY DEF ReadRowFails, StartFails, Rollback, RegisterEvent, RegisterEventFails, Fails, Healthy, Quietly
<1> QED BY <1>1, SameRings, FinishBegins, FailedBegins

LEMMA PromotedAgainBegins ==
    ASSUME MotionInv, BeginInv, NEW m \in Motions, PromotedAgain(m)
    PROVE  BeginInv'
<1>1. Go(m, "event") /\ NoneAdded /\ (OneRing => OneRing' /\ buffer' = {})
  BY RingStops DEF PromotedAgain, Healthy, Quietly
<1> QED BY <1>1, ClearedBegins

LEMMA MotionBegins ==
    ASSUME MotionInv, BeginInv, NEW m \in Motions, Motion(m)
    PROVE  BeginInv'
BY DetectBegins, ReadRowBegins, PromotedBegins, PromoteNextBegins, StartChecksBegins, SpawnBegins,
   CommitBegins, CommitFailsBegins, FinishedBegins, PromotedAgainBegins DEF Motion

(* A ring comes up or fails to. *)
LEMMA RingBegins ==
    ASSUME MotionInv, BeginInv, NEW c \in Calls \ {"operator"}, RingUp(c) \/ RingFails(c)
    PROVE  BeginInv'
<1>1. NoneAdded
  BY DEF RingUp, RingFails, StartPreBuffer, NoneAdded, Fails, Quietly
<1>2. ASSUME Tidy', OneRing
      PROVE  OneRing'
  <2>1. CASE RingFails(c)
    BY <1>2, <2>1 DEF RingFails, OneRing
  <2>2. CASE StartPreBuffer
    <3>1. ~ring
      BY <1>2, <2>2 DEF StartPreBuffer, Tidy
    <3>2. ~stray /\ stray' = (stray \/ ring) /\ ring' = TRUE
      BY <1>2, <2>2 DEF StartPreBuffer, OneRing
    <3> QED BY <3>1, <3>2, Zenon DEF OneRing
  <2> QED BY <2>1, <2>2 DEF RingUp
<1>3. AfterRing(c)
  BY DEF RingUp, RingFails
<1>4. CASE c \in Motions
  BY <1>1, <1>2, <1>3, <1>4, CallsApart, FinishBegins DEF AfterRing
<1>5. CASE c \notin Motions
  <2>1. \A m \in Motions : call'[m] = call[m]
    BY <1>3, <1>5, CallsApart DEF AfterRing, Go, Finish, MotionInv, TypeInv
  <2> QED BY <1>1, <1>2, <2>1, OtherBegins
<1> QED BY <1>4, <1>5

(* The quiet timer and the operator's request leave the handlers alone. *)
LEMMA QuietBegins ==
    ASSUME MotionInv, BeginInv,
           \/ Quiet \/ QuietRow \/ QuietRowFails
           \/ Stop("quiet") \/ StopFails("quiet") \/ Kill("quiet")
    PROVE  BeginInv'
<1>1. UNCHANGED <<rings, now>> /\ gaps \subseteq gaps'
  BY DEF Quiet, QuietRow, QuietRowFails, Stop, StopFails, Kill, AfterStop, FailsIn, Fails,
     Healthy, Quietly
<1>2. \A m \in Motions : call'[m] = call[m]
  BY CallsApart DEF Quiet, QuietRow, QuietRowFails, Stop, StopFails, Kill, AfterStop, Go, Finish,
     MotionInv, TypeInv
<1> QED BY <1>1, <1>2, SameRings, OtherBegins

LEMMA OperatorBegins ==
    ASSUME MotionInv, BeginInv, Operator
    PROVE  BeginInv'
<1>1. now' = now /\ gaps \subseteq gaps'
  BY DEF Operator, SetMotionRecording, Stop, StopFails, Kill, Write, WriteFails, FailsIn,
     Healthy, Quietly
<1>2. UNCHANGED rings \/ StopPreBuffer
  BY DEF Operator, SetMotionRecording, Stop, StopFails, Kill, Write, WriteFails, AfterStop
<1>3. NoneAdded /\ (OneRing => OneRing')
  BY <1>1, <1>2, SameRings, RingStops
<1>4. \A m \in Motions : call'[m] = call[m]
  BY CallsApart DEF Operator, SetMotionRecording, Stop, StopFails, Kill, Write, WriteFails,
     AfterStop, Go, Finish, MotionInv, TypeInv
<1> QED BY <1>3, <1>4, OtherBegins

LEMMA RingAloneBegins ==
    ASSUME MotionInv, BeginInv, RingDies \/ PrunePreBuffers
    PROVE  BeginInv'
<1>1. call' = call /\ NoneAdded
  BY DEF RingDies, PrunePreBuffers, NoneAdded, Fails, Healthy, Quietly
<1>2. Tidy' => (OneRing => OneRing')
  BY DEF RingDies, PrunePreBuffers, Tidy, OneRing
<1> QED BY <1>1, <1>2, OtherBegins

LEMMA ApiRestartsBegins ==
    ASSUME BeginInv, ApiRestarts
    PROVE  BeginInv'
<1>1. UNCHANGED <<buffer, now>> /\ ~Tidy'
  BY DEF ApiRestarts, Fails, Quietly, Tidy
<1> QED BY <1>1 DEF BeginInv

LEMMA InitBegins == Init => BeginInv
<1> SUFFICES ASSUME Init PROVE BeginInv
  OBVIOUS
<1>1. buffer = {} /\ kept = {} /\ stray = FALSE
  BY Zenon DEF Init
<1>2. ASSUME NEW m \in Motions
      PROVE  Searching(call[m])
  <2>1. PICK i : i = Idle /\ i.pc = "idle"
    BY IdleTyped
  <2>2. call[m] = i
    BY <2>1, CallsApart DEF Init
  <2> QED BY <1>1, <2>1, <2>2 DEF Searching, Sought, SoughtAgain, Underway, Beyond
<1> QED BY <1>1, <1>2 DEF BeginInv, OneRing

(* A slot passes: what the ring writes is later than every movement, and nobody
   is past a promotion of now without a recorder that writes it too. *)
LEMMA TickBegins ==
    ASSUME MotionInv, CoverInv, BeginInv, Tick
    PROVE  BeginInv'
<1>1. /\ now \in Nat /\ now' = now + 1 /\ call' = call /\ gaps' = gaps
      /\ \A t \in buffer : t <= now
      /\ buffer \in SUBSET Nat /\ last \in Nat /\ last <= now
  BY BufferTyped DEF Tick, BeginInv, MotionInv, TypeInv
<1>2. /\ buffer' = IF ring \/ stray THEN buffer \cup {now'} ELSE buffer
      /\ kept' = kept \cup {t \in buffer' \ buffer : recs # {}}
      /\ UNCHANGED <<ring, stray>>
  BY DEF Tick
<1>3. buffer' \subseteq buffer \cup {now'} /\ now' \notin buffer
  BY <1>1, <1>2
<1>4. \A t \in buffer' : t <= now'
  BY <1>1, <1>3
<1>5. ASSUME Tidy'
      PROVE  OneRing' /\ \A m \in Motions : Searching(call[m])'
  <2>1. /\ OneRing /\ \A m \in Motions : Searching(call[m])
        /\ TimerCovered /\ HandlersCovered
    BY <1>1, <1>5, TidyIsClean DEF Tidy, BeginInv, CoverInv
  <2>2. OneRing'
    BY <1>2, <2>1 DEF OneRing
  <2>3. ASSUME NEW m \in Motions
        PROVE  Searching(call[m])'
    <3>1. PICK k : k = call[m]
      OBVIOUS
    <3>2. /\ call'[m] = k /\ Searching(k) /\ k.pc \notin Quick
          /\ k.trigger \in Nat /\ k.trigger <= now
      BY <1>1, <2>1, <2>3, <3>1, Reached, CallsApart DEF Tick
    <3>3. \A t \in buffer' \ kept' : t \in buffer \ kept \/ (t = now' /\ recs = {})
      BY <1>2, <1>3
    <3>4. Sought(k)'
      <4> SUFFICES ASSUME k.pc \in Beyond, NEW t \in buffer' \ kept'
                   PROVE  \/ t + PreEvent < k.trigger
                          \/ t > k.trigger
                          \/ k.pc = "promote" /\ t \in k.todo
        BY DEF Sought
      <4>1. CASE t \in buffer \ kept
        BY <3>2, <4>1 DEF Searching, Sought
      <4>2. CASE t = now'
        BY <1>1, <3>2, <4>2
      <4> QED BY <3>3, <4>1, <4>2
    <3>5. k.pc = "again" => recs # {}
      BY <2>1, <3>1 DEF HandlersCovered, Manned, CoverInv
    <3>6. SoughtAgain(k)'
      BY <3>2, <3>3, <3>5 DEF Searching, SoughtAgain
    <3>7. Underway(k)' /\ k.pc \notin {"event", "ring"}
      BY <3>2 DEF Searching, Underway, Quick
    <3>8. Searching(k)'
      BY <3>4, <3>6, <3>7 DEF Searching
    <3> QED BY <3>2, <3>8 DEF Searching, Sought, SoughtAgain, Underway
  <2> QED BY <2>2, <2>3
<1> QED BY <1>4, <1>5 DEF BeginInv

LEMMA NextBegins ==
    ASSUME MotionInv, CoverInv, BeginInv, [Next]_vars
    PROVE  BeginInv'
<1>1. CASE UNCHANGED vars
  BY <1>1 DEF vars, BeginInv, Tidy, OneRing, Searching, Sought, SoughtAgain, Underway
<1>2. CASE Next
  BY <1>2, MotionBegins, RingBegins, QuietBegins, OperatorBegins, RingAloneBegins, TickBegins,
     ApiRestartsBegins DEF Next
<1> QED BY <1>1, <1>2

(* A complete segment that is older than the window of a promotion that would look
   for it now is older than the window of every movement in hand. *)
LEMMA OldForAll ==
    ASSUME MaxStart <= PreEvent, MotionInv, CoverInv, BeginInv, Tidy,
           NEW h \in Motions, Busy(h), NEW t \in buffer \ kept, t + PreEvent < now
    PROVE  t + PreEvent < call[h].trigger
<1>1. PICK k \in CallRec : k = call[h]
  BY CallsApart DEF MotionInv, TypeInv
<1>2. /\ k.trigger \in Nat /\ k.at \in Nat /\ now \in Nat /\ t \in Nat
      /\ MaxStart \in Nat /\ PreEvent \in Nat
  BY <1>1, Reached, BufferTyped, Constants
<1>3. Searching(k) /\ HandlersCovered /\ t \in buffer
  BY <1>1, TidyIsClean DEF BeginInv, CoverInv
<1>4. k.pc \in MotionPcs \ {"idle", "rollback"}
  BY <1>1, <1>3, CallsApart DEF HandlersCovered, Busy, MotionInv, TypeInv
<1>5. Age(k) /\ HandlerAge(k)
  BY <1>1, CallsApart DEF MotionInv, Ages
<1>6. CASE k.pc = "row"
  BY <1>1, <1>2, <1>6, Reached
<1>7. CASE k.pc \in {"event", "ring"}
  BY <1>3, <1>7 DEF Searching
<1>8. CASE k.pc = "promote"
  <2>1. now <= k.trigger + 1
    BY <1>1, <1>8, Reached
  <2>2. t + PreEvent < k.trigger \/ t > k.trigger \/ t + PreEvent > k.trigger
    BY <1>3, <1>8 DEF Searching, Sought, Underway, Beyond
  <2> QED BY <1>1, <1>2, <2>1, <2>2
<1>9. CASE k.pc \in {"start", "keep", "probe", "commit"}
  <2>1. now <= k.trigger + 1 + MaxStart
    BY <1>1, <1>2, <1>9, Reached
  <2>2. t + PreEvent < k.trigger \/ t > k.trigger
    BY <1>3, <1>9 DEF Searching, Sought, Beyond
  <2> QED BY <1>1, <1>2, <2>1, <2>2
<1>10. CASE k.pc = "again"
  <2>1. k.at <= k.trigger + 1 + MaxStart /\ now <= k.at + 1
    BY <1>5, <1>10 DEF Age, HandlerAge, Slow
  <2>2. t + PreEvent < k.trigger \/ t > k.trigger
    BY <1>3, <1>10 DEF Searching, Sought, Beyond
  <2>3. t + PreEvent < k.at \/ t + PreEvent > k.at
    BY <1>3, <1>10 DEF Searching, SoughtAgain, Underway
  <2> QED BY <1>1, <1>2, <2>1, <2>2, <2>3
<1> QED BY <1>4, <1>6, <1>7, <1>8, <1>9, <1>10 DEF MotionPcs

(* What a handler drops with the ring is older than the window that ends now. *)
LEMMA DropsOld ==
    ASSUME MotionInv, CoverInv, BeginInv, Tidy, [Next]_vars,
           NEW m \in Motions, call[m].pc # "event", call'[m].pc = "event"
    PROVE  \A t \in buffer \ (buffer' \cup kept) : t + PreEvent < now
<1>1. /\ now \in Nat /\ PreEvent \in Nat /\ buffer \in SUBSET Nat /\ m \in Calls
      /\ call \in [Calls -> CallRec] /\ \A t \in buffer : t <= now
  BY Constants, BufferTyped, CallsApart DEF MotionInv, TypeInv, BeginInv
<1>2. PICK i : i = Idle /\ i.pc = "idle"
  BY IdleTyped
<1>3. Next
  BY DEF vars
<1>4. CASE \E h \in Motions : Motion(h)
  <2>1. PICK h \in Motions : Motion(h)
    BY <1>4
  <2>2. h = m
    <3>1. \/ Detect(h) \/ Finish(h) \/ (\E q : Go(h, q))
          \/ (\E q, n, todo : Promote(h, q, n, todo))
      BY <2>1 DEF Motion, ReadRow, ReadRowFails, Promoted, PromoteNext,
         StartChecks, StartFails, Failed, Spawn, Commit, Started, CommitFails, Rollback,
         PromotedAgain, RegisterEvent, RegisterEventFails
    <3>2. CASE Detect(h)
      BY <1>1, <3>2, CallsApart DEF Detect
    <3>3. CASE Finish(h)
      BY <1>1, <3>3, CallsApart DEF Finish
    <3>4. CASE \E q : Go(h, q)
      BY <1>1, <3>4, CallsApart DEF Go
    <3>5. CASE \E q, n, todo : Promote(h, q, n, todo)
      BY <1>1, <3>5, CallsApart DEF Promote
    <3> QED BY <3>1, <3>2, <3>3, <3>4, <3>5
  <2>3. Commit(m) \/ PromotedAgain(m)
    <3>1. CASE Detect(m)
      <4>1. PICK r : r = [Idle EXCEPT !.pc = "row", !.at = now, !.trigger = now]
        OBVIOUS
      <4>2. call' = [call EXCEPT ![m] = r] /\ r.pc = "row"
        BY <3>1, <4>1 DEF Detect, Idle
      <4> QED BY <1>1, <4>2
    <3>2. ~Finish(m)
      BY <1>1, <1>2 DEF Finish
    <3>3. \A q : Go(m, q) => q = "event"
      BY <1>1 DEF Go
    <3>4. ASSUME NEW q \in {"promote", "again"}, NEW n, NEW todo, Promote(m, q, n, todo)
          PROVE  FALSE
      <4>1. PICK left : left = todo \ {Min(todo)}
        OBVIOUS
      <4>2. PICK r : r = [call[m] EXCEPT !.pc = q, !.at = n, !.todo = left]
        OBVIOUS
      <4>3. call' = [call EXCEPT ![m] = r]
        BY <1>1, <3>4, <4>1, <4>2 DEF Promote
      <4>4. r.pc = q
        BY <1>1, <4>2 DEF CallRec
      <4> QED BY <1>1, <4>3, <4>4
    <3> QED BY <2>1, <2>2, <3>1, <3>2, <3>3, <3>4 DEF Motion, ReadRow, ReadRowFails, Promoted,
          PromoteNext, StartChecks, StartFails, Failed, Spawn, CommitFails, Rollback,
          RegisterEvent, RegisterEventFails
  <2>4. CASE PromotedAgain(m)
    <3>1. PICK k \in CallRec : k = call[m]
      BY <1>1
    <3>2. k.pc = "again" /\ k.todo = {} /\ k.at \in Nat /\ k.at <= now
      BY <2>4, <3>1, CallsApart DEF PromotedAgain, At, CallRec, MotionInv, Ages, Age
    <3>3. SoughtAgain(k)
      BY <3>1 DEF BeginInv, Searching
    <3>4. \A t \in buffer \ kept : t \in Nat /\ t + PreEvent < k.at
      BY <1>1, <3>2, <3>3 DEF SoughtAgain
    <3> QED BY <1>1, <3>2, <3>4
  <2>5. CASE Commit(m)
    <3>1. ring => Candidates(now) = {}
      <4>1. CASE Promote(m, "again", now, Candidates(now))
        BY <1>1, <4>1 DEF Promote
      <4>2. CASE ~(ring /\ Candidates(now) # {})
        BY <4>2
      <4> QED BY <2>5, <4>1, <4>2 DEF Commit, Started
    <3>2. ASSUME NEW t \in buffer
          PROVE  t + PreEvent < now
      <4>1. t \notin Candidates(now) /\ t \in Nat /\ t <= now
        BY <1>1, <3>1, <3>2 DEF BeginInv, OneRing
      <4> QED BY <1>1, <4>1 DEF Candidates
    <3> QED BY <3>2
  <2> QED BY <2>3, <2>4, <2>5
<1>5. CASE ~\E h \in Motions : Motion(h)
  <2>1. CASE \E c \in Calls \ {"operator"} : RingUp(c) \/ RingFails(c)
    BY <1>1, <1>2, <2>1, CallsApart DEF RingUp, RingFails, AfterRing, Go, Finish
  <2>2. CASE Quiet \/ QuietRow \/ QuietRowFails \/ Stop("quiet") \/ StopFails("quiet") \/ Kill("quiet")
    BY <1>1, <2>2, CallsApart DEF Quiet, QuietRow, QuietRowFails, Stop, StopFails, Kill, AfterStop,
       Go, Finish
  <2>3. CASE Operator
    BY <1>1, <2>3, CallsApart DEF Operator, SetMotionRecording, Stop, StopFails, Kill, Write,
       WriteFails, AfterStop, Go, Finish
  <2>4. CASE RingDies \/ PrunePreBuffers \/ Tick
    BY <2>4 DEF RingDies, PrunePreBuffers, Tick
  <2>5. CASE ApiRestarts
    BY <1>1, <1>2, <2>5, CallsApart DEF ApiRestarts
  <2> QED BY <1>3, <1>5, <2>1, <2>2, <2>3, <2>4, <2>5 DEF Next
<1> QED BY <1>4, <1>5

(* The ring is not dropped with footage of an event that nobody has, for any number
   of movements in hand, when the window is not shorter than the longest start. *)
THEOREM BeginningIsKept == MaxStart <= PreEvent /\ Spec => BeginningKept
<1> SUFFICES ASSUME MaxStart <= PreEvent
             PROVE  Spec => BeginningKept
  OBVIOUS
<1> DEFINE Kept == \A m \in Motions :
                     (call[m].pc # "event" /\ call'[m].pc = "event"
                        /\ gaps \subseteq {"unattended"}) =>
                       \A h \in Motions : Busy(h) =>
                         \A t \in buffer \ (buffer' \cup kept) : t + PreEvent < call[h].trigger
<1>1. Init => MotionInv /\ CoverInv /\ BeginInv
  BY InitRests, InitCovered, InitBegins
<1>2. MotionInv /\ CoverInv /\ BeginInv /\ [Next]_vars => (MotionInv /\ CoverInv /\ BeginInv)'
  BY NextKeeps, NextCovered, NextBegins
<1>3. MotionInv /\ CoverInv /\ BeginInv /\ [Next]_vars => [Kept]_vars
  BY DropsOld, OldForAll DEF Tidy
<1> QED BY <1>1, <1>2, <1>3, PTL DEF Spec, BeginningKept

=============================================================================
