-------------------------- MODULE TempRadio_proofs --------------------------
(***************************************************************************)
(* Proofs about TempRadio for any companions, settings and durations, and  *)
(* all bounds.  Where a property needs that some events do not happen, the *)
(* hypothesis says which: the budgets of those events are zero.            *)
(***************************************************************************)
EXTENDS TempRadio, TLAPS

\* An event that does not happen.
Never(kind) == \A b \in Budgets : b[kind] = 0

RecordOk(r) == IF r.active THEN None \notin {r.key, r.original, r.temp} ELSE r = NoRecord

\* The radio, what is known of it, and to whom commands go.
Links ==
    /\ radio \in [Companions -> Settings] /\ home \in [Companions -> Settings]
    /\ link \in Companions \cup {None} /\ known \in Settings \cup {None} /\ setup \in BOOLEAN
    /\ link = None <=> known = None

\* The session, and the operation that works on one.
Sessions ==
    /\ sess \in Record /\ RecordOk(sess)
    /\ op \in Op
    /\ op.at = "idle" => op = IdleOp
    /\ op.at # "idle" => sess.active /\ op.does # "none"
    /\ RecordOk(op.old)
    /\ op.wire # None => op.wire = link /\ op.at \in {"sent", "landed"}

\* The tasks around it.
Tasks ==
    /\ timer \in [at : {"none", "wait", "queued", "retry"}, for : Nat]
    /\ scan \in BOOLEAN /\ takeover \in {"none", "start", "restore"} /\ ext \in Nat
    /\ patch \in [at : {"none", "wait", "end"}, to : Settings \cup {None}, ends : BOOLEAN]
    /\ patch.at # "none" => patch.to \in Settings
    /\ now \in 0 .. MaxNow
    /\ spent \in [Kinds -> Nat]

TypeInv == Links /\ Sessions /\ Tasks

----------------------------------------------------------------------------
(* Types *)

\* No companion is no setting.
LEMMA NoneIsNothing == None \notin Companions /\ None \notin Settings
BY SettingsAssumption DEF Settings

\* The empty values are of their types.
LEMMA EmptyTypes ==
    /\ NoRecord \in Record /\ RecordOk(NoRecord) /\ ~NoRecord.active
    /\ IdleOp \in Op /\ IdleOp.at = "idle" /\ IdleOp.old = NoRecord /\ IdleOp.wire = None
    /\ IdleOp.by = "none" /\ IdleOp.does = "none"
    /\ NoTimer \in [at : {"none", "wait", "queued", "retry"}, for : Nat]
    /\ NoPatch \in [at : {"none", "wait", "end"}, to : Settings \cup {None}, ends : BOOLEAN]
    /\ NoPatch.at = "none" /\ NoTimer.at = "none"
<1>1. NoRecord \in Record /\ RecordOk(NoRecord) /\ ~NoRecord.active
    BY DEF NoRecord, Record, RecordOk
<1>2. /\ IdleOp \in Op /\ IdleOp.at = "idle" /\ IdleOp.old = NoRecord /\ IdleOp.wire = None
      /\ IdleOp.by = "none" /\ IdleOp.does = "none"
    BY <1>1 DEF IdleOp, Op
<1>3. NoTimer \in [at : {"none", "wait", "queued", "retry"}, for : Nat] /\ NoTimer.at = "none"
    BY DEF NoTimer
<1>4. /\ NoPatch \in [at : {"none", "wait", "end"}, to : Settings \cup {None}, ends : BOOLEAN]
      /\ NoPatch.at = "none"
    BY DEF NoPatch
<1>5. QED
    BY <1>1, <1>2, <1>3, <1>4

\* What is left of a budget is counted.
LEMMA SpendType ==
    ASSUME spent \in [Kinds -> Nat], NEW k \in Kinds, Spend(k)
    PROVE  spent' \in [Kinds -> Nat] /\ spent'[k] = spent[k] + 1
           /\ \A j \in Kinds \ {k} : spent'[j] = spent[j]
BY DEF Spend

\* A command writes settings.
LEMMA TargetType ==
    ASSUME Sessions, op.at # "idle"
    PROVE  Target \in Settings
<1>1. /\ sess \in Record /\ op.old \in Record /\ sess.active
      /\ RecordOk(sess) /\ RecordOk(op.old)
    BY DEF Sessions, Op
<1>2. sess.original \in Settings /\ sess.temp \in Settings
    BY <1>1 DEF RecordOk, Record
<1>3. op.old.active => op.old.temp \in Settings
    BY <1>1 DEF RecordOk, Record
<1>4. op.does \in {"none", "start", "undo", "restore"} /\ op.does # "none"
    BY DEF Sessions, Op
<1>5. QED
    BY <1>2, <1>3, <1>4 DEF Target

\* The session a start stores.
LEMMA NewRecordType ==
    ASSUME Links, Sessions, Tasks, link # None,
           NEW s \in Temps, NEW d \in Durations, NEW by \in {"user", "scan"}, NEW r,
           r = NewRecord(s, d, by)
    PROVE  /\ r \in Record /\ r.active /\ RecordOk(r) /\ r.key = link /\ r.temp = s
           /\ r.original = (IF sess.active THEN sess.original ELSE known)
           /\ r.prev = (IF sess.active THEN sess.temp ELSE None)
           /\ ~r.pending /\ r.scan = (by = "scan") /\ r.expires = now + d
<1> DEFINE original == IF sess.active THEN sess.original ELSE known
           prev == IF sess.active THEN sess.temp ELSE None
<1>1. sess \in Record /\ RecordOk(sess)
    BY DEF Sessions
<1>2. original \in Settings /\ original # None
    BY <1>1, NoneIsNothing DEF RecordOk, Record, Links
<1>3. prev \in Settings \cup {None}
    BY <1>1 DEF Record
<1>4. now + d \in Nat
    BY TimeAssumption DEF Tasks
<1>5. s \in Settings /\ s # None
    BY NoneIsNothing DEF Settings
<1>6. link \in Companions
    BY DEF Links
<1>7. r = [active |-> TRUE, key |-> link, original |-> original, temp |-> s, prev |-> prev,
           expires |-> now + d, pending |-> FALSE, scan |-> by = "scan"]
    BY DEF NewRecord
<1> HIDE DEF original, prev
<1>8. r \in Record
    BY <1>2, <1>3, <1>4, <1>5, <1>6, <1>7 DEF Record
<1>9. /\ r.active /\ r.key = link /\ r.temp = s /\ r.original = original /\ r.prev = prev
      /\ ~r.pending /\ r.scan = (by = "scan") /\ r.expires = now + d
    BY <1>7
<1>10. RecordOk(r)
    BY <1>2, <1>5, <1>6, <1>9, NoneIsNothing DEF RecordOk
<1>11. QED
    BY <1>8, <1>9, <1>10 DEF original, prev

\* What a step does to the radio and the link.
LEMMA LinksStep ==
    ASSUME TypeInv, [Next]_vars
    PROVE  Links'
<1>0. Links /\ Sessions /\ Tasks
    BY DEF TypeInv
<1>1. CASE UNCHANGED <<radioVars, linkVars>>
    BY <1>0, <1>1 DEF Links, radioVars, linkVars
<1>2. CASE Land
    <2>1. Target \in Settings /\ op.wire \in Companions
        BY <1>0, <1>2, TargetType DEF Land, Sessions, Op
    <2>2. radio' = [radio EXCEPT ![op.wire] = Target] /\ UNCHANGED <<home, link, known, setup>>
        BY <1>2 DEF Land, linkVars
    <2>3. QED
        BY <1>0, <2>1, <2>2 DEF Links
<1>3. CASE SwitchOk \/ SwitchSilent
    <2>1. Target \in Settings /\ Target # None
        BY <1>0, <1>3, TargetType, NoneIsNothing DEF SwitchOk, SwitchSilent
    <2>2. op.wire \in Companions /\ link # None
        BY <1>0, <1>3 DEF SwitchOk, SwitchSilent, Sessions, Op
    <2>3. radio[op.wire] \in Settings /\ radio[op.wire] # None
        BY <1>0, <2>2, NoneIsNothing DEF Links
    <2>4. known' \in {known, Target, radio[op.wire]}
        BY <1>3 DEF SwitchOk, SwitchSilent
    <2>5. UNCHANGED <<radio, home, link, setup>>
        BY <1>3 DEF SwitchOk, SwitchSilent, radioVars
    <2>6. QED
        BY <1>0, <2>1, <2>2, <2>3, <2>4, <2>5 DEF Links
<1>4. CASE PatchApply
    <2>1. patch.to \in Settings /\ patch.to # None
        BY <1>0, <1>4, NoneIsNothing DEF PatchApply, Tasks
    <2>2. /\ link # None /\ radio' = [radio EXCEPT ![link] = patch.to]
          /\ home' = [home EXCEPT ![link] = patch.to] /\ known' = patch.to
          /\ UNCHANGED <<link, setup>>
        BY <1>4 DEF PatchApply
    <2>3. QED
        BY <1>0, <2>1, <2>2 DEF Links
<1>5. CASE Disconnect \/ Crash
    BY <1>0, <1>5 DEF Disconnect, Crash, Links, radioVars
<1>6. ASSUME NEW c \in Companions, Connect(c)
      PROVE  Links'
    BY <1>0, <1>6, NoneIsNothing DEF Connect, Links, radioVars
<1>7. ASSUME NEW c \in Companions, NEW s \in Others, ChangeElsewhere(c, s)
      PROVE  Links'
    <2>1. s \in Settings
        BY DEF Settings
    <2>2. QED
        BY <1>0, <1>7, <2>1 DEF ChangeElsewhere, Links, linkVars
<1>8. CASE Reconcile
    BY <1>0, <1>8 DEF Reconcile, Links, radioVars
<1>9. CASE UserStep
    <2>1. UNCHANGED <<radioVars, linkVars>>
        BY <1>9 DEF UserStep, StartBegin, UserRestore, RunScan, ScanCancel, PatchBegin
    <2>2. QED
        BY <1>1, <2>1
<1>10. CASE Acquire \/ SwitchFails
    <2>1. UNCHANGED <<radioVars, linkVars>>
        BY <1>10 DEF Acquire, SwitchFails
    <2>2. QED
        BY <1>1, <2>1
<1>11. CASE TimerStep
    <2>1. UNCHANGED <<radioVars, linkVars>>
        BY <1>11 DEF TimerStep, TimerWake, TimerRestore
    <2>2. QED
        BY <1>1, <2>1
<1>12. CASE TaskStep
    <2>1. UNCHANGED <<radioVars, linkVars>> \/ PatchApply
        BY <1>12 DEF TaskStep, StartRefused, TakeoverRestore, ScanRestore, ScanFinish, Extend,
                     PatchRefused, PatchEnd
    <2>2. QED
        BY <1>1, <1>4, <2>1
<1>13. CASE WorldStep
    <2>1. CASE Tick \/ \E d \in Durations : ScanHeard(d)
        <3>1. UNCHANGED <<radioVars, linkVars>>
            BY <2>1 DEF Tick, ScanHeard
        <3>2. QED
            BY <1>1, <3>1
    <2>2. QED
        BY <1>5, <1>6, <1>7, <1>13, <2>1 DEF WorldStep
<1>14. CASE UNCHANGED vars
    BY <1>1, <1>14 DEF vars
<1>15. QED
    BY <1>2, <1>3, <1>8, <1>9, <1>10, <1>11, <1>12, <1>13, <1>14 DEF Next, SwitchStep

\* Where a session is cleared, restored later, or written back.
LEMMA SessionChanges ==
    ASSUME Links, Sessions
    PROVE  /\ sess' = NoRecord /\ op' = IdleOp => Sessions'
           /\ RestoreElsewhere /\ UNCHANGED link => Sessions'
           /\ RestoreEnds => Sessions'
           /\ \A by \in {"user", "scan", "timer", "connect", "takeover"} :
                 RestoreSwitch(by) /\ UNCHANGED link => Sessions'
<1>1. sess' = NoRecord /\ op' = IdleOp => Sessions'
    BY EmptyTypes DEF Sessions, RecordOk
<1>2. ASSUME RestoreElsewhere, UNCHANGED link PROVE Sessions'
    <2>1. sess \in Record /\ sess' = [sess EXCEPT !.pending = TRUE] /\ op' = op /\ sess.active
        BY <1>2 DEF RestoreElsewhere, Sessions
    <2>2. /\ sess' \in Record /\ sess'.active /\ sess'.key = sess.key
          /\ sess'.original = sess.original /\ sess'.temp = sess.temp
        BY <2>1 DEF Record
    <2>3. QED
        BY <1>2, <2>1, <2>2 DEF Sessions, RecordOk
<1>3. RestoreEnds => Sessions'
    BY <1>1 DEF RestoreEnds, Clear
<1>4. ASSUME NEW by \in {"user", "scan", "timer", "connect", "takeover"}, RestoreSwitch(by),
             UNCHANGED link
      PROVE  Sessions'
    <2> DEFINE new == [at |-> "wait", does |-> "restore", by |-> by, old |-> NoRecord, wire |-> None]
    <2>1. op' = new /\ sess' = sess /\ sess.active
        BY <1>4 DEF RestoreSwitch, Owned
    <2>2. new \in Op /\ new.at = "wait" /\ new.does = "restore" /\ new.old = NoRecord /\ new.wire = None
        BY EmptyTypes DEF Op
    <2> HIDE DEF new
    <2>3. QED
        BY <2>1, <2>2, EmptyTypes DEF Sessions, RecordOk
<1>5. QED
    BY <1>1, <1>2, <1>3, <1>4

\* Where a command is done, or raises.
LEMMA SwitchSessions ==
    ASSUME Links, Sessions, UNCHANGED link, op.at # "idle", Done \/ Raises
    PROVE  Sessions'
<1>0. /\ sess \in Record /\ op \in Op /\ op.old \in Record /\ RecordOk(sess) /\ RecordOk(op.old)
      /\ sess.active
    BY DEF Sessions, Op
<1>1. CASE StartDone
    BY <1>0, <1>1, EmptyTypes DEF StartDone, Sessions, RecordOk
<1>2. CASE UndoDone
    <2>1. CASE op.old.active
        <3>1. sess' = op.old /\ op' = IdleOp
            BY <1>2, <2>1 DEF UndoDone
        <3>2. sess' \in Record /\ sess'.active /\ None \notin {sess'.key, sess'.original, sess'.temp}
            BY <1>0, <2>1, <3>1 DEF RecordOk
        <3>3. op' = IdleOp
            BY <3>1
        <3>4. QED
            BY <3>2, <3>3, EmptyTypes DEF Sessions, RecordOk
    <2>2. CASE ~op.old.active
        BY <1>2, <2>2, SessionChanges DEF UndoDone, Clear
    <2>3. QED
        BY <2>1, <2>2
<1>3. CASE RestoreDone
    BY <1>3, SessionChanges DEF RestoreDone, Clear
<1>4. CASE StartFails
    <2>1. op' = [op EXCEPT !.at = "wait", !.does = "undo", !.wire = None] /\ sess' = sess
        BY <1>4 DEF StartFails
    <2>2. op' \in Op /\ op'.at = "wait" /\ op'.does = "undo" /\ op'.old = op.old /\ op'.wire = None
        BY <1>0, <2>1 DEF Op
    <2>3. QED
        BY <1>0, <2>1, <2>2 DEF Sessions, RecordOk
<1>5. CASE UndoFails \/ RestoreFails
    <2>1. sess' = [sess EXCEPT !.pending = TRUE] /\ op' = IdleOp
        BY <1>5 DEF UndoFails, RestoreFails
    <2>2. /\ sess' \in Record /\ sess'.active /\ sess'.key = sess.key
          /\ sess'.original = sess.original /\ sess'.temp = sess.temp
        BY <1>0, <2>1 DEF Record
    <2>3. QED
        BY <1>0, <2>1, <2>2, EmptyTypes DEF Sessions, RecordOk
<1>6. QED
    BY <1>1, <1>2, <1>3, <1>4, <1>5 DEF Done, Raises

\* What a step does to the session and its operation.
LEMMA SessionsStep ==
    ASSUME TypeInv, [Next]_vars
    PROVE  Sessions'
<1>0. Links /\ Sessions /\ Tasks /\ sess \in Record /\ op \in Op
    BY DEF TypeInv, Sessions
<1>1. CASE UNCHANGED <<sess, op, link>>
    <2>1. sess' = sess /\ op' = op /\ link' = link
        BY <1>1
    <2>2. QED
        BY <1>0, <2>1, Zenon DEF Sessions, RecordOk
<1>2. CASE UNCHANGED link /\ (RestoreElsewhere \/ RestoreEnds
                \/ \E by \in {"user", "scan", "timer", "connect", "takeover"} : RestoreSwitch(by))
    BY <1>0, <1>2, SessionChanges
<1>3. ASSUME NEW by \in {"user", "scan"}, NEW s \in Temps, NEW d \in Durations, StartBegin(by, s, d)
      PROVE  Sessions'
    <2> DEFINE r == NewRecord(s, d, by)
               new == [at |-> "wait", does |-> "start", by |-> by, old |-> sess, wire |-> None]
    <2>1. sess' = r /\ op' = new /\ link # None
        BY <1>3 DEF StartBegin
    <2>2. r \in Record /\ r.active /\ RecordOk(r)
        BY <1>0, <2>1, NewRecordType
    <2>3. new \in Op /\ new.at = "wait" /\ new.does = "start" /\ new.old = sess /\ new.wire = None
        BY <1>0 DEF Op
    <2> HIDE DEF r, new
    <2>4. QED
        BY <1>0, <2>1, <2>2, <2>3 DEF Sessions, RecordOk
<1>4. CASE Acquire
    <2>1. op' = [op EXCEPT !.at = "sent", !.wire = link] /\ sess' = sess /\ link' = link
          /\ op.at = "wait"
        BY <1>4 DEF Acquire, linkVars
    <2>2. op' \in Op /\ op'.at = "sent" /\ op'.does = op.does /\ op'.old = op.old /\ op'.wire = link
        BY <1>0, <2>1 DEF Op, Links
    <2>3. QED
        BY <1>0, <2>1, <2>2 DEF Sessions, RecordOk
<1>5. CASE Land
    <2>1. op' = [op EXCEPT !.at = "landed"] /\ sess' = sess /\ link' = link /\ op.at = "sent"
        BY <1>5 DEF Land, linkVars
    <2>2. op' \in Op /\ op'.at = "landed" /\ op'.does = op.does /\ op'.old = op.old
          /\ op'.wire = op.wire
        BY <1>0, <2>1 DEF Op, Links
    <2>3. QED
        BY <1>0, <2>1, <2>2 DEF Sessions, RecordOk
<1>6. CASE SwitchOk \/ SwitchSilent \/ SwitchFails
    <2>1. op.at # "idle" /\ UNCHANGED link /\ (Done \/ Raises)
        BY <1>6 DEF SwitchOk, SwitchSilent, SwitchFails, linkVars
    <2>2. QED
        BY <1>0, <2>1, SwitchSessions
<1>7. CASE SwitchStep
    BY <1>4, <1>5, <1>6, <1>7 DEF SwitchStep
<1>8. CASE Disconnect
    <2>1. op' = [op EXCEPT !.wire = None] /\ sess' = sess
        BY <1>8 DEF Disconnect
    <2>2. op' \in Op /\ op'.at = op.at /\ op'.does = op.does /\ op'.old = op.old /\ op'.wire = None
        BY <1>0, <2>1 DEF Op
    <2>3. op.at = "idle" => op' = IdleOp
        BY <1>0, <2>1 DEF Sessions, IdleOp
    <2>4. QED
        BY <1>0, <2>1, <2>2, <2>3 DEF Sessions, RecordOk
<1>9. ASSUME NEW c \in Companions, Connect(c)
      PROVE  Sessions'
    <2>1. op' = op /\ sess' = sess /\ link = None
        BY <1>9 DEF Connect
    <2>2. QED
        BY <1>0, <2>1 DEF Sessions, RecordOk
<1>10. CASE Crash
    BY <1>0, <1>10, EmptyTypes DEF Crash, Sessions, RecordOk
<1>11. CASE Extend
    <2>1. CASE sess' = sess
        BY <1>1, <1>11, <2>1 DEF Extend, linkVars
    <2>2. CASE sess.active /\ sess' = [sess EXCEPT !.expires = ext]
        <3>1. /\ sess' \in Record /\ sess'.active = sess.active /\ sess'.key = sess.key
              /\ sess'.original = sess.original /\ sess'.temp = sess.temp
            BY <1>0, <2>2 DEF Record, Tasks
        <3>2. UNCHANGED <<op, linkVars>>
            BY <1>11, Zenon DEF Extend
        <3>3. op' = op /\ link' = link
            BY <3>2 DEF linkVars
        <3>4. QED
            BY <1>0, <2>2, <3>1, <3>3 DEF Sessions, RecordOk
    <2>3. sess' = sess \/ (sess.active /\ sess' = [sess EXCEPT !.expires = ext])
        BY <1>11, Zenon DEF Extend
    <2>4. QED
        BY <2>1, <2>2, <2>3
<1>12. CASE PatchEnd
    <2>1. UNCHANGED link /\ (Clear \/ UNCHANGED <<sess, op>>)
        BY <1>12 DEF PatchEnd, linkVars
    <2>2. QED
        BY <1>0, <1>1, <2>1, SessionChanges DEF Clear
<1>13. CASE UserRestore \/ TakeoverRestore \/ ScanRestore \/ TimerStep
    <2>1. UNCHANGED link
        BY <1>13 DEF UserRestore, TakeoverRestore, ScanRestore, TimerStep, TimerWake, TimerRestore,
                     linkVars
    <2>2. \/ RestoreElsewhere \/ RestoreEnds \/ UNCHANGED <<sess, op>>
          \/ RestoreSwitch("user") \/ RestoreSwitch("takeover") \/ RestoreSwitch("scan")
          \/ RestoreSwitch("timer")
        BY <1>13 DEF UserRestore, TakeoverRestore, ScanRestore, TimerStep, TimerWake, TimerRestore,
                     Expire
    <2>3. QED
        BY <1>1, <1>2, <2>1, <2>2
<1>14. CASE Reconcile
    <2>1. UNCHANGED link
        BY <1>14 DEF Reconcile
    <2>2. \/ RestoreEnds \/ UNCHANGED <<sess, op>> \/ RestoreSwitch("connect") \/ Clear
        BY <1>14, Zenon DEF Reconcile
    <2>3. QED
        BY <1>0, <1>1, <1>2, <2>1, <2>2, SessionChanges DEF Clear
<1>15. ASSUME NEW next, ScanCancel(next)
       PROVE  Sessions'
    <2>1. UNCHANGED <<sess, link>> /\ (op' = op \/ op' = IdleOp)
        BY <1>15 DEF ScanCancel, linkVars
    <2>2. QED
        BY <1>0, <1>1, <2>1, EmptyTypes DEF Sessions, RecordOk
<1>16. CASE UserStep
    <2>1. CASE RunScan \/ \E s \in Others : PatchBegin(s)
        <3>1. UNCHANGED <<sess, op, link>>
            BY <2>1 DEF RunScan, PatchBegin, linkVars
        <3>2. QED
            BY <1>1, <3>1
    <2>2. QED
        BY <1>3, <1>13, <1>15, <1>16, <2>1 DEF UserStep
<1>17. CASE TaskStep
    <2>1. CASE StartRefused \/ ScanFinish \/ PatchApply \/ PatchRefused
        <3>1. UNCHANGED <<sess, op, link>>
            BY <2>1 DEF StartRefused, ScanFinish, PatchApply, PatchRefused, linkVars
        <3>2. QED
            BY <1>1, <3>1
    <2>2. QED
        BY <1>11, <1>12, <1>13, <1>17, <2>1 DEF TaskStep
<1>18. CASE WorldStep
    <2>1. CASE \/ Tick \/ \E d \in Durations : ScanHeard(d)
               \/ \E c \in Companions, s \in Others : ChangeElsewhere(c, s)
        <3>1. UNCHANGED <<sess, op, link>>
            BY <2>1 DEF Tick, ScanHeard, ChangeElsewhere, linkVars
        <3>2. QED
            BY <1>1, <3>1
    <2>2. QED
        BY <1>8, <1>9, <1>10, <1>18, <2>1 DEF WorldStep
<1>19. CASE UNCHANGED vars
    BY <1>1, <1>19 DEF vars, linkVars
<1>20. QED
    BY <1>7, <1>13, <1>14, <1>16, <1>17, <1>18, <1>19 DEF Next

\* The tasks that no step but their own touches.
Timer == timer \in [at : {"none", "wait", "queued", "retry"}, for : Nat]
Scans == scan \in BOOLEAN /\ takeover \in {"none", "start", "restore"} /\ ext \in Nat
Page ==
    /\ patch \in [at : {"none", "wait", "end"}, to : Settings \cup {None}, ends : BOOLEAN]
    /\ patch.at # "none" => patch.to \in Settings
Clock == now \in 0 .. MaxNow /\ spent \in [Kinds -> Nat]

\* An expiry task is started for the expiry of a record.
LEMMA ScheduleType ==
    ASSUME NEW r \in Record, Schedule(r)
    PROVE  Timer'
<1>1. r.expires \in Nat
    BY DEF Record
<1>2. QED
    BY <1>1 DEF Schedule, Timer

\* What a step does to the expiry task.
LEMMA TimerStepType ==
    ASSUME TypeInv, [Next]_vars
    PROVE  Timer'
<1>0. Timer /\ sess \in Record /\ sess' \in Record /\ op.old \in Record
    BY SessionsStep DEF TypeInv, Tasks, Sessions, Timer, Op
<1>1. CASE timer' = timer \/ timer' = NoTimer
    BY <1>0, <1>1, EmptyTypes DEF Timer
<1>2. CASE Schedule(sess) \/ Schedule(op.old) \/ Schedule(sess')
    BY <1>0, <1>2, ScheduleType
<1>3. CASE timer' = [timer EXCEPT !.at = "queued"] \/ timer' = [timer EXCEPT !.at = "retry"]
    BY <1>0, <1>3 DEF Timer
<1>4. CASE UserStep
    <2>1. timer' = timer \/ timer' = NoTimer
        BY <1>4 DEF UserStep, StartBegin, UserRestore, RunScan, ScanCancel, PatchBegin, RestoreEnds, Clear
    <2>2. QED
        BY <1>1, <2>1
<1>5. CASE SwitchOk \/ SwitchSilent \/ SwitchFails
    <2>1. Done \/ Raises
        BY <1>5 DEF SwitchOk, SwitchSilent, SwitchFails
    <2>2. timer' = timer \/ timer' = NoTimer \/ Schedule(sess) \/ Schedule(op.old)
        BY <2>1, Zenon DEF Done, Raises, StartDone, UndoDone, RestoreDone, StartFails, UndoFails,
                           RestoreFails, Clear
    <2>3. QED
        BY <1>1, <1>2, <2>2
<1>6. CASE Acquire \/ Land
    BY <1>1, <1>6 DEF Acquire, Land
<1>7. CASE TimerStep
    <2>1. timer' \in {timer, NoTimer, [timer EXCEPT !.at = "queued"], [timer EXCEPT !.at = "retry"]}
        BY <1>7 DEF TimerStep, TimerWake, TimerRestore, Expire, RestoreEnds, Clear
    <2>2. QED
        BY <1>1, <1>3, <2>1
<1>8. CASE TaskStep
    <2>1. CASE Extend
        <3>1. timer' = timer \/ Schedule(sess')
            BY <2>1, Zenon DEF Extend
        <3>2. QED
            BY <1>1, <1>2, <3>1
    <2>2. CASE StartRefused \/ TakeoverRestore \/ ScanRestore
        <3>1. timer' = timer \/ timer' = NoTimer
            BY <2>2 DEF StartRefused, TakeoverRestore, ScanRestore, RestoreEnds, Clear
        <3>2. QED
            BY <1>1, <3>1
    <2>3. CASE ScanFinish \/ PatchApply \/ PatchRefused \/ PatchEnd
        <3>1. timer' = timer \/ timer' = NoTimer
            BY <2>3 DEF ScanFinish, PatchApply, PatchRefused, PatchEnd, Clear
        <3>2. QED
            BY <1>1, <3>1
    <2>4. QED
        BY <1>8, <2>1, <2>2, <2>3 DEF TaskStep
<1>9. CASE Reconcile
    <2>1. timer' = timer \/ timer' = NoTimer \/ Schedule(sess)
        BY <1>9, Zenon DEF Reconcile, RestoreEnds, Clear
    <2>2. QED
        BY <1>1, <1>2, <2>1
<1>10. CASE WorldStep
    <2>1. timer' = timer \/ timer' = NoTimer
        BY <1>10 DEF WorldStep, Disconnect, Crash, Tick, Connect, ChangeElsewhere, ScanHeard
    <2>2. QED
        BY <1>1, <2>1
<1>11. CASE UNCHANGED vars
    BY <1>1, <1>11 DEF vars
<1>12. QED
    BY <1>4, <1>5, <1>6, <1>7, <1>8, <1>9, <1>10, <1>11 DEF Next, SwitchStep

\* What a step does to the scan and the requests around it.
LEMMA ScansStepType ==
    ASSUME TypeInv, [Next]_vars
    PROVE  Scans'
<1>0. Scans /\ now \in Nat
    BY TimeAssumption DEF TypeInv, Tasks, Scans
<1>1. CASE UNCHANGED scanVars
    BY <1>0, <1>1 DEF Scans, scanVars
<1>2. CASE /\ ext' = ext
           /\ scan' = scan \/ scan' \in BOOLEAN
           /\ takeover' \in {takeover, "none", "start", "restore"}
    <2>1. scan' \in BOOLEAN
        BY <1>0, <1>2, Zenon DEF Scans
    <2>2. ext' \in Nat /\ takeover' \in {"none", "start", "restore"}
        BY <1>0, <1>2 DEF Scans
    <2>3. QED
        BY <2>1, <2>2 DEF Scans
<1>3. CASE UserStep
    <2>1. ext' = ext /\ (scan' = scan \/ scan' \in BOOLEAN)
        BY <1>3 DEF UserStep, StartBegin, UserRestore, RunScan, ScanCancel, PatchBegin, scanVars
    <2>2. takeover' \in {takeover, "none", "start", "restore"}
        BY <1>3 DEF UserStep, StartBegin, UserRestore, RunScan, ScanCancel, PatchBegin, scanVars
    <2>3. QED
        BY <1>2, <2>1, <2>2
<1>4. CASE SwitchOk \/ SwitchSilent \/ SwitchFails
    <2>1. ext' = ext /\ (Done \/ Raises)
        BY <1>4 DEF SwitchOk, SwitchSilent, SwitchFails
    <2>2. (scan' = scan \/ scan' \in BOOLEAN) /\ takeover' \in {takeover, "none", "restore"}
        BY <2>1 DEF Done, Raises, StartDone, UndoDone, RestoreDone, StartFails, UndoFails,
                    RestoreFails, ScanOver
    <2>3. QED
        BY <1>2, <2>1, <2>2
<1>5. CASE Acquire \/ Land
    BY <1>1, <1>5 DEF Acquire, Land
<1>6. CASE TimerStep
    <2>1. ext' = ext /\ takeover' = takeover /\ (scan' = scan \/ scan' \in BOOLEAN)
        BY <1>6 DEF TimerStep, TimerWake, TimerRestore, Expire
    <2>2. QED
        BY <1>2, <2>1
<1>7. CASE TaskStep
    <2>1. CASE Extend
        <3>1. ext' = 0 /\ UNCHANGED <<scan, takeover>>
            BY <2>1 DEF Extend
        <3>2. QED
            BY <1>0, <3>1 DEF Scans
    <2>2. CASE StartRefused \/ TakeoverRestore \/ ScanRestore \/ ScanFinish
        <3>1. ext' = ext /\ (scan' = scan \/ scan' \in BOOLEAN) /\ takeover' \in {takeover, "none", "restore"}
            BY <2>2 DEF StartRefused, TakeoverRestore, ScanRestore, ScanFinish, ScanOver
        <3>2. QED
            BY <1>2, <3>1
    <2>3. CASE PatchApply \/ PatchRefused \/ PatchEnd
        <3>1. UNCHANGED scanVars
            BY <2>3 DEF PatchApply, PatchRefused, PatchEnd
        <3>2. QED
            BY <1>1, <3>1
    <2>4. QED
        BY <1>7, <2>1, <2>2, <2>3 DEF TaskStep
<1>8. CASE Reconcile
    <2>1. ext' = ext /\ takeover' = takeover /\ (scan' = scan \/ scan' \in BOOLEAN)
        BY <1>8, Zenon DEF Reconcile
    <2>2. QED
        BY <1>2, <2>1
<1>9. CASE WorldStep
    <2>1. CASE Crash
        BY <2>1 DEF Crash, Scans
    <2>2. CASE \/ Disconnect \/ Tick
               \/ \E c \in Companions : Connect(c) \/ \E s \in Others : ChangeElsewhere(c, s)
        <3>1. UNCHANGED scanVars
            BY <2>2 DEF Disconnect, Tick, Connect, ChangeElsewhere
        <3>2. QED
            BY <1>1, <3>1
    <2>3. ASSUME NEW d \in Durations, ScanHeard(d) PROVE Scans'
        <3>1. ext' = now + d /\ UNCHANGED <<scan, takeover>>
            BY <2>3 DEF ScanHeard
        <3>2. QED
            BY <1>0, <3>1, TimeAssumption DEF Scans
    <2>4. QED
        BY <1>9, <2>1, <2>2, <2>3 DEF WorldStep
<1>10. CASE UNCHANGED vars
    BY <1>1, <1>10 DEF vars
<1>11. QED
    BY <1>3, <1>4, <1>5, <1>6, <1>7, <1>8, <1>9, <1>10 DEF Next, SwitchStep

\* What a step does to the request of the settings page.
LEMMA PageStepType ==
    ASSUME TypeInv, [Next]_vars
    PROVE  Page'
<1>0. Page
    BY DEF TypeInv, Tasks, Page
<1>1. CASE patch' = patch \/ patch' = NoPatch
    BY <1>0, <1>1, EmptyTypes DEF Page
<1>2. ASSUME NEW s \in Others, PatchBegin(s)
      PROVE  Page'
    <2> DEFINE e == Owned /\ (~Free \/ known # s)
    <2>1. patch' = [at |-> "wait", to |-> s, ends |-> e]
        BY <1>2 DEF PatchBegin
    <2>2. e \in BOOLEAN
        BY DEF e
    <2>3. s \in Settings
        BY DEF Settings
    <2> HIDE DEF e
    <2>4. QED
        BY <2>1, <2>2, <2>3 DEF Page
<1>3. CASE PatchApply
    <2>1. patch.at = "wait" /\ (patch' = [patch EXCEPT !.at = "end"] \/ patch' = NoPatch)
        BY <1>3, Zenon DEF PatchApply
    <2>2. CASE patch' = [patch EXCEPT !.at = "end"]
        BY <1>0, <2>1, <2>2 DEF Page
    <2>3. QED
        BY <1>1, <2>1, <2>2
<1>4. CASE UserStep
    <2>1. patch' = patch \/ \E s \in Others : PatchBegin(s)
        BY <1>4 DEF UserStep, StartBegin, UserRestore, RunScan, ScanCancel
    <2>2. QED
        BY <1>1, <1>2, <2>1
<1>5. CASE SwitchStep \/ TimerStep
    <2>1. patch' = patch
        BY <1>5 DEF SwitchStep, Acquire, Land, SwitchOk, SwitchSilent, SwitchFails,
                    TimerStep, TimerWake, TimerRestore
    <2>2. QED
        BY <1>1, <2>1
<1>6. CASE TaskStep
    <2>1. patch' = patch \/ patch' = NoPatch \/ PatchApply
        BY <1>6 DEF TaskStep, StartRefused, TakeoverRestore, ScanRestore, ScanFinish, Extend,
                    PatchRefused, PatchEnd
    <2>2. QED
        BY <1>1, <1>3, <2>1
<1>7. CASE Reconcile \/ WorldStep \/ UNCHANGED vars
    <2>1. patch' = patch \/ patch' = NoPatch
        BY <1>7 DEF Reconcile, WorldStep, Disconnect, Crash, Tick, Connect, ChangeElsewhere,
                    ScanHeard, vars
    <2>2. QED
        BY <1>1, <2>1
<1>8. QED
    BY <1>4, <1>5, <1>6, <1>7 DEF Next

\* The clock moves within its bound and the counters only up.
LEMMA ClockStepType ==
    ASSUME TypeInv, [Next]_vars
    PROVE  Clock' /\ now <= now'
<1>0. Clock /\ MaxNow \in Nat
    BY TimeAssumption DEF TypeInv, Tasks, Clock
<1>1. ASSUME NEW k \in Kinds, Spend(k)
      PROVE  spent' \in [Kinds -> Nat]
    BY <1>0, <1>1, SpendType DEF Clock
<1>2. spent' \in [Kinds -> Nat]
    <2>0. spent \in [Kinds -> Nat]
        BY <1>0 DEF Clock
    <2>1. CASE UNCHANGED spent
        BY <2>0, <2>1
    <2>2. CASE UserStep
        <3>1. UNCHANGED spent \/ Spend("start") \/ Spend("cancel") \/ Spend("patch")
            BY <2>2 DEF UserStep, StartBegin, UserRestore, RunScan, ScanCancel, PatchBegin
        <3>2. QED
            BY <1>1, <2>1, <3>1 DEF Kinds
    <2>3. CASE SwitchStep
        <3>1. UNCHANGED spent \/ Spend("silent") \/ Spend("refuse") \/ Spend("lost")
            BY <2>3 DEF SwitchStep, Acquire, Land, SwitchOk, SwitchSilent, SwitchFails
        <3>2. QED
            BY <1>1, <2>1, <3>1 DEF Kinds
    <2>4. CASE TimerStep \/ TaskStep \/ Reconcile \/ UNCHANGED vars
        <3>1. UNCHANGED spent
            BY <2>4 DEF TimerStep, TimerWake, TimerRestore, TaskStep, StartRefused, TakeoverRestore,
                        ScanRestore, ScanFinish, Extend, PatchApply, PatchRefused, PatchEnd,
                        Reconcile, vars
        <3>2. QED
            BY <2>1, <3>1
    <2>5. ASSUME NEW c \in Companions, NEW s \in Others, ChangeElsewhere(c, s)
          PROVE  spent' \in [Kinds -> Nat]
        <3> DEFINE n == IF Free THEN 0 ELSE 1
        <3>1. spent' = [spent EXCEPT !["edit"] = @ + 1, !["swap"] = @ + n]
            BY <2>5 DEF ChangeElsewhere
        <3>2. n \in Nat
            OBVIOUS
        <3> HIDE DEF n
        <3>3. QED
            BY <2>0, <3>1, <3>2 DEF Kinds
    <2>6. CASE WorldStep
        <3>1. \/ UNCHANGED spent \/ Spend("crash") \/ Spend("swap")
              \/ \E c \in Companions, s \in Others : ChangeElsewhere(c, s)
            BY <2>6 DEF WorldStep, Disconnect, Crash, Tick, Connect, ScanHeard
        <3>2. QED
            BY <1>1, <2>1, <2>5, <3>1 DEF Kinds
    <2>7. QED
        BY <2>2, <2>3, <2>4, <2>6 DEF Next
<1>3. now' = now \/ (now < MaxNow /\ now' = now + 1)
    <2>1. CASE UserStep \/ SwitchStep \/ TimerStep
        BY <2>1 DEF UserStep, StartBegin, UserRestore, RunScan, ScanCancel, PatchBegin,
                    SwitchStep, Acquire, Land, SwitchOk, SwitchSilent, SwitchFails,
                    TimerStep, TimerWake, TimerRestore
    <2>2. CASE TaskStep \/ Reconcile \/ UNCHANGED vars
        BY <2>2 DEF TaskStep, StartRefused, TakeoverRestore, ScanRestore, ScanFinish, Extend,
                    PatchApply, PatchRefused, PatchEnd, Reconcile, vars
    <2>3. CASE WorldStep
        BY <2>3 DEF WorldStep, Disconnect, Crash, Tick, Connect, ChangeElsewhere, ScanHeard
    <2>4. QED
        BY <2>1, <2>2, <2>3 DEF Next
<1>4. QED
    BY <1>0, <1>2, <1>3 DEF Clock

\* The first state is of its types.
LEMMA TypeInvInit == Init => TypeInv
<1> SUFFICES ASSUME Init PROVE TypeInv
    OBVIOUS
<1>1. Links
    BY DEF Init, Links, Settings
<1>2. Sessions
    BY EmptyTypes DEF Init, Sessions, RecordOk
<1>3. Tasks
    <2>1. spent \in [Kinds -> Nat]
        BY DEF Init
    <2>2. now \in 0 .. MaxNow
        BY TimeAssumption DEF Init
    <2>3. QED
        BY <2>1, <2>2, EmptyTypes DEF Init, Tasks
<1>4. QED
    BY <1>1, <1>2, <1>3 DEF TypeInv

\* The inductive step of the types.
LEMMA TypeInvStep == TypeInv /\ [Next]_vars => TypeInv' /\ now <= now'
<1> SUFFICES ASSUME TypeInv, [Next]_vars PROVE TypeInv' /\ now <= now'
    OBVIOUS
<1>1. Tasks'
    BY TimerStepType, ScansStepType, PageStepType, ClockStepType DEF Timer, Scans, Page, Clock, Tasks
<1>2. QED
    BY <1>1, LinksStep, SessionsStep, ClockStepType DEF TypeInv

\* Every variable keeps its type; while no operation is at work the operation is the
\* empty one, and a session that is active names its companion and its settings.
THEOREM RadioTypes == Spec => []TypeOK
<1>1. TypeInv => TypeOK
    BY DEF TypeInv, TypeOK, Links, Sessions, Tasks, RecordOk
<1>2. Init => TypeInv
    BY TypeInvInit
<1>3. TypeInv /\ [Next]_vars => TypeInv'
    BY TypeInvStep
<1>4. QED
    BY <1>1, <1>2, <1>3, PTL DEF Spec

----------------------------------------------------------------------------
(* Every session has someone who will end it *)

\* A request takes the scan over only when it has stopped; what the settings page
\* still has to do is to end a session; and an operation of the scan runs within it.
Aside ==
    /\ scan => takeover = "none"
    /\ patch.at = "end" => patch.ends
    /\ op.by = "scan" => scan
    /\ op.by = "scan" /\ op.does \in {"start", "undo"} => sess.scan

HasOwner ==
    \/ sess.pending
    \/ timer = [at |-> "wait", for |-> sess.expires]
    \/ timer.at \in {"queued", "retry"}
    \/ takeover = "restore"
    \/ takeover = "start" /\ sess.scan
    \/ scan /\ sess.scan
    \/ patch.at = "end"

\* Stopping the scan may cut off its own restore, so that restore does not count
\* as the session's owner.
Unattended == Owned /\ ~setup /\ (Free \/ (op.does = "restore" /\ op.by = "scan"))

OwnerInv == TypeInv /\ Aside /\ (Unattended => HasOwner)

\* An idle operation is nobody's.
LEMMA IdleIsEmpty ==
    ASSUME Sessions, Free
    PROVE  op = IdleOp /\ op.by = "none" /\ op.does = "none" /\ op.wire = None
BY EmptyTypes DEF Sessions, Free

\* A step keeps the scan, the requests around it and its operations apart.
LEMMA AsideStep ==
    ASSUME TypeInv, Aside, [Next]_vars
    PROVE  Aside'
<1>0. Sessions /\ Tasks /\ op \in Op /\ sess \in Record
    BY DEF TypeInv, Sessions
<1>a. /\ scan => takeover = "none"
      /\ patch.at = "end" => patch.ends
      /\ op.by = "scan" => scan
      /\ op.by = "scan" /\ op.does \in {"start", "undo"} => sess.scan
    BY DEF Aside
\* The operation is over, and the scan may be.
<1>1. CASE /\ op' = IdleOp /\ patch' = patch
           /\ (scan' = scan /\ takeover' = takeover) \/ ~scan'
    <2>1. op'.by = "none"
        BY <1>1, EmptyTypes
    <2>2. QED
        BY <1>a, <1>1, <2>1 DEF Aside
\* The operation stays, or another one of somebody else begins.
<1>2. CASE /\ patch' = patch /\ scan' = scan /\ takeover' = takeover
           /\ \/ op' = op /\ sess'.scan = sess.scan
              \/ op'.by # "scan"
              \/ op'.by = op.by /\ op'.does = op.does /\ sess' = sess
    BY <1>a, <1>2 DEF Aside
<1>3. ASSUME NEW by \in {"user", "scan"}, NEW s \in Temps, NEW d \in Durations, StartBegin(by, s, d)
      PROVE  Aside'
    <2>1. /\ sess' = NewRecord(s, d, by) /\ (by = "scan") = scan /\ scan' = scan /\ patch' = patch
          /\ takeover' = (IF takeover = "start" THEN "none" ELSE takeover)
          /\ op' = [at |-> "wait", does |-> "start", by |-> by, old |-> sess, wire |-> None]
        BY <1>3 DEF StartBegin
    <2>2. op'.by = by /\ sess'.scan = (by = "scan")
        BY <2>1 DEF NewRecord
    <2>3. QED
        BY <1>a, <2>1, <2>2 DEF Aside
<1>4. CASE RestoreElsewhere /\ patch' = patch
                /\ ((scan' = scan /\ takeover' = takeover) \/ ~scan')
    <2>1. op' = op /\ op = IdleOp
        BY <1>0, <1>4, IdleIsEmpty DEF RestoreElsewhere
    <2>2. QED
        BY <1>1, <1>4, <2>1
<1>5. ASSUME NEW by \in {"user", "scan", "timer", "connect", "takeover"}, RestoreSwitch(by),
             UNCHANGED <<patch, scan, takeover>>, by = "scan" => scan
      PROVE  Aside'
    <2>1. op'.by = by /\ op'.does = "restore"
        BY <1>5 DEF RestoreSwitch
    <2>2. QED
        BY <1>a, <1>5, <2>1 DEF Aside
<1>6. CASE RestoreEnds /\ patch' = patch
                /\ ((scan' = scan /\ takeover' = takeover) \/ ~scan')
    BY <1>1, <1>6 DEF RestoreEnds, Clear
<1>7. CASE UserRestore
    <2>1. patch' = patch /\ takeover' = takeover
        BY <1>7 DEF UserRestore
    <2>2. \/ (RestoreElsewhere \/ RestoreSwitch("user")) /\ scan' = scan
          \/ RestoreEnds /\ (scan' = scan \/ ~scan')
        BY <1>7, Zenon DEF UserRestore
    <2>3. QED
        BY <1>4, <1>5, <1>6, <2>1, <2>2
<1>8. CASE TakeoverRestore
    <2>1. patch' = patch /\ scan' = scan /\ takeover' = "none" /\ takeover = "restore"
        BY <1>8 DEF TakeoverRestore
    <2>2. ~scan'
        BY <1>a, <2>1
    <2>3. RestoreElsewhere \/ RestoreSwitch("takeover") \/ RestoreEnds \/ (Free /\ op' = op)
        BY <1>8 DEF TakeoverRestore
    <2>4. CASE RestoreSwitch("takeover")
        <3>1. op'.by = "takeover"
            BY <2>4 DEF RestoreSwitch
        <3>2. QED
            BY <1>a, <2>1, <2>2, <3>1 DEF Aside
    <2>5. CASE Free /\ op' = op
        BY <1>0, <1>1, <2>1, <2>2, <2>5, IdleIsEmpty
    <2>6. QED
        BY <1>4, <1>6, <2>1, <2>2, <2>3, <2>4, <2>5
<1>9. CASE ScanRestore
    <2>1. patch' = patch /\ scan
        BY <1>9 DEF ScanRestore
    <2>2. \/ RestoreElsewhere /\ ~scan'
          \/ RestoreSwitch("scan") /\ scan' = scan /\ takeover' = takeover
          \/ RestoreEnds /\ scan' = scan /\ takeover' = takeover
        BY <1>9 DEF ScanRestore, ScanOver
    <2>3. CASE RestoreSwitch("scan") /\ scan' = scan /\ takeover' = takeover
        BY <1>5, <2>1, <2>3
    <2>4. QED
        BY <1>4, <1>6, <2>1, <2>2, <2>3, Zenon
<1>10. ASSUME Expire, UNCHANGED <<patch, takeover>>
       PROVE  Aside'
    <2>1. \/ RestoreSwitch("timer") /\ scan' = scan
          \/ RestoreElsewhere /\ scan' = scan
          \/ RestoreEnds /\ (scan' = scan \/ ~scan')
          \/ scan' = scan /\ op' = op /\ sess' = sess
        BY <1>10, Zenon DEF Expire
    <2>2. QED
        BY <1>2, <1>4, <1>5, <1>6, <1>10, <2>1
<1>11. CASE TimerStep
    <2>1. patch' = patch /\ takeover' = takeover
        BY <1>11 DEF TimerStep, TimerWake, TimerRestore
    <2>2. Expire \/ (sess' = sess /\ op' = op /\ scan' = scan)
        BY <1>11 DEF TimerStep, TimerWake, TimerRestore
    <2>3. QED
        BY <1>2, <1>10, <2>1, <2>2, Zenon
<1>12. CASE Acquire \/ Land \/ Disconnect
    <2>1. op'.by = op.by /\ op'.does = op.does
        BY <1>0, <1>12 DEF Acquire, Land, Disconnect, Op
    <2>2. UNCHANGED <<sess, patch, scan, takeover>>
        BY <1>12 DEF Acquire, Land, Disconnect, scanVars
    <2>3. QED
        BY <1>2, <2>1, <2>2
<1>13. CASE SwitchOk \/ SwitchSilent \/ SwitchFails
    <2>1. patch' = patch /\ (Done \/ Raises)
        BY <1>13 DEF SwitchOk, SwitchSilent, SwitchFails
    <2>2. CASE StartFails
        <3>1. op' = [op EXCEPT !.at = "wait", !.does = "undo", !.wire = None]
              /\ op.does = "start" /\ sess' = sess /\ scan' = scan /\ takeover' = takeover
            BY <2>2 DEF StartFails
        <3>2. op'.by = op.by
            BY <1>0, <3>1 DEF Op
        <3>3. QED
            BY <1>a, <2>1, <3>1, <3>2 DEF Aside
    <2>3. CASE StartDone \/ UndoDone \/ UndoFails \/ RestoreFails
        <3>1. op' = IdleOp
            BY <2>3, Zenon DEF StartDone, UndoDone, UndoFails, RestoreFails, Clear
        <3>2. (scan' = scan /\ takeover' = takeover) \/ ~scan'
            BY <2>3, Zenon DEF StartDone, UndoDone, UndoFails, RestoreFails, ScanOver
        <3>3. QED
            BY <1>1, <2>1, <3>1, <3>2
    <2>4. CASE RestoreDone
        <3>1. op' = IdleOp /\ takeover' = takeover /\ (scan' = scan \/ ~scan')
            BY <2>4, Zenon DEF RestoreDone, Clear
        <3>2. QED
            BY <1>1, <2>1, <3>1
    <2>5. QED
        BY <2>1, <2>2, <2>3, <2>4 DEF Done, Raises
<1>14. CASE Reconcile
    <2>1. UNCHANGED <<patch, takeover>>
        BY <1>14 DEF Reconcile
    <2>2. \/ op' = op /\ sess' = sess /\ scan' = scan
          \/ RestoreSwitch("connect") /\ scan' = scan
          \/ RestoreEnds /\ (scan' = scan \/ ~scan')
          \/ Clear /\ (scan' = scan \/ ~scan')
        BY <1>14, Zenon DEF Reconcile
    <2>3. QED
        BY <1>1, <1>2, <1>5, <1>6, <2>1, <2>2 DEF Clear
<1>15. CASE RunScan
    <2>1. scan' /\ takeover' = "none" /\ UNCHANGED <<sess, op, patch>>
        BY <1>15 DEF RunScan
    <2>2. QED
        BY <1>a, <2>1 DEF Aside
<1>16. CASE ScanFinish
    <2>1. Free /\ ~scan' /\ op' = op /\ patch' = patch
        BY <1>16 DEF ScanFinish, ScanOver
    <2>2. QED
        BY <1>0, <1>1, <2>1, IdleIsEmpty
<1>17. ASSUME NEW next, ScanCancel(next)
       PROVE  Aside'
    <2>1. ~scan' /\ UNCHANGED <<sess, patch>>
        BY <1>17 DEF ScanCancel
    <2>2. CASE Free \/ op.by = "scan"
        <3>1. op' = IdleOp
            BY <1>0, <1>17, <2>2, IdleIsEmpty DEF ScanCancel
        <3>2. QED
            BY <1>1, <2>1, <3>1
    <2>3. CASE op.by # "scan" /\ ~Free
        <3>1. op' = op
            BY <1>17, <2>3 DEF ScanCancel
        <3>2. QED
            BY <1>a, <2>1, <2>3, <3>1 DEF Aside
    <2>4. QED
        BY <2>2, <2>3
<1>18. CASE Extend
    <2>1. op' = op /\ Free /\ scan' = scan /\ takeover' = takeover /\ patch' = patch
        BY <1>18 DEF Extend
    <2>2. QED
        BY <1>0, <1>1, <2>1, IdleIsEmpty
<1>19. ASSUME NEW s, PatchBegin(s)
       PROVE  Aside'
    <2>1. patch'.at = "wait" /\ UNCHANGED <<sess, op, scan, takeover>>
        BY <1>19 DEF PatchBegin, scanVars
    <2>2. QED
        BY <1>a, <2>1 DEF Aside
<1>20. CASE PatchApply
    <2>1. /\ (patch' = [patch EXCEPT !.at = "end"] /\ patch.ends) \/ patch' = NoPatch
          /\ UNCHANGED <<sess, op, scan, takeover>>
        BY <1>20, Zenon DEF PatchApply, scanVars
    <2>2. patch'.at = "end" => patch'.ends
        BY <1>0, <2>1, EmptyTypes DEF Tasks
    <2>3. QED
        BY <1>a, <2>1, <2>2 DEF Aside
<1>21. CASE PatchRefused
    <2>1. patch' = NoPatch /\ UNCHANGED <<sess, op, scan, takeover>>
        BY <1>21 DEF PatchRefused, scanVars
    <2>2. QED
        BY <1>a, <2>1, EmptyTypes DEF Aside
<1>22. CASE PatchEnd
    <2>1. patch' = NoPatch /\ UNCHANGED <<scan, takeover>> /\ Free /\ (op' = IdleOp \/ op' = op)
        BY <1>22 DEF PatchEnd, scanVars, Clear
    <2>2. op'.by = "none" /\ patch'.at = "none"
        BY <1>0, <2>1, IdleIsEmpty, EmptyTypes
    <2>3. QED
        BY <1>a, <2>1, <2>2 DEF Aside
<1>23. CASE StartRefused
    <2>1. Free /\ op' = op /\ patch' = patch /\ sess' = sess
        BY <1>23 DEF StartRefused
    <2>2. ~scan' \/ (takeover' = "none" /\ scan' = scan)
        BY <1>23 DEF StartRefused, ScanOver
    <2>3. QED
        BY <1>a, <2>1, <2>2, <1>0, IdleIsEmpty DEF Aside
<1>24. CASE Crash
    <2>1. ~scan' /\ op' = IdleOp /\ patch' = NoPatch
        BY <1>24 DEF Crash
    <2>2. QED
        BY <2>1, EmptyTypes DEF Aside
<1>25. CASE \/ UNCHANGED vars \/ Tick
            \/ \E c \in Companions : Connect(c) \/ \E s \in Others : ChangeElsewhere(c, s)
            \/ \E d \in Durations : ScanHeard(d)
    <2>1. UNCHANGED <<sess, op, scan, takeover, patch>>
        BY <1>25 DEF vars, scanVars, Tick, Connect, ChangeElsewhere, ScanHeard
    <2>2. QED
        BY <1>2, <2>1
<1>26. CASE UserStep
    BY <1>3, <1>7, <1>15, <1>17, <1>19, <1>26 DEF UserStep
<1>27. CASE TaskStep
    BY <1>8, <1>9, <1>16, <1>18, <1>20, <1>21, <1>22, <1>23, <1>27 DEF TaskStep
<1>28. CASE WorldStep
    BY <1>12, <1>24, <1>25, <1>28 DEF WorldStep
<1>29. QED
    BY <1>11, <1>12, <1>13, <1>14, <1>25, <1>26, <1>27, <1>28 DEF Next, SwitchStep

\* After every step a session that is left alone still has its owner.
LEMMA OwnerStep ==
    ASSUME OwnerInv, [Next]_vars
    PROVE  (Unattended => HasOwner)'
<1> DEFINE Goal == (Unattended => HasOwner)'
<1>0. /\ Links /\ Sessions /\ Tasks /\ op \in Op /\ sess \in Record
      /\ sess' \in Record /\ op.old \in Record /\ Sessions'
    BY SessionsStep DEF OwnerInv, TypeInv, Sessions, Op
<1>a. /\ Unattended => HasOwner
      /\ scan => takeover = "none"
      /\ op.by = "scan" => scan
      /\ op.by = "scan" /\ op.does \in {"start", "undo"} => sess.scan
    BY DEF OwnerInv, Aside
\* The session is another companion's or over, or somebody works on it.
<1>1. CASE ~Owned'
    BY <1>1 DEF Unattended
<1>2. CASE op'.at # "idle" /\ ~(op'.does = "restore" /\ op'.by = "scan")
    BY <1>2 DEF Unattended, Free
<1>3. CASE setup'
    BY <1>3 DEF Unattended
\* Nothing that counts changes, or the owner stays.
<1>4. CASE /\ sess' = sess /\ link' = link /\ setup' = setup
           /\ (Free' \/ (op.does = "restore" /\ op.by = "scan")' => Free \/ (op.does = "restore" /\ op.by = "scan"))
           /\ HasOwner => HasOwner'
    BY <1>a, <1>4 DEF Unattended, Owned
<1>5. CASE sess'.pending
    BY <1>5 DEF HasOwner
<1>6. CASE Schedule(sess')
    <2>1. timer' = [at |-> "wait", for |-> sess'.expires]
        BY <1>6 DEF Schedule
    <2>2. QED
        BY <2>1, Zenon DEF HasOwner
<1>7. RestoreElsewhere /\ link' = link => Goal
    <2> SUFFICES ASSUME RestoreElsewhere, link' = link PROVE Goal
        OBVIOUS
    <2>1. sess'.key = sess.key /\ sess.key # link
        BY <1>0 DEF RestoreElsewhere, Record
    <2>2. QED
        BY <1>1, <2>1 DEF Owned
<1>8. RestoreEnds \/ Clear => Goal
    <2>1. RestoreEnds \/ Clear => ~sess'.active
        BY EmptyTypes DEF RestoreEnds, Clear
    <2>2. QED
        BY <1>1, <2>1 DEF Owned
<1>9. ASSUME NEW by \in {"user", "timer", "connect", "takeover"}, RestoreSwitch(by)
      PROVE  Goal
    <2>1. op'.at = "wait" /\ op'.by = by
        BY <1>9 DEF RestoreSwitch
    <2>2. QED
        BY <1>2, <2>1
<1>10. ASSUME NEW by \in {"user", "scan"}, NEW s \in Temps, NEW d \in Durations, StartBegin(by, s, d)
       PROVE  Goal
    <2>1. op'.at = "wait" /\ op'.does = "start"
        BY <1>10 DEF StartBegin
    <2>2. QED
        BY <1>2, <2>1
<1>11. CASE UserRestore
    <2>1. link' = link
        BY <1>11 DEF UserRestore, linkVars
    <2>2. RestoreElsewhere \/ RestoreSwitch("user") \/ RestoreEnds
        BY <1>11, Zenon DEF UserRestore
    <2>3. QED
        BY <1>7, <1>8, <1>9, <2>1, <2>2
<1>12. CASE TakeoverRestore
    <2>1. link' = link
        BY <1>12 DEF TakeoverRestore, linkVars
    <2>2. \/ RestoreElsewhere \/ RestoreSwitch("takeover") \/ RestoreEnds
          \/ ~sess.active /\ sess' = sess
        BY <1>12 DEF TakeoverRestore
    <2>3. ~sess.active /\ sess' = sess => ~Owned'
        BY DEF Owned
    <2>4. QED
        BY <1>1, <1>7, <1>8, <1>9, <2>1, <2>2, <2>3
<1>13. CASE ScanRestore
    <2>1. link' = link /\ setup' = setup
        BY <1>13 DEF ScanRestore, linkVars
    <2>2. CASE RestoreSwitch("scan") /\ UNCHANGED <<timer, scan, takeover>>
        <3>1. Free /\ sess' = sess /\ patch' = patch /\ timer' = timer /\ scan' = scan /\ takeover' = takeover
            BY <1>13, <2>2 DEF RestoreSwitch, ScanRestore
        <3>2. HasOwner => HasOwner'
            BY <3>1, Zenon DEF HasOwner
        <3>3. QED
            BY <1>4, <2>1, <3>1, <3>2
    <2>3. \/ RestoreElsewhere \/ RestoreEnds
          \/ RestoreSwitch("scan") /\ UNCHANGED <<timer, scan, takeover>>
        BY <1>13, Zenon DEF ScanRestore
    <2>4. QED
        BY <1>7, <1>8, <2>1, <2>2, <2>3
<1>14. Expire /\ link' = link => Goal
    <2> SUFFICES ASSUME Expire, link' = link PROVE Goal
        OBVIOUS
    <2>1. \/ RestoreSwitch("timer") \/ RestoreElsewhere \/ RestoreEnds
          \/ ~sess.active /\ sess' = sess
        BY DEF Expire
    <2>2. ~sess.active /\ sess' = sess => ~Owned'
        BY DEF Owned
    <2>3. QED
        BY <1>1, <1>7, <1>8, <1>9, <2>1, <2>2
<1>15. CASE TimerWake
    <2>1. link' = link /\ setup' = setup /\ patch' = patch /\ takeover' = takeover /\ timer.at = "wait"
        BY <1>15 DEF TimerWake, linkVars
    <2>2. CASE ~TimerCurrent /\ sess' = sess /\ op' = op /\ scan' = scan
        <3>1. CASE sess.active
            <4>1. timer # [at |-> "wait", for |-> sess.expires]
                BY <2>2, <3>1 DEF TimerCurrent
            <4>2. HasOwner => HasOwner'
                BY <2>1, <2>2, <4>1 DEF HasOwner
            <4>3. QED
                BY <1>4, <2>1, <2>2, <4>2 DEF Free
        <3>2. CASE ~sess.active
            <4>1. ~Owned'
                BY <2>2, <3>2 DEF Owned
            <4>2. QED
                BY <1>1, <4>1
        <3>3. QED
            BY <3>1, <3>2
    <2>3. CASE timer' = [timer EXCEPT !.at = "queued"]
        <3>1. timer'.at = "queued"
            BY <1>0, <2>3 DEF Tasks
        <3>2. QED
            BY <3>1 DEF HasOwner
    <2>4. QED
        BY <1>14, <1>15, <2>1, <2>2, <2>3 DEF TimerWake
<1>16. CASE TimerRestore
    BY <1>14, <1>16 DEF TimerRestore, linkVars
<1>17. CASE Acquire \/ Land
    <2>1. op'.at # "idle" /\ op'.by = op.by /\ op'.does = op.does /\ op.at # "idle"
        BY <1>0, <1>17 DEF Acquire, Land, Op
    <2>2. /\ sess' = sess /\ link' = link /\ setup' = setup /\ patch' = patch /\ timer' = timer
          /\ scan' = scan /\ takeover' = takeover
        BY <1>17 DEF Acquire, Land, linkVars, scanVars
    <2>3. HasOwner => HasOwner'
        BY <2>2, Zenon DEF HasOwner
    <2>4. QED
        BY <1>4, <2>1, <2>2, <2>3 DEF Free
<1>18. CASE SwitchOk \/ SwitchSilent \/ SwitchFails
    <2>1. Done \/ Raises
        BY <1>18 DEF SwitchOk, SwitchSilent, SwitchFails
    <2>2. CASE StartDone
        <3>1. Schedule(sess) /\ sess' = sess
            BY <2>2 DEF StartDone
        <3>2. Schedule(sess')
            BY <3>1 DEF Schedule
        <3>3. QED
            BY <1>6, <3>2
    <2>3. CASE UndoDone /\ op.old.active
        <3>1. Schedule(op.old) /\ sess' = op.old
            BY <2>3 DEF UndoDone
        <3>2. Schedule(sess')
            BY <3>1 DEF Schedule
        <3>3. QED
            BY <1>6, <3>2
    <2>4. CASE RestoreDone \/ (UndoDone /\ ~op.old.active)
        BY <1>8, <2>4 DEF RestoreDone, UndoDone
    <2>5. CASE StartFails
        <3>1. op' = [op EXCEPT !.at = "wait", !.does = "undo", !.wire = None]
            BY <2>5 DEF StartFails
        <3>2. op'.at = "wait" /\ op'.does = "undo"
            BY <1>0, <3>1 DEF Op
        <3>3. QED
            BY <1>2, <3>2
    <2>6. CASE UndoFails \/ RestoreFails
        <3>1. sess' = [sess EXCEPT !.pending = TRUE]
            BY <2>6 DEF UndoFails, RestoreFails
        <3>2. sess'.pending
            BY <1>0, <3>1 DEF Record
        <3>3. QED
            BY <1>5, <3>2
    <2>7. QED
        BY <2>1, <2>2, <2>3, <2>4, <2>5, <2>6 DEF Done, Raises
<1>19. CASE Reconcile
    <2>1. CASE ~Owned /\ UNCHANGED <<sess, op, timer, scan>>
        <3>1. link' = link
            BY <1>19 DEF Reconcile
        <3>2. ~Owned'
            BY <2>1, <3>1 DEF Owned
        <3>3. QED
            BY <1>1, <3>2
    <2>2. CASE Schedule(sess) /\ sess' = sess
        <3>1. Schedule(sess')
            BY <2>2 DEF Schedule
        <3>2. QED
            BY <1>6, <3>1
    <2>3. \/ ~Owned /\ UNCHANGED <<sess, op, timer, scan>>
          \/ RestoreSwitch("connect") \/ RestoreEnds
          \/ (Schedule(sess) /\ sess' = sess) \/ Clear
        BY <1>19, Zenon DEF Reconcile
    <2>4. QED
        BY <1>8, <1>9, <2>1, <2>2, <2>3
<1>20. CASE RunScan
    <2>1. /\ scan' /\ takeover # "restore"
          /\ op' = op /\ sess' = sess /\ link' = link /\ setup' = setup /\ patch' = patch
          /\ timer' = timer
        BY <1>20 DEF RunScan, linkVars
    <2>2. HasOwner => HasOwner'
        BY <2>1 DEF HasOwner
    <2>3. QED
        BY <1>4, <2>1, <2>2 DEF Free
<1>21. CASE ScanFinish
    <2>1. /\ scan /\ takeover' = (IF sess.active /\ sess.scan THEN "restore" ELSE "none") /\ Free
          /\ op' = op /\ sess' = sess /\ link' = link /\ setup' = setup /\ patch' = patch
          /\ timer' = timer
        BY <1>21 DEF ScanFinish, linkVars, ScanOver
    <2>2. sess.active => (HasOwner => HasOwner')
        BY <1>a, <2>1 DEF HasOwner
    <2>3. ~sess.active => ~Owned'
        BY <2>1 DEF Owned
    <2>4. QED
        BY <1>1, <1>4, <2>1, <2>2, <2>3
<1>22. ASSUME NEW next \in {"none", "start", "restore"}, ScanCancel(next)
       PROVE  Goal
    <2>1. /\ scan /\ takeover = "none"
          /\ next = "none" => patch.at = "end"
          /\ takeover' = (IF next = "restore" /\ ~(sess.active /\ sess.scan) THEN "none" ELSE next)
          /\ sess' = sess /\ link' = link /\ setup' = setup /\ patch' = patch /\ timer' = timer
        BY <1>22 DEF ScanCancel, linkVars
    <2>2. CASE sess.active /\ sess.scan
        <3>1. HasOwner'
            BY <2>1, <2>2 DEF HasOwner
        <3>2. QED
            BY <3>1
    <2>3. CASE ~sess.active
        <3>1. ~Owned'
            BY <2>1, <2>3 DEF Owned
        <3>2. QED
            BY <1>1, <3>1
    <2>4. CASE ~sess.scan
        <3>1. HasOwner => HasOwner'
            BY <2>1, <2>4 DEF HasOwner
        <3>2. CASE op' = op
            BY <1>4, <2>1, <3>1, <3>2 DEF Free
        <3>3. CASE ~Free /\ op.by = "scan"
            <4>1. op.does = "restore"
                BY <1>0, <1>a, <2>4, <3>3 DEF Sessions, Free, Op
            <4>2. QED
                BY <1>4, <2>1, <3>1, <3>3, <4>1
        <3>4. QED
            BY <1>22, <3>2, <3>3 DEF ScanCancel
    <2>5. QED
        BY <2>2, <2>3, <2>4
<1>23. CASE Extend
    <2>1. /\ Schedule(sess') \/ (sess' = sess /\ timer' = timer)
          /\ op' = op /\ link' = link /\ setup' = setup /\ patch' = patch
          /\ scan' = scan /\ takeover' = takeover
        BY <1>23, Zenon DEF Extend, linkVars
    <2>2. sess' = sess /\ timer' = timer => (HasOwner => HasOwner')
        BY <2>1, Zenon DEF HasOwner
    <2>3. QED
        BY <1>4, <1>6, <2>1, <2>2 DEF Free
<1>24. CASE PatchApply \/ PatchRefused \/ \E s \in Others : PatchBegin(s)
    <2>1. /\ op' = op /\ sess' = sess /\ link' = link /\ setup' = setup /\ timer' = timer
          /\ scan' = scan /\ takeover' = takeover
        BY <1>24 DEF PatchApply, PatchRefused, PatchBegin, linkVars, scanVars
    <2>2. patch.at # "end"
        BY <1>24, EmptyTypes DEF PatchApply, PatchRefused, PatchBegin
    <2>3. HasOwner => HasOwner'
        BY <2>1, <2>2, Zenon DEF HasOwner
    <2>4. QED
        BY <1>4, <2>1, <2>3 DEF Free
<1>25. CASE PatchEnd
    <2>1. Clear \/ (~sess.active /\ sess' = sess)
        BY <1>25, Zenon DEF PatchEnd
    <2>2. ~sess.active /\ sess' = sess => ~Owned'
        BY DEF Owned
    <2>3. QED
        BY <1>1, <1>8, <2>1, <2>2
<1>26. CASE StartRefused
    <2>1. ~Owned /\ sess' = sess /\ link' = link
        BY <1>0, <1>26 DEF StartRefused, Owned, linkVars, Sessions, RecordOk
    <2>2. ~Owned'
        BY <2>1 DEF Owned
    <2>3. QED
        BY <1>1, <2>2
<1>27. CASE Disconnect \/ Crash
    <2>1. link' = None
        BY <1>27 DEF Disconnect, Crash
    <2>2. ~Owned'
        BY <1>0, <2>1 DEF Owned, Sessions, RecordOk
    <2>3. QED
        BY <1>1, <2>2
<1>28. ASSUME NEW c \in Companions, Connect(c)
       PROVE  Goal
    BY <1>3, <1>28 DEF Connect
<1>29. CASE \/ UNCHANGED vars \/ Tick \/ \E d \in Durations : ScanHeard(d)
            \/ \E c \in Companions, s \in Others : ChangeElsewhere(c, s)
    <2>1. /\ op' = op /\ sess' = sess /\ link' = link /\ setup' = setup /\ timer' = timer
          /\ scan' = scan /\ takeover' = takeover /\ patch' = patch
        BY <1>29 DEF vars, linkVars, scanVars, Tick, ChangeElsewhere, ScanHeard
    <2>2. HasOwner => HasOwner'
        BY <2>1, Zenon DEF HasOwner
    <2>3. QED
        BY <1>4, <2>1, <2>2 DEF Free
<1>30. CASE UserStep
    BY <1>10, <1>11, <1>20, <1>22, <1>24, <1>30 DEF UserStep
<1>31. CASE TaskStep
    BY <1>12, <1>13, <1>21, <1>23, <1>24, <1>25, <1>26, <1>31 DEF TaskStep
<1>32. CASE WorldStep
    BY <1>27, <1>28, <1>29, <1>32 DEF WorldStep
<1>33. QED
    BY <1>15, <1>16, <1>17, <1>18, <1>19, <1>29, <1>30, <1>31, <1>32 DEF Next, SwitchStep, TimerStep

\* While its companion is connected and reconciled and nobody works on it, a session has
\* someone who will end it, in any interleaving of the expiry task, the scan, the
\* requests that stop it, the settings page, dropped links and restarts.
THEOREM SessionsHaveOwners == Spec => []SessionHasOwner
<1>1. OwnerInv => SessionHasOwner
    BY DEF OwnerInv, Aside, Unattended, HasOwner, SessionHasOwner
<1>2. Init => OwnerInv
    <2> SUFFICES ASSUME Init PROVE OwnerInv
        OBVIOUS
    <2>1. TypeInv
        BY TypeInvInit
    <2>2. Aside
        BY EmptyTypes DEF Init, Aside
    <2>3. ~sess.active
        BY EmptyTypes DEF Init
    <2>4. QED
        BY <2>1, <2>2, <2>3 DEF OwnerInv, Unattended, Owned
<1>3. OwnerInv /\ [Next]_vars => OwnerInv'
    BY TypeInvStep, AsideStep, OwnerStep DEF OwnerInv
<1>4. QED
    BY <1>1, <1>2, <1>3, PTL DEF Spec

----------------------------------------------------------------------------
(* What the budgets rule out *)

\* A counter moves only within the budgets.
LEMMA SpentWithin ==
    ASSUME [Next]_vars
    PROVE  spent' = spent \/ Within(spent')
<1>1. CASE UserStep
    BY <1>1 DEF UserStep, StartBegin, UserRestore, RunScan, ScanCancel, PatchBegin, Spend
<1>2. CASE SwitchStep
    BY <1>2 DEF SwitchStep, Acquire, Land, SwitchOk, SwitchSilent, SwitchFails, Spend
<1>3. CASE TimerStep \/ TaskStep \/ Reconcile \/ UNCHANGED vars
    BY <1>3 DEF TimerStep, TimerWake, TimerRestore, TaskStep, StartRefused, TakeoverRestore,
                ScanRestore, ScanFinish, Extend, PatchApply, PatchRefused, PatchEnd, Reconcile, vars
<1>4. CASE WorldStep
    BY <1>4 DEF WorldStep, Disconnect, Crash, Tick, Connect, ChangeElsewhere, ScanHeard, Spend
<1>5. QED
    BY <1>1, <1>2, <1>3, <1>4 DEF Next

\* An event without a budget is never counted, and no step that counts it is taken.
LEMMA NeverStays ==
    ASSUME NEW k \in Kinds, Never(k), TypeInv, spent[k] = 0, [Next]_vars
    PROVE  spent'[k] = 0 /\ ~Spend(k)
<1>1. spent \in [Kinds -> Nat] /\ spent' \in [Kinds -> Nat]
    BY ClockStepType DEF TypeInv, Tasks, Clock
<1>2. Within(spent') => spent'[k] = 0
    <2> SUFFICES ASSUME Within(spent') PROVE spent'[k] = 0
        OBVIOUS
    <2>1. PICK b \in Budgets : \A j \in Kinds : spent'[j] <= b[j]
        BY DEF Within
    <2>2. spent'[k] <= 0
        BY <2>1 DEF Never
    <2>3. QED
        BY <1>1, <2>2
<1>3. spent'[k] = 0
    BY <1>2, SpentWithin
<1>4. ~Spend(k)
    BY <1>1, <1>3, SpendType
<1>5. QED
    BY <1>3, <1>4

\* How there comes to be an operation after a step: a session is started, a restore
\* begins, or the one there was goes on with its session.
LEMMA OpStep ==
    ASSUME TypeInv, [Next]_vars, op'.at # "idle"
    PROVE  \/ \E by \in {"user", "scan"}, s \in Temps, d \in Durations : StartBegin(by, s, d)
           \/ /\ \E by \in {"user", "scan", "timer", "connect", "takeover"} : RestoreSwitch(by)
              /\ UNCHANGED <<radio, home, link, known, patch, now, spent>>
           \/ /\ op.at # "idle" /\ sess' = sess /\ op'.old = op.old
              /\ op' = op \/ Acquire \/ Land \/ Disconnect \/ StartFails
<1> DEFINE Goal == \/ \E by \in {"user", "scan"}, s \in Temps, d \in Durations : StartBegin(by, s, d)
                   \/ /\ \E by \in {"user", "scan", "timer", "connect", "takeover"} : RestoreSwitch(by)
                      /\ UNCHANGED <<radio, home, link, known, patch, now, spent>>
                   \/ /\ op.at # "idle" /\ sess' = sess /\ op'.old = op.old
                      /\ op' = op \/ Acquire \/ Land \/ Disconnect \/ StartFails
<1>0. op \in Op /\ (op.at = "idle" <=> Free) /\ (op.at = "idle" => op = IdleOp) /\ IdleOp.at = "idle"
    BY EmptyTypes DEF TypeInv, Sessions, Free
<1>1. CASE op' = op /\ sess' = sess
    BY <1>1
<1>2. op' # IdleOp /\ ~(op' = op /\ Free)
    BY <1>0
<1>3. ~RestoreEnds /\ ~Clear /\ ~RestoreElsewhere
    BY <1>2 DEF RestoreEnds, Clear, RestoreElsewhere
<1>4. CASE \E by \in {"user", "scan", "timer", "connect", "takeover"} : RestoreSwitch(by)
        /\ UNCHANGED <<radio, home, link, known, patch, now, spent>>
    BY <1>4
<1>5. CASE UserStep
    <2>1. CASE UserRestore
        <3>1. UNCHANGED <<radio, home, link, known, patch, now, spent>>
            BY <2>1 DEF UserRestore, radioVars, linkVars
        <3>2. RestoreSwitch("user")
            BY <1>3, <2>1, Zenon DEF UserRestore
        <3>3. QED
            BY <1>4, <3>1, <3>2
    <2>2. CASE RunScan \/ (\E next \in {"none", "start", "restore"} : ScanCancel(next))
                \/ \E s \in Others : PatchBegin(s)
        <3>1. op' = op /\ sess' = sess
            BY <1>2, <2>2 DEF RunScan, ScanCancel, PatchBegin
        <3>2. QED
            BY <1>1, <3>1
    <2>3. QED
        BY <1>5, <2>1, <2>2 DEF UserStep
<1>6. CASE Acquire \/ Land \/ Disconnect
    <2>1. sess' = sess /\ op'.old = op.old /\ (op'.at = "idle" <=> op.at = "idle")
        BY <1>0, <1>6 DEF Acquire, Land, Disconnect, Op
    <2>2. QED
        BY <1>6, <2>1
<1>7. CASE SwitchOk \/ SwitchSilent \/ SwitchFails
    <2>1. StartFails /\ op.at # "idle"
        BY <1>2, <1>3, <1>7 DEF SwitchOk, SwitchSilent, SwitchFails, Done, Raises, StartDone,
                                UndoDone, RestoreDone, UndoFails, RestoreFails
    <2>2. op' = [op EXCEPT !.at = "wait", !.does = "undo", !.wire = None] /\ sess' = sess
        BY <2>1 DEF StartFails
    <2>3. op'.old = op.old
        BY <1>0, <2>2 DEF Op
    <2>4. QED
        BY <2>1, <2>2, <2>3
<1>8. CASE TimerStep
    <2>1. UNCHANGED <<radio, home, link, known, patch, now, spent>>
        BY <1>8 DEF TimerStep, TimerWake, TimerRestore, radioVars, linkVars
    <2>2. RestoreSwitch("timer") \/ (op' = op /\ sess' = sess)
        BY <1>3, <1>8, Zenon DEF TimerStep, TimerWake, TimerRestore, Expire
    <2>3. QED
        BY <1>1, <1>4, <2>1, <2>2
<1>9. CASE TaskStep
    <2>1. CASE TakeoverRestore
        <3>1. UNCHANGED <<radio, home, link, known, patch, now, spent>>
            BY <2>1 DEF TakeoverRestore, radioVars, linkVars
        <3>2. RestoreSwitch("takeover") \/ (op' = op /\ sess' = sess)
            BY <1>3, <2>1 DEF TakeoverRestore
        <3>3. QED
            BY <1>1, <1>4, <3>1, <3>2
    <2>2. CASE ScanRestore
        <3>1. UNCHANGED <<radio, home, link, known, patch, now, spent>>
            BY <2>2 DEF ScanRestore, radioVars, linkVars
        <3>2. RestoreSwitch("scan")
            BY <1>3, <2>2, Zenon DEF ScanRestore
        <3>3. QED
            BY <1>4, <3>1, <3>2
    <2>3. CASE StartRefused \/ ScanFinish \/ PatchApply \/ PatchRefused
        <3>1. op' = op /\ sess' = sess
            BY <2>3 DEF StartRefused, ScanFinish, PatchApply, PatchRefused
        <3>2. QED
            BY <1>1, <3>1
    <2>4. CASE Extend
        <3>1. op' = op /\ Free
            BY <2>4 DEF Extend
        <3>2. QED
            BY <1>2, <3>1
    <2>5. CASE PatchEnd
        <3>1. Free /\ (Clear \/ op' = op)
            BY <2>5 DEF PatchEnd
        <3>2. QED
            BY <1>2, <1>3, <3>1
    <2>6. QED
        BY <1>9, <2>1, <2>2, <2>3, <2>4, <2>5 DEF TaskStep
<1>10. CASE Reconcile
    <2>1. UNCHANGED <<radio, home, link, known, patch, now, spent>>
        BY <1>10 DEF Reconcile, radioVars
    <2>2. RestoreSwitch("connect") \/ (op' = op /\ sess' = sess)
        BY <1>3, <1>10, Zenon DEF Reconcile
    <2>3. QED
        BY <1>1, <1>4, <2>1, <2>2
<1>11. CASE WorldStep
    <2>1. CASE Crash
        BY <1>2, <2>1 DEF Crash
    <2>2. CASE \/ Tick \/ \E d \in Durations : ScanHeard(d)
               \/ \E c \in Companions : Connect(c) \/ \E s \in Others : ChangeElsewhere(c, s)
        <3>1. op' = op /\ sess' = sess
            BY <2>2 DEF Tick, ScanHeard, Connect, ChangeElsewhere
        <3>2. QED
            BY <1>1, <3>1
    <2>3. QED
        BY <1>6, <1>11, <2>1, <2>2 DEF WorldStep
<1>12. CASE UNCHANGED vars
    BY <1>1, <1>12 DEF vars
<1>13. QED
    BY <1>5, <1>6, <1>7, <1>8, <1>9, <1>10, <1>11, <1>12 DEF Next, SwitchStep

\* How the link changes: a connect, a disconnect, or not at all.
LEMMA LinkChanges ==
    ASSUME [Next]_vars
    PROVE  link' = link \/ link' = None \/ \E c \in Companions : Connect(c)
<1>1. CASE UserStep \/ SwitchStep
    BY <1>1 DEF UserStep, StartBegin, UserRestore, RunScan, ScanCancel, PatchBegin,
                SwitchStep, Acquire, Land, SwitchOk, SwitchSilent, SwitchFails, linkVars
<1>2. CASE TimerStep \/ TaskStep \/ Reconcile \/ UNCHANGED vars
    BY <1>2 DEF TimerStep, TimerWake, TimerRestore, TaskStep, StartRefused, TakeoverRestore,
                ScanRestore, ScanFinish, Extend, PatchApply, PatchRefused, PatchEnd, Reconcile,
                vars, linkVars
<1>3. CASE WorldStep
    BY <1>3 DEF WorldStep, Disconnect, Crash, Tick, Connect, ChangeElsewhere, ScanHeard, linkVars
<1>4. QED
    BY <1>1, <1>2, <1>3 DEF Next

----------------------------------------------------------------------------
(* Commands go to the session's companion *)

\* While settings are being switched no other companion is connected.
SameRadio == op.at # "idle" /\ link # None => link = sess.key
SwapInv == TypeInv /\ spent["swap"] = 0 /\ SameRadio

\* Without an exchange of the radio in the middle of a switch, a step keeps that.
LEMMA SwapInvStep ==
    ASSUME Never("swap"), SwapInv, [Next]_vars
    PROVE  SwapInv'
<1>0. TypeInv /\ spent["swap"] = 0 /\ SameRadio /\ Sessions /\ Links
    BY DEF SwapInv, TypeInv
<1>1. spent'["swap"] = 0 /\ ~Spend("swap")
    BY <1>0, NeverStays DEF Kinds
<1>2. SameRadio'
    <2> SUFFICES ASSUME op'.at # "idle", link' # None PROVE link' = sess'.key
        BY DEF SameRadio
    <2>1. ASSUME NEW by \in {"user", "scan"}, NEW s \in Temps, NEW d \in Durations,
                 StartBegin(by, s, d)
          PROVE  link' = sess'.key
        <3>1. sess' = NewRecord(s, d, by) /\ link' = link
            BY <2>1 DEF StartBegin, linkVars
        <3>2. QED
            BY <3>1 DEF NewRecord
    <2>2. ASSUME NEW by \in {"user", "scan", "timer", "connect", "takeover"}, RestoreSwitch(by),
                 link' = link
          PROVE  link' = sess'.key
        BY <2>2 DEF RestoreSwitch, Owned
    <2>3. CASE op.at # "idle" /\ sess' = sess /\ op'.old = op.old
        <3>1. ASSUME NEW c \in Companions, Connect(c)
              PROVE  link' = sess'.key
            BY <1>1, <2>3, <3>1 DEF Connect, Free
        <3>2. link' = link => link' = sess'.key
            BY <1>0, <2>3 DEF SameRadio
        <3>3. QED
            BY <3>1, <3>2, LinkChanges
    <2>4. QED
        BY <1>0, <2>1, <2>2, <2>3, OpStep
<1>3. QED
    BY <1>0, <1>1, <1>2, TypeInvStep DEF SwapInv

\* "Never write one companion's settings to another one": when the radio is not exchanged
\* in the middle of a switch, every command of a session goes to its own companion.
THEOREM CommandsStayHome ==
    ASSUME Never("swap")
    PROVE  Spec => []OnlyOwnCompanion
<1>1. SwapInv => OnlyOwnCompanion
    BY NoneIsNothing DEF SwapInv, SameRadio, OnlyOwnCompanion, TypeInv, Sessions, Links
<1>2. Init => SwapInv
    <2> SUFFICES ASSUME Init PROVE SwapInv
        OBVIOUS
    <2>1. TypeInv
        BY TypeInvInit
    <2>2. spent["swap"] = 0
        BY DEF Init, Kinds
    <2>3. SameRadio
        BY DEF Init, SameRadio
    <2>4. QED
        BY <2>1, <2>2, <2>3 DEF SwapInv
<1>3. SwapInv /\ [Next]_vars => SwapInv'
    BY SwapInvStep
<1>4. QED
    BY <1>1, <1>2, <1>3, PTL DEF Spec

----------------------------------------------------------------------------
(* The expiry task *)

\* A task that waits for the lock or its retry finds a session that is due.
Due == now >= sess.expires \/ sess.pending
TaskIsDue ==
    timer.at \in {"queued", "retry"} /\ sess.active /\ (Free \/ op.does = "restore") => Due
DueInv == TypeInv /\ spent["cancel"] = 0 /\ TaskIsDue

\* While no scan is stopped inside a switch of its own, a step keeps that.
LEMMA TaskIsDueStep ==
    ASSUME Never("cancel"), DueInv, [Next]_vars
    PROVE  TaskIsDue'
<1>0. /\ TypeInv /\ spent["cancel"] = 0 /\ TaskIsDue /\ Sessions /\ Tasks
      /\ sess \in Record /\ sess' \in Record /\ op.old \in Record /\ op \in Op
      /\ now \in Nat /\ now' \in Nat /\ now <= now' /\ Timer'
    BY SessionsStep, TimerStepType, ClockStepType, TimeAssumption
    DEF DueInv, TypeInv, Sessions, Tasks, Op, Clock
<1>a. spent'["cancel"] = 0 /\ ~Spend("cancel")
    BY <1>0, NeverStays DEF Kinds
\* The task sleeps or there is none, or a start is at work.
<1>1. CASE timer'.at \notin {"queued", "retry"}
    BY <1>1 DEF TaskIsDue
<1>2. CASE ~sess'.active \/ sess'.pending
    BY <1>2 DEF TaskIsDue, Due
<1>3. CASE op'.at # "idle" /\ op'.does # "restore"
    BY <1>3 DEF TaskIsDue, Free
<1>4. CASE sess' = sess /\ Due
    <2>1. Due'
        BY <1>0, <1>4 DEF Due, Record
    <2>2. QED
        BY <2>1 DEF TaskIsDue
<1>5. CASE /\ sess' = sess /\ timer' = timer
           /\ Free' \/ op'.does = "restore" => Free \/ op.does = "restore"
    <2>1. SUFFICES ASSUME timer'.at \in {"queued", "retry"}, sess'.active, Free' \/ op'.does = "restore"
                   PROVE  Due'
        BY DEF TaskIsDue
    <2>2. Due
        BY <1>0, <1>5, <2>1 DEF TaskIsDue
    <2>3. QED
        BY <1>0, <1>5, <2>2 DEF Due, Record
<1>6. CASE timer' = NoTimer
    BY <1>1, <1>6, EmptyTypes
<1>7. ASSUME NEW r, Schedule(r)
      PROVE  TaskIsDue'
    BY <1>1, <1>7 DEF Schedule
<1>8. CASE RestoreElsewhere
    <2>1. sess' = [sess EXCEPT !.pending = TRUE]
        BY <1>8 DEF RestoreElsewhere
    <2>2. sess'.pending
        BY <1>0, <2>1 DEF Record
    <2>3. QED
        BY <1>2, <2>2
<1>9. CASE RestoreEnds \/ Clear
    BY <1>6, <1>9 DEF RestoreEnds, Clear
<1>10. ASSUME NEW by \in {"user", "scan", "connect", "takeover"}, RestoreSwitch(by), timer' = timer
       PROVE  TaskIsDue'
    <2>1. sess' = sess /\ Free
        BY <1>10 DEF RestoreSwitch
    <2>2. QED
        BY <1>5, <1>10, <2>1
<1>11. ASSUME NEW by \in {"user", "scan"}, NEW s \in Temps, NEW d \in Durations, StartBegin(by, s, d)
       PROVE  TaskIsDue'
    <2>1. op'.at = "wait" /\ op'.does = "start"
        BY <1>11 DEF StartBegin
    <2>2. QED
        BY <1>3, <2>1
<1>12. CASE UserRestore
    <2>1. ((RestoreElsewhere \/ RestoreSwitch("user")) /\ timer' = timer) \/ RestoreEnds
        BY <1>12, Zenon DEF UserRestore
    <2>2. QED
        BY <1>8, <1>9, <1>10, <2>1
<1>13. CASE TakeoverRestore
    <2>1. \/ ((RestoreElsewhere \/ RestoreSwitch("takeover")) /\ timer' = timer) \/ RestoreEnds
          \/ sess' = sess /\ ~sess.active
        BY <1>13, Zenon DEF TakeoverRestore
    <2>2. QED
        BY <1>2, <1>8, <1>9, <1>10, <2>1
<1>14. CASE ScanRestore
    <2>1. RestoreElsewhere \/ (RestoreSwitch("scan") /\ timer' = timer) \/ RestoreEnds
        BY <1>14, Zenon DEF ScanRestore
    <2>2. QED
        BY <1>8, <1>9, <1>10, <2>1
<1>15. CASE TimerWake
    <2>1. CASE RestoreSwitch("timer") /\ TimerCurrent /\ now >= timer.for
        <3>1. sess' = sess /\ Due
            BY <1>15, <2>1 DEF RestoreSwitch, TimerCurrent, Due
        <3>2. QED
            BY <1>4, <3>1
    <2>2. CASE TimerCurrent /\ now >= timer.for /\ sess' = sess
        <3>1. Due
            BY <2>2 DEF TimerCurrent, Due
        <3>2. QED
            BY <1>4, <2>2, <3>1
    <2>3. \/ timer' = NoTimer \/ RestoreElsewhere \/ RestoreEnds
          \/ RestoreSwitch("timer") /\ TimerCurrent /\ now >= timer.for
          \/ TimerCurrent /\ now >= timer.for /\ sess' = sess
        BY <1>15, Zenon DEF TimerWake, Expire
    <2>4. QED
        BY <1>6, <1>8, <1>9, <2>1, <2>2, <2>3
<1>16. CASE TimerRestore
    <2>1. CASE RestoreSwitch("timer")
        <3>1. sess' = sess /\ Free /\ sess.active
            BY <2>1 DEF RestoreSwitch, Owned
        <3>2. Due
            BY <1>0, <1>16, <3>1 DEF TimerRestore, TaskIsDue
        <3>3. QED
            BY <1>4, <3>1, <3>2
    <2>2. RestoreSwitch("timer") \/ RestoreElsewhere \/ RestoreEnds \/ timer' = NoTimer
        BY <1>16, Zenon DEF TimerRestore, Expire
    <2>3. QED
        BY <1>6, <1>8, <1>9, <2>1, <2>2
<1>17. CASE Acquire \/ Land \/ Disconnect
    <2>1. op'.does = op.does /\ (op'.at = "idle" <=> op.at = "idle")
        BY <1>0, <1>17 DEF Acquire, Land, Disconnect, Op
    <2>2. sess' = sess /\ timer' = timer
        BY <1>17 DEF Acquire, Land, Disconnect
    <2>3. QED
        BY <1>5, <2>1, <2>2 DEF Free
<1>18. CASE SwitchOk \/ SwitchSilent \/ SwitchFails
    <2>1. Done \/ Raises
        BY <1>18 DEF SwitchOk, SwitchSilent, SwitchFails
    <2>2. CASE StartFails
        <3>1. op' = [op EXCEPT !.at = "wait", !.does = "undo", !.wire = None]
            BY <2>2 DEF StartFails
        <3>2. op'.at = "wait" /\ op'.does = "undo"
            BY <1>0, <3>1 DEF Op
        <3>3. QED
            BY <1>3, <3>2
    <2>3. CASE UndoFails \/ RestoreFails
        <3>1. sess' = [sess EXCEPT !.pending = TRUE]
            BY <2>3 DEF UndoFails, RestoreFails
        <3>2. sess'.pending
            BY <1>0, <3>1 DEF Record
        <3>3. QED
            BY <1>2, <3>2
    <2>4. CASE Done
        <3>1. Schedule(sess) \/ Schedule(op.old) \/ Clear
            BY <2>4, Zenon DEF Done, StartDone, UndoDone, RestoreDone
        <3>2. QED
            BY <1>7, <1>9, <3>1
    <2>5. QED
        BY <2>1, <2>2, <2>3, <2>4 DEF Raises
<1>19. CASE Reconcile
    <2>1. \/ sess' = sess /\ timer' = timer /\ op' = op
          \/ RestoreSwitch("connect") /\ timer' = timer
          \/ RestoreEnds \/ Clear \/ Schedule(sess)
        BY <1>19, Zenon DEF Reconcile
    <2>2. CASE sess' = sess /\ timer' = timer /\ op' = op
        BY <1>5, <2>2 DEF Free
    <2>3. QED
        BY <1>7, <1>9, <1>10, <2>1, <2>2
<1>20. CASE Extend
    <2>1. Schedule(sess') \/ (sess' = sess /\ timer' = timer)
        BY <1>20, Zenon DEF Extend
    <2>2. op' = op
        BY <1>20, Zenon DEF Extend
    <2>3. sess' = sess /\ timer' = timer => TaskIsDue'
        BY <1>5, <2>2 DEF Free
    <2>4. QED
        BY <1>7, <2>1, <2>3
<1>21. CASE PatchEnd
    <2>1. Clear \/ (~sess.active /\ sess' = sess)
        BY <1>21, Zenon DEF PatchEnd
    <2>2. QED
        BY <1>2, <1>9, <2>1
<1>22. CASE Crash
    BY <1>6, <1>22 DEF Crash
<1>23. CASE sess' = sess /\ timer' = timer /\ op' = op
    BY <1>5, <1>23 DEF Free
<1>24. CASE UserStep
    <2>1. CASE RunScan \/ (\E next \in {"none", "start", "restore"} : ScanCancel(next))
                \/ \E s \in Others : PatchBegin(s)
        <3>1. sess' = sess /\ timer' = timer /\ op' = op
            BY <1>a, <2>1 DEF RunScan, ScanCancel, PatchBegin
        <3>2. QED
            BY <1>23, <3>1
    <2>2. QED
        BY <1>11, <1>12, <1>24, <2>1 DEF UserStep
<1>25. CASE TaskStep
    <2>1. CASE StartRefused \/ ScanFinish \/ PatchApply \/ PatchRefused
        <3>1. sess' = sess /\ timer' = timer /\ op' = op
            BY <2>1 DEF StartRefused, ScanFinish, PatchApply, PatchRefused
        <3>2. QED
            BY <1>23, <3>1
    <2>2. QED
        BY <1>13, <1>14, <1>20, <1>21, <1>25, <2>1 DEF TaskStep
<1>26. CASE WorldStep
    <2>1. CASE \/ Tick \/ \E d \in Durations : ScanHeard(d)
               \/ \E c \in Companions : Connect(c) \/ \E s \in Others : ChangeElsewhere(c, s)
        <3>1. sess' = sess /\ timer' = timer /\ op' = op
            BY <2>1 DEF Tick, ScanHeard, Connect, ChangeElsewhere
        <3>2. QED
            BY <1>23, <3>1
    <2>2. QED
        BY <1>17, <1>22, <1>26, <2>1 DEF WorldStep
<1>27. CASE UNCHANGED vars
    BY <1>23, <1>27 DEF vars
<1>28. QED
    BY <1>15, <1>16, <1>17, <1>18, <1>19, <1>24, <1>25, <1>26, <1>27 DEF Next, SwitchStep, TimerStep

\* The inductive step: what the budget rules out stays ruled out.
LEMMA DueInvStep ==
    ASSUME Never("cancel"), DueInv, [Next]_vars
    PROVE  DueInv'
<1>1. spent'["cancel"] = 0
    BY NeverStays DEF DueInv, Kinds
<1>2. TaskIsDue'
    BY TaskIsDueStep
<1>3. QED
    BY <1>1, <1>2, TypeInvStep DEF DueInv

\* Unless a scan is stopped inside a switch of its own, the expiry task never ends a
\* session before its time: not one started again, extended or brought back by an undo
\* while the task slept, waited for the lock or waited to try again.
THEOREM TimersOnTime ==
    ASSUME Never("cancel")
    PROVE  Spec => TimerOnTime
<1>1. Init => DueInv
    <2> SUFFICES ASSUME Init PROVE DueInv
        OBVIOUS
    <2>1. TypeInv
        BY TypeInvInit
    <2>2. spent["cancel"] = 0
        BY DEF Init, Kinds
    <2>3. TaskIsDue
        BY EmptyTypes DEF Init, TaskIsDue
    <2>4. QED
        BY <2>1, <2>2, <2>3 DEF DueInv
<1>2. DueInv /\ [Next]_vars => DueInv'
    BY DueInvStep
<1>3. ASSUME DueInv, [Next]_vars
      PROVE  [TimerStep /\ sess.active /\ (op' # op \/ ~sess'.active)
              => now >= sess.expires \/ sess.pending]_vars
    <2> SUFFICES ASSUME TimerStep, sess.active, op' # op \/ ~sess'.active
                 PROVE  Due
        BY DEF Due
    <2>1. CASE TimerWake
        <3>1. TimerCurrent /\ now >= timer.for
            BY <2>1 DEF TimerWake
        <3>2. QED
            BY <3>1 DEF TimerCurrent, Due
    <2>2. CASE TimerRestore
        <3>1. timer.at \in {"queued", "retry"}
            BY <2>2 DEF TimerRestore
        <3>2. Free
            BY <2>2, Zenon DEF TimerRestore, Expire, RestoreSwitch, RestoreElsewhere, RestoreEnds
        <3>3. QED
            BY <1>3, <3>1, <3>2 DEF DueInv, TaskIsDue
    <2>3. QED
        BY <2>1, <2>2 DEF TimerStep
<1>4. QED
    BY <1>1, <1>2, <1>3, PTL DEF Spec, TimerOnTime
=============================================================================
