----------------------------- MODULE TempRadio -----------------------------
(***************************************************************************)
(* Temporary radio settings of the connected companion.  Companion         *)
(* firmware keeps one set of LoRa settings, in flash.  RTFM emulates a     *)
(* temporary change: it stores a session record with the normal settings,  *)
(* writes the temporary ones, and writes the normal ones back when the     *)
(* session ends.  The record survives a crash; on every connect it is      *)
(* brought in line with the radio that answered.                           *)
(*                                                                         *)
(* Start, restore, extend and reconcile run under the service's asyncio    *)
(* lock; the commands to the radio run under the radio operation lock,     *)
(* which the settings page takes too.  A set of LoRa settings is a model   *)
(* value.  The region, the client-repeat bit and the opt-ins of a session  *)
(* are left out.                                                           *)
(***************************************************************************)
EXTENDS Naturals

CONSTANTS
    Companions,  \* public keys of the companions that may be connected
    None,        \* no companion, or no settings
    Normal,      \* the settings every companion starts on
    Temps,       \* settings a session or a scan entry asks for
    Others,      \* settings a user makes the new normal, elsewhere or in RTFM
    Durations,   \* lengths of a session
    MaxNow,      \* bound: the last instant of the clock
    Budgets      \* bound: combinations of how often each of Kinds happens

\* What the bounds count.
Kinds == {"start",   \* sessions started, by a user or a scan entry
          "refuse",  \* commands the radio refuses
          "lost",    \* commands that land although their answer is lost
          "crash",   \* restarts of the backend
          "edit",    \* settings changed outside RTFM
          "patch",   \* saves of the radio settings page
          "silent",  \* commands reported as done without a confirmation
          "cancel",  \* switches interrupted by stopping the scan
          "swap"}    \* the radio exchanged, or changed elsewhere, during a switch

ASSUME SettingsAssumption ==
    /\ None \notin Companions \cup Temps \cup Others \cup {Normal}
    /\ Normal \notin Temps \cup Others
    /\ Temps \cap Others = {}
ASSUME TimeAssumption == Durations \subseteq Nat \ {0} /\ MaxNow \in Nat
ASSUME BudgetsAssumption == Budgets \subseteq [Kinds -> Nat]

Settings == Temps \cup Others \cup {Normal}

\* The fields of the stored session that the control depends on.
Record == [active : BOOLEAN, key : Companions \cup {None},
           original : Settings \cup {None}, temp : Settings \cup {None},
           prev : Settings \cup {None}, expires : Nat,
           pending : BOOLEAN, scan : BOOLEAN]
NoRecord == [active |-> FALSE, key |-> None, original |-> None, temp |-> None,
             prev |-> None, expires |-> 0, pending |-> FALSE, scan |-> FALSE]

\* The operation that holds the service lock: which command it is at, for what,
\* for whom, the session it replaced and the companion the command went to.
Op == [at : {"idle", "wait", "sent", "landed"},
       does : {"none", "start", "undo", "restore"},
       by : {"none", "user", "scan", "timer", "connect", "takeover"},
       old : Record, wire : Companions \cup {None}]
IdleOp == [at |-> "idle", does |-> "none", by |-> "none", old |-> NoRecord, wire |-> None]

VARIABLES
    radio,     \* the settings in the flash of each companion
    home,      \* the settings its user regards as normal (no variable of the code)
    link,      \* the companion RTFM is connected to
    known,     \* self_info: its settings as far as RTFM knows
    setup,     \* the post-connect setup has its reconcile still to do
    sess,      \* the session record, in memory and in the database
    op,        \* the operation that holds the service lock
    timer,     \* the expiry task and the expiry it was started for
    scan,      \* a scan list is running
    takeover,  \* what the request that stopped the scan does next
    ext,       \* the expiry a queued scan extension asks for, 0 when none is queued
    patch,     \* the request of the settings page
    now,       \* the wall clock
    spent      \* how much of each bound is used

radioVars == <<radio, home>>
linkVars == <<link, known, setup>>
scanVars == <<scan, takeover, ext>>
vars == <<radioVars, linkVars, sess, op, timer, scanVars, patch, now, spent>>

NoTimer == [at |-> "none", for |-> 0]
NoPatch == [at |-> "none", to |-> None, ends |-> FALSE]

TypeOK ==
    /\ radio \in [Companions -> Settings]
    /\ home \in [Companions -> Settings]
    /\ link \in Companions \cup {None}
    /\ known \in Settings \cup {None}
    /\ setup \in BOOLEAN
    /\ sess \in Record
    /\ op \in Op
    /\ timer \in [at : {"none", "wait", "queued", "retry"}, for : Nat]
    /\ scan \in BOOLEAN
    /\ takeover \in {"none", "start", "restore"}
    /\ ext \in Nat
    /\ patch \in [at : {"none", "wait", "end"}, to : Settings \cup {None}, ends : BOOLEAN]
    /\ now \in 0 .. MaxNow
    /\ spent \in [Kinds -> Nat]
    /\ IF sess.active THEN None \notin {sess.key, sess.original, sess.temp} ELSE sess = NoRecord
    /\ op.at = "idle" => op = IdleOp

Init ==
    /\ radio = [c \in Companions |-> Normal]
    /\ home = [c \in Companions |-> Normal]
    /\ link = None /\ known = None /\ setup = FALSE
    /\ sess = NoRecord
    /\ op = IdleOp
    /\ timer = NoTimer
    /\ scan = FALSE /\ takeover = "none" /\ ext = 0
    /\ patch = NoPatch
    /\ now = 0
    /\ spent = [k \in Kinds |-> 0]

Within(s) == \E b \in Budgets : \A k \in Kinds : s[k] <= b[k]
Spend(k) == spent' = [spent EXCEPT ![k] = @ + 1] /\ Within(spent')

\* The service lock is free.
Free == op.at = "idle"
\* The session belongs to the companion that is connected now.
Owned == sess.active /\ sess.key = link
\* The radio is on settings this session put there.
Ours(r, s) == s \in {r.temp, r.prev}

\* Mutated form of Clear: only the active flag of the record is reset.
ClearMutated ==
    /\ sess' = [sess EXCEPT !.active = FALSE]
    /\ timer' = NoTimer
    /\ op' = IdleOp
\* _clear: no session, no expiry task; a running scan may be told to stop.
Clear ==
    /\ sess' = NoRecord
    /\ timer' = NoTimer
    /\ op' = IdleOp
\* Mutated form of Schedule: an expiry task that waits for the lock is not cancelled.
ScheduleMutated(r) ==
    timer' = IF timer.at = "queued" THEN timer ELSE [at |-> "wait", for |-> r.expires]
\* _schedule: one expiry task, for the expiry of the record given.
Schedule(r) == timer' = [at |-> "wait", for |-> r.expires]
\* The scan ends with its own restore unless its last session is gone.
ScanOver(r) ==
    /\ scan' = FALSE
    /\ takeover' = IF r.active /\ r.scan THEN "restore" ELSE "none"

-----------------------------------------------------------------------------
(* Starting a session *)

\* Mutated form of NewRecord: a restart takes the temporary settings for the normal ones.
NewRecordMutated(s, d, by) ==
    [active |-> TRUE, key |-> link, original |-> known,
     temp |-> s, prev |-> IF sess.active THEN sess.temp ELSE None,
     expires |-> now + d, pending |-> FALSE, scan |-> by = "scan"]
\* The record a start stores: while a session runs its original stays.
NewRecord(s, d, by) ==
    [active |-> TRUE, key |-> link,
     original |-> IF sess.active THEN sess.original ELSE known,
     temp |-> s, prev |-> IF sess.active THEN sess.temp ELSE None,
     expires |-> now + d, pending |-> FALSE, scan |-> by = "scan"]

\* A user or the next scan entry starts a session; a queued extension has the
\* service lock first.  Without a link, or with the session of another companion,
\* start raises and nothing changes.
StartBegin(by, s, d) ==
    /\ Free /\ ext = 0
    /\ link # None
    /\ sess.active => sess.key = link
    /\ (by = "scan") = scan
    /\ now + d <= MaxNow
    /\ Spend("start")
    /\ sess' = NewRecord(s, d, by)
    /\ op' = [at |-> "wait", does |-> "start", by |-> by, old |-> sess, wire |-> None]
    /\ takeover' = IF takeover = "start" THEN "none" ELSE takeover
    /\ UNCHANGED <<radioVars, linkVars, timer, scan, ext, patch, now>>

StartRefused ==
    /\ Free
    /\ link = None \/ (sess.active /\ sess.key # link)
    /\ \/ scan /\ ScanOver(sess)
       \/ takeover = "start" /\ takeover' = "none" /\ UNCHANGED scan
    /\ UNCHANGED <<radioVars, linkVars, sess, op, timer, ext, patch, now, spent>>

-----------------------------------------------------------------------------
(* Ending a session *)

\* _restore_locked of another companion's session: it stays, a restore is due.
RestoreElsewhere ==
    /\ Free /\ sess.active /\ sess.key # link
    /\ sess' = [sess EXCEPT !.pending = TRUE]
    /\ UNCHANGED op
\* The radio is back on the normal settings, or was changed elsewhere: the
\* session ends and the radio is left as it is.
RestoreEnds ==
    /\ Free /\ Owned
    /\ known = sess.original \/ ~Ours(sess, known)
    /\ Clear
\* Mutated form of RestoreSwitch: whatever radio is connected gets the settings.
RestoreSwitchMutated(by) ==
    /\ Free /\ sess.active
    /\ known # sess.original /\ known # None
    /\ op' = [at |-> "wait", does |-> "restore", by |-> by, old |-> NoRecord, wire |-> None]
    /\ UNCHANGED sess
\* The radio is on settings of this session: write the normal ones.
RestoreSwitch(by) ==
    /\ Free /\ Owned
    /\ known # sess.original /\ Ours(sess, known)
    /\ op' = [at |-> "wait", does |-> "restore", by |-> by, old |-> NoRecord, wire |-> None]
    /\ UNCHANGED sess

\* The restore request; the scan hears that its session ended.
UserRestore ==
    /\ \/ (RestoreElsewhere \/ RestoreSwitch("user")) /\ UNCHANGED <<timer, scan>>
       \/ RestoreEnds /\ scan' \in {scan, FALSE}
    /\ UNCHANGED <<radioVars, linkVars, takeover, ext, patch, now, spent>>

\* The restore that follows the stop or the end of a scan.
TakeoverRestore ==
    /\ takeover = "restore"
    /\ takeover' = "none"
    /\ \/ (RestoreElsewhere \/ RestoreSwitch("takeover")) /\ UNCHANGED timer
       \/ RestoreEnds
       \/ Free /\ ~sess.active /\ UNCHANGED <<sess, op, timer>>
    /\ UNCHANGED <<radioVars, linkVars, scan, ext, patch, now, spent>>

\* Back to normal between two entries of a scan.
ScanRestore ==
    /\ scan
    /\ \/ RestoreElsewhere /\ ScanOver(sess) /\ UNCHANGED timer
       \/ RestoreSwitch("scan") /\ UNCHANGED <<timer, scan, takeover>>
       \/ RestoreEnds /\ UNCHANGED <<scan, takeover>>
    /\ UNCHANGED <<radioVars, linkVars, ext, patch, now, spent>>

-----------------------------------------------------------------------------
(* The expiry task *)

\* handle_expiry with the service lock free.
Expire ==
    \/ RestoreSwitch("timer") /\ timer' = [timer EXCEPT !.at = "retry"] /\ UNCHANGED scan
    \/ RestoreElsewhere /\ timer' = NoTimer /\ UNCHANGED scan
    \/ RestoreEnds /\ scan' \in {scan, FALSE}
    \/ Free /\ ~sess.active /\ timer' = NoTimer /\ UNCHANGED <<sess, op, scan>>

\* The session is still the one this task was started for.
TimerCurrent == sess.active /\ sess.expires = timer.for

TimerWake ==
    /\ timer.at = "wait"
    /\ \/ ~TimerCurrent /\ timer' = NoTimer /\ UNCHANGED <<sess, op, scan>>
       \/ TimerCurrent /\ now >= timer.for /\ Expire
       \/ /\ TimerCurrent /\ now >= timer.for /\ ~Free
          /\ timer' = [timer EXCEPT !.at = "queued"]
          /\ UNCHANGED <<sess, op, scan>>
    /\ UNCHANGED <<radioVars, linkVars, takeover, ext, patch, now, spent>>

\* The lock became free for the waiting task, or its retry delay is over.
TimerRestore ==
    /\ timer.at \in {"queued", "retry"}
    /\ Expire
    /\ UNCHANGED <<radioVars, linkVars, takeover, ext, patch, now, spent>>

-----------------------------------------------------------------------------
(* The command of the operation that holds the service lock *)

Target == IF op.does = "restore" \/ (op.does = "undo" /\ ~op.old.active)
          THEN sess.original
          ELSE IF op.does = "start" THEN sess.temp ELSE op.old.temp

\* The radio operation lock is held; the companion is the one connected now.
Acquire ==
    /\ op.at = "wait" /\ link # None
    /\ op' = [op EXCEPT !.at = "sent", !.wire = link]
    /\ UNCHANGED <<radioVars, linkVars, sess, timer, scanVars, patch, now, spent>>

Land ==
    /\ op.at = "sent" /\ op.wire # None
    /\ radio' = [radio EXCEPT ![op.wire] = Target]
    /\ op' = [op EXCEPT !.at = "landed"]
    /\ UNCHANGED <<home, linkVars, sess, timer, scanVars, patch, now, spent>>

\* The switch returned: go on with what it was for.
StartDone ==
    /\ op.does = "start"
    /\ op' = IdleOp /\ Schedule(sess)
    /\ UNCHANGED <<sess, scan, takeover>>
\* Mutated form of UndoDone: the session that comes back gets no expiry task.
UndoDoneMutated ==
    /\ op.does = "undo"
    /\ IF op.old.active
         THEN sess' = op.old /\ timer' = NoTimer /\ op' = IdleOp
         ELSE Clear
    /\ IF op.by = "scan" THEN ScanOver(op.old) ELSE UNCHANGED <<scan, takeover>>
UndoDone ==
    /\ op.does = "undo"
    /\ IF op.old.active
         THEN sess' = op.old /\ Schedule(op.old) /\ op' = IdleOp
         ELSE Clear
    /\ IF op.by = "scan" THEN ScanOver(op.old) ELSE UNCHANGED <<scan, takeover>>
RestoreDone ==
    /\ op.does = "restore"
    /\ Clear
    /\ scan' \in (IF op.by = "scan" THEN {scan} ELSE {scan, FALSE})
    /\ UNCHANGED takeover
Done == StartDone \/ UndoDone \/ RestoreDone

\* The switch raised.
StartFails ==
    /\ op.does = "start"
    /\ op' = [op EXCEPT !.at = "wait", !.does = "undo", !.wire = None]
    /\ UNCHANGED <<sess, timer, scan, takeover>>
UndoFails ==
    /\ op.does = "undo"
    /\ sess' = [sess EXCEPT !.pending = TRUE]
    /\ op' = IdleOp
    /\ IF op.by = "scan" THEN ScanOver(sess) ELSE UNCHANGED <<scan, takeover>>
    /\ UNCHANGED timer
\* Mutated form of RestoreFails: the expiry task gives up and nothing is noted.
RestoreFailsMutated ==
    /\ op.does = "restore"
    /\ op' = IdleOp
    /\ timer' = NoTimer
    /\ IF op.by = "scan" THEN ScanOver(sess) ELSE UNCHANGED <<scan, takeover>>
    /\ UNCHANGED sess
\* The expiry task tries again while this radio stays connected.
RestoreFails ==
    /\ op.does = "restore"
    /\ sess' = [sess EXCEPT !.pending = TRUE]
    /\ op' = IdleOp
    /\ IF op.by = "timer" /\ link # sess.key THEN timer' = NoTimer ELSE UNCHANGED timer
    /\ IF op.by = "scan" THEN ScanOver(sess) ELSE UNCHANGED <<scan, takeover>>
Raises == StartFails \/ UndoFails \/ RestoreFails

\* The command was confirmed and self_info read again.
SwitchOk ==
    /\ op.at = "landed" /\ op.wire # None
    /\ known' = Target
    /\ Done
    /\ UNCHANGED <<radioVars, link, setup, ext, patch, now, spent>>

\* No error came back, but no confirmation either: set_radio answered nothing,
\* or the answer to send_appstart is missing.
SwitchSilent ==
    /\ op.at \in {"sent", "landed"} /\ op.wire # None
    /\ Spend("silent")
    /\ known' \in {known, radio[op.wire]}
    /\ Done
    /\ UNCHANGED <<radioVars, link, setup, ext, patch, now>>

\* The link is gone, or the radio refused, or its answer was lost.
SwitchFails ==
    /\ \/ op.at = "wait" /\ link = None /\ UNCHANGED spent
       \/ op.at \in {"sent", "landed"} /\ op.wire = None /\ UNCHANGED spent
       \/ op.at = "sent" /\ op.wire # None /\ Spend("refuse")
       \/ op.at = "landed" /\ op.wire # None /\ Spend("lost")
    /\ Raises
    /\ UNCHANGED <<radioVars, linkVars, ext, patch, now>>

-----------------------------------------------------------------------------
(* Reconcile, once per connect *)

\* A scan does not resume and an overdue or failed restore is made up for.
RestoreDue == sess.scan \/ sess.pending \/ now >= sess.expires

Reconcile ==
    /\ setup /\ Free
    /\ setup' = FALSE
    /\ \/ ~Owned /\ UNCHANGED <<sess, op, timer, scan>>
       \/ /\ Owned /\ Ours(sess, known) /\ RestoreDue
          /\ \/ RestoreSwitch("connect") /\ UNCHANGED <<timer, scan>>
             \/ RestoreEnds /\ scan' \in {scan, FALSE}
       \/ Owned /\ Ours(sess, known) /\ ~RestoreDue /\ Schedule(sess) /\ UNCHANGED <<sess, op, scan>>
       \/ Owned /\ ~Ours(sess, known) /\ Clear /\ scan' \in {scan, FALSE}
    /\ UNCHANGED <<radioVars, link, known, takeover, ext, patch, now, spent>>

-----------------------------------------------------------------------------
(* The scanner *)

RunScan ==
    /\ ~scan /\ takeover # "restore" /\ link # None
    /\ Within([spent EXCEPT !["start"] = @ + 1])
    /\ scan' = TRUE /\ takeover' = "none"
    /\ UNCHANGED <<radioVars, linkVars, sess, op, timer, ext, patch, now, spent>>

\* All rounds done.
ScanFinish ==
    /\ scan /\ Free
    /\ ScanOver(sess)
    /\ UNCHANGED <<radioVars, linkVars, sess, op, timer, ext, patch, now, spent>>

\* Stop the scan: its task is cancelled wherever it is, a switch of its own
\* included; neither an undo nor a pending restore follows.
ScanCancel(next) ==
    /\ scan /\ takeover = "none"
    /\ next = "none" => patch.at = "end"
    /\ IF ~Free /\ op.by = "scan" THEN op' = IdleOp /\ Spend("cancel") ELSE UNCHANGED <<op, spent>>
    /\ scan' = FALSE
    /\ takeover' = IF next = "restore" /\ ~(sess.active /\ sess.scan) THEN "none" ELSE next
    /\ UNCHANGED <<radioVars, linkVars, sess, timer, ext, patch, now>>

\* on_activity: a packet is heard on a scan entry, an extension is queued.
ScanHeard(d) ==
    /\ scan /\ sess.scan /\ ext = 0
    /\ now + d <= MaxNow
    /\ ext' = now + d
    /\ UNCHANGED <<radioVars, linkVars, sess, op, timer, scan, takeover, patch, now, spent>>

\* extend_to
Extend ==
    /\ ext # 0 /\ Free
    /\ ext' = 0
    /\ IF sess.active /\ ext > sess.expires
         THEN sess' = [sess EXCEPT !.expires = ext] /\ Schedule(sess')
         ELSE UNCHANGED <<sess, timer>>
    /\ UNCHANGED <<radioVars, linkVars, op, scan, takeover, patch, now, spent>>

-----------------------------------------------------------------------------
(* The radio settings page *)

\* Whether the save ends the session is decided before the radio lock; while
\* settings are being switched the current ones count as unknown.
PatchBegin(s) ==
    /\ patch = NoPatch /\ link # None
    /\ Spend("patch")
    /\ patch' = [at |-> "wait", to |-> s, ends |-> Owned /\ (~Free \/ known # s)]
    /\ UNCHANGED <<radioVars, linkVars, sess, op, timer, scanVars, now>>

PatchApply ==
    /\ patch.at = "wait" /\ link # None
    /\ op.at \notin {"sent", "landed"}
    /\ radio' = [radio EXCEPT ![link] = patch.to]
    /\ home' = [home EXCEPT ![link] = patch.to]
    /\ known' = patch.to
    /\ patch' = IF patch.ends THEN [patch EXCEPT !.at = "end"] ELSE NoPatch
    /\ UNCHANGED <<link, setup, sess, op, timer, scanVars, now, spent>>

PatchRefused ==
    /\ patch.at = "wait" /\ link = None
    /\ patch' = NoPatch
    /\ UNCHANGED <<radioVars, linkVars, sess, op, timer, scanVars, now, spent>>

\* end_as_new_normal, with the scan stopped first.
PatchEnd ==
    /\ patch.at = "end" /\ ~scan /\ Free
    /\ patch' = NoPatch
    /\ IF sess.active THEN Clear ELSE UNCHANGED <<sess, op, timer>>
    /\ UNCHANGED <<radioVars, linkVars, scanVars, now, spent>>

-----------------------------------------------------------------------------
(* The link, other programs, the process and the clock *)

Disconnect ==
    /\ link # None
    /\ link' = None /\ known' = None /\ setup' = FALSE
    /\ op' = [op EXCEPT !.wire = None]
    /\ UNCHANGED <<radioVars, sess, timer, scanVars, patch, now, spent>>

Connect(c) ==
    /\ link = None
    /\ link' = c /\ known' = radio[c] /\ setup' = TRUE
    /\ IF c # sess.key /\ (~Free \/ patch.at = "wait") THEN Spend("swap") ELSE UNCHANGED spent
    /\ UNCHANGED <<radioVars, sess, op, timer, scanVars, patch, now>>

ChangeElsewhere(c, s) ==
    /\ link # c
    /\ spent' = [spent EXCEPT !["edit"] = @ + 1, !["swap"] = @ + (IF Free THEN 0 ELSE 1)]
    /\ Within(spent')
    /\ radio' = [radio EXCEPT ![c] = s]
    /\ home' = [home EXCEPT ![c] = s]
    /\ UNCHANGED <<linkVars, sess, op, timer, scanVars, patch, now>>

\* Only the stored record is left.
Crash ==
    /\ Spend("crash")
    /\ link' = None /\ known' = None /\ setup' = FALSE
    /\ op' = IdleOp /\ timer' = NoTimer
    /\ scan' = FALSE /\ takeover' = "none" /\ ext' = 0
    /\ patch' = NoPatch
    /\ UNCHANGED <<radioVars, sess, now>>

Tick ==
    /\ now < MaxNow
    /\ now' = now + 1
    /\ UNCHANGED <<radioVars, linkVars, sess, op, timer, scanVars, patch, spent>>

-----------------------------------------------------------------------------
UserStep ==
    \/ \E by \in {"user", "scan"}, s \in Temps, d \in Durations : StartBegin(by, s, d)
    \/ UserRestore \/ RunScan
    \/ \E next \in {"none", "start", "restore"} : ScanCancel(next)
    \/ \E s \in Others : PatchBegin(s)
SwitchStep == Acquire \/ Land \/ SwitchOk \/ SwitchSilent \/ SwitchFails
TimerStep == TimerWake \/ TimerRestore
TaskStep == StartRefused \/ TakeoverRestore \/ ScanRestore \/ ScanFinish \/ Extend
            \/ PatchApply \/ PatchRefused \/ PatchEnd
WorldStep ==
    \/ Disconnect \/ Crash \/ Tick
    \/ \E c \in Companions : Connect(c) \/ \E s \in Others : ChangeElsewhere(c, s)
    \/ \E d \in Durations : ScanHeard(d)

Next == UserStep \/ SwitchStep \/ TimerStep \/ TaskStep \/ Reconcile \/ WorldStep

Spec == Init /\ [][Next]_vars

\* The clock runs, and the event loop runs a task that can go on; the radio
\* answers a command, or the library reports that it did not.
TaskProgress == SwitchStep \/ TimerStep \/ Reconcile \/ TakeoverRestore
                \/ PatchApply \/ PatchEnd \/ ScanCancel("none")
Fairness == WF_vars(Tick) /\ WF_vars(TaskProgress)
FairSpec == Spec /\ Fairness

-----------------------------------------------------------------------------
(* What the sessions promise *)

\* "A restart or a dropped link must never strand the companion": one that is left on
\* settings other than its normal ones has a session that will end them.
NoneForgotten == \A c \in Companions : radio[c] # home[c] => sess.active /\ sess.key = c

\* A companion is on its normal settings, or the stored record knows them and
\* recognises what the radio is on: a restart, a dropped link or a failed
\* command at any await of a start, an undo or a restore loses neither.
NeverStranded ==
    \A c \in Companions :
        radio[c] = home[c] \/ /\ sess.active /\ sess.key = c
                              /\ sess.original = home[c]
                              /\ Ours(sess, radio[c])

\* With its companion connected and reconciled and nobody at work on it, a session
\* has someone who will end it: its expiry task, the scan or the request that
\* stopped it, the settings page, or the restore due on the next connect.  Tasks that
\* cancel each other's expiry task must not leave it without one.
SessionHasOwner ==
    Owned /\ ~setup /\ Free =>
        \/ sess.pending
        \/ timer = [at |-> "wait", for |-> sess.expires]
        \/ timer.at \in {"queued", "retry"}
        \/ takeover # "none" \/ (scan /\ sess.scan)
        \/ patch.at = "end" /\ patch.ends

\* The expiry task never ends a session early: not one that was started again
\* or extended while the task slept or waited for the lock.
TimerOnTime ==
    [][TimerStep /\ sess.active /\ (op' # op \/ ~sess'.active)
       => now >= sess.expires \/ sess.pending]_vars

\* "Never write one companion's settings to another one": a command of a session
\* goes to the companion the session belongs to.
OnlyOwnCompanion == op.wire # None => op.wire = sess.key

\* While its companion stays connected a session ends, or its restore failed and
\* it waits for the next connect without an expiry task, or the request that stopped
\* its scan is about to replace it.
EndsOrParked ==
    Owned ~> ~Owned \/ (sess.pending /\ timer.at # "retry") \/ takeover = "start"
=============================================================================
