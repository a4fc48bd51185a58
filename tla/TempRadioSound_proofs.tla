----------------------- MODULE TempRadioSound_proofs -----------------------
(***************************************************************************)
(* The gaps of TempRadioSound are all there are: for any companions,       *)
(* settings, durations and bounds, no companion is stranded before the     *)
(* first of them is entered.                                               *)
(***************************************************************************)
EXTENDS TempRadioSound, TempRadio_proofs

\* Nobody's normal settings are temporary ones.
Plain ==
    /\ home \in [Companions -> Others \cup {Normal}]
    /\ {sess.temp, sess.prev, op.old.temp, op.old.prev} \subseteq Temps \cup {None}
    /\ patch.at # "none" => patch.to \in Others
\* A command goes to the session's companion, and is there once it has landed.
Wired == op.wire # None => /\ op.wire = sess.key
                           /\ op.at = "landed" => radio[op.wire] = Target
\* An operation works on a session that remembers the normal settings, and what it
\* replaced is of the same companion.
AtWork ==
    op.at # "idle" =>
        /\ sess.original = home[sess.key]
        /\ op.old.active => /\ op.old.key = sess.key /\ op.old.original = sess.original
                            /\ op.old.temp = sess.prev
\* A session that outlives wrong information on its radio remembers the normal settings.
Stale == Owned /\ known # radio[link] => sess.original = home[link]
\* The settings page ends a session whose radio is on the new normal settings.
Ending ==
    patch.at = "end" => /\ Free
                        /\ link # None => known = radio[link]
                        /\ sess.active => radio[sess.key] = home[sess.key]

Core == Plain /\ Wired /\ AtWork /\ Stale /\ Ending /\ NeverStranded

----------------------------------------------------------------------------
(* What a step can do *)

\* The session is still the same one, with its settings.
SameSession ==
    /\ sess'.active = sess.active /\ sess'.key = sess.key /\ sess'.original = sess.original
    /\ sess'.temp = sess.temp /\ sess'.prev = sess.prev
\* Neither a radio nor what is known of one changes, and the settings page goes on to
\* nothing but a new save.
Calm == /\ UNCHANGED <<radio, home, link, known>>
        /\ patch' = patch \/ patch' = NoPatch \/ (patch'.at = "wait" /\ patch'.to \in Others)
Same == SameSession /\ (op' = op \/ op' = IdleOp)
Starts == \E by \in {"user", "scan"}, s \in Temps, d \in Durations : StartBegin(by, s, d)
Switches == \E by \in {"user", "scan", "timer", "connect", "takeover"} : RestoreSwitch(by)
Connects == \E c \in Companions : Connect(c)
Changes == \E c \in Companions, s \in Others : ChangeElsewhere(c, s)
\* The session ends because the radio needs nothing more.
SessionEnds ==
    /\ Free /\ Owned
    /\ known = sess.original \/ ~Ours(sess, known)
    /\ sess' = NoRecord /\ op' = IdleOp
\* The settings page ends it.
PageEnds == /\ patch.at = "end" /\ patch' = NoPatch /\ sess.active
            /\ sess' = NoRecord /\ op' = IdleOp
            /\ UNCHANGED <<radio, home, link, known>>

\* What a step does to the radio, the link and the session.
LEMMA Effects ==
    ASSUME TypeInv, [Next]_vars
    PROVE  \/ Calm /\ (Same \/ Switches \/ SessionEnds)
           \/ Starts \/ Acquire \/ Land \/ SwitchOk \/ SwitchSilent \/ SwitchFails
           \/ PatchApply \/ PageEnds \/ Disconnect \/ Crash \/ Connects \/ Changes
<1> DEFINE Goal == \/ Calm /\ (Same \/ Switches \/ SessionEnds)
                   \/ Starts \/ Acquire \/ Land \/ SwitchOk \/ SwitchSilent \/ SwitchFails
                   \/ PatchApply \/ PageEnds \/ Disconnect \/ Crash \/ Connects \/ Changes
<1>0. sess \in Record
    BY DEF TypeInv, Sessions
<1>1. UNCHANGED <<radioVars, link, known, patch>> => Calm
    BY DEF radioVars, Calm
<1>2. UNCHANGED <<sess, op>> => Same
    BY DEF Same, SameSession
<1>3. RestoreElsewhere => Same
    <2> SUFFICES ASSUME RestoreElsewhere PROVE Same
        OBVIOUS
    <2>1. sess' = [sess EXCEPT !.pending = TRUE] /\ op' = op
        BY DEF RestoreElsewhere
    <2>2. QED
        BY <1>0, <2>1 DEF Record, Same, SameSession
<1>4. RestoreEnds => SessionEnds
    BY DEF RestoreEnds, SessionEnds, Clear
<1>5. \A by \in {"user", "scan", "timer", "connect", "takeover"} : RestoreSwitch(by) => Switches
    BY DEF Switches
<1>6. CASE UserStep
    <2>1. CASE Starts
        BY <2>1
    <2>2. CASE UserRestore
        <3>1. UNCHANGED <<radioVars, link, known, patch>>
            BY <2>2 DEF UserRestore, linkVars
        <3>2. RestoreElsewhere \/ RestoreSwitch("user") \/ RestoreEnds
            BY <2>2, Zenon DEF UserRestore
        <3>3. QED
            BY <1>1, <1>3, <1>4, <1>5, <3>1, <3>2
    <2>3. CASE RunScan \/ (\E next \in {"none", "start", "restore"} : ScanCancel(next))
        <3>1. UNCHANGED <<radioVars, link, known, patch>>
            BY <2>3 DEF RunScan, ScanCancel, linkVars
        <3>2. sess' = sess /\ (op' = op \/ op' = IdleOp)
            BY <2>3 DEF RunScan, ScanCancel
        <3>3. Same
            BY <3>2 DEF Same, SameSession
        <3>4. QED
            BY <1>1, <3>1, <3>3
    <2>4. ASSUME NEW s \in Others, PatchBegin(s)
          PROVE  Goal
        <3>1. UNCHANGED <<radioVars, link, known, sess, op>> /\ patch'.at = "wait" /\ patch'.to = s
            BY <2>4 DEF PatchBegin, linkVars
        <3>2. QED
            BY <1>2, <3>1 DEF Calm, radioVars
    <2>5. QED
        BY <1>6, <2>1, <2>2, <2>3, <2>4 DEF UserStep, Starts
<1>7. CASE SwitchStep
    BY <1>7 DEF SwitchStep
<1>8. CASE TimerStep
    <2>1. UNCHANGED <<radioVars, link, known, patch>>
        BY <1>8 DEF TimerStep, TimerWake, TimerRestore, linkVars
    <2>2. \/ RestoreElsewhere \/ RestoreSwitch("timer") \/ RestoreEnds
          \/ UNCHANGED <<sess, op>>
        BY <1>8, Zenon DEF TimerStep, TimerWake, TimerRestore, Expire
    <2>3. QED
        BY <1>1, <1>2, <1>3, <1>4, <1>5, <2>1, <2>2
<1>9. CASE TaskStep
    <2>1. CASE PatchRefused \/ (PatchEnd /\ ~sess.active)
        <3>1. UNCHANGED <<radioVars, link, known, sess, op>> /\ patch' = NoPatch
            BY <2>1 DEF PatchRefused, PatchEnd, linkVars
        <3>2. QED
            BY <1>2, <3>1 DEF Calm, radioVars
    <2>2. CASE PatchEnd /\ sess.active
        <3>1. PageEnds
            BY <2>2 DEF PatchEnd, PageEnds, Clear, radioVars, linkVars
        <3>2. QED
            BY <3>1
    <2>3. CASE Extend
        <3>1. op' = op /\ UNCHANGED <<radioVars, link, known, patch>>
            BY <2>3, Zenon DEF Extend, linkVars
        <3>2. sess' = sess \/ sess' = [sess EXCEPT !.expires = ext]
            BY <2>3, Zenon DEF Extend
        <3>3. Same
            BY <1>0, <3>1, <3>2 DEF Same, SameSession, Record
        <3>4. QED
            BY <1>1, <3>1, <3>3
    <2>4. CASE TakeoverRestore \/ ScanRestore
        <3>1. \/ RestoreElsewhere \/ RestoreSwitch("takeover") \/ RestoreSwitch("scan")
              \/ RestoreEnds \/ UNCHANGED <<sess, op>>
            BY <2>4, Zenon DEF TakeoverRestore, ScanRestore
        <3>2. UNCHANGED <<radioVars, link, known, patch>>
            BY <2>4 DEF TakeoverRestore, ScanRestore, linkVars
        <3>3. QED
            BY <1>1, <1>2, <1>3, <1>4, <1>5, <3>1, <3>2
    <2>5. CASE StartRefused \/ ScanFinish
        <3>1. UNCHANGED <<sess, op>> /\ UNCHANGED <<radioVars, link, known, patch>>
            BY <2>5 DEF StartRefused, ScanFinish, linkVars
        <3>2. QED
            BY <1>1, <1>2, <3>1
    <2>6. QED
        BY <1>9, <2>1, <2>2, <2>3, <2>4, <2>5 DEF TaskStep
<1>10. CASE Reconcile
    <2>1. UNCHANGED <<radioVars, link, known, patch>>
        BY <1>10 DEF Reconcile
    <2>2. \/ UNCHANGED <<sess, op>> \/ RestoreSwitch("connect") \/ RestoreEnds
          \/ Free /\ Owned /\ ~Ours(sess, known) /\ Clear
        BY <1>10, Zenon DEF Reconcile
    <2>3. Free /\ Owned /\ ~Ours(sess, known) /\ Clear => SessionEnds
        BY DEF SessionEnds, Clear
    <2>4. QED
        BY <1>1, <1>2, <1>4, <1>5, <2>1, <2>2, <2>3
<1>11. CASE WorldStep
    <2>1. CASE Tick \/ \E d \in Durations : ScanHeard(d)
        <3>1. UNCHANGED <<radioVars, link, known, patch>> /\ UNCHANGED <<sess, op>>
            BY <2>1 DEF Tick, ScanHeard, linkVars
        <3>2. QED
            BY <1>1, <1>2, <3>1
    <2>2. QED
        BY <1>11, <2>1 DEF WorldStep, Connects, Changes
<1>12. CASE UNCHANGED vars
    <2>1. UNCHANGED <<radioVars, link, known, patch>> /\ UNCHANGED <<sess, op>>
        BY <1>12 DEF vars, linkVars
    <2>2. QED
        BY <1>1, <1>2, <2>1
<1>13. QED
    BY <1>6, <1>7, <1>8, <1>9, <1>10, <1>11, <1>12 DEF Next

----------------------------------------------------------------------------
(* What the invariant says *)

LEMMA CoreFacts ==
    ASSUME TypeInv, Core
    PROVE  /\ sess \in Record /\ op \in Op /\ op.old \in Record
           /\ radio \in [Companions -> Settings] /\ home \in [Companions -> Settings]
           /\ link # None => link \in Companions /\ known # None
           /\ sess.active => /\ sess.key \in Companions /\ sess.original # None /\ sess.temp # None
                             /\ sess.original \in Settings /\ sess.temp \in Temps
           /\ \A c \in Companions : home[c] \notin Temps \cup {None}
           /\ op.at # "idle" => sess.active
           /\ op.wire # None => /\ op.wire = link /\ op.wire = sess.key /\ op.wire \in Companions
                                /\ op.at \in {"sent", "landed"}
           /\ op.at = "idle" => op = IdleOp
           /\ op.at = "idle" <=> Free
<1>1. Links /\ Sessions /\ Plain /\ Wired
    BY DEF TypeInv, Core
<1>2. /\ sess \in Record /\ op \in Op /\ op.old \in Record /\ RecordOk(sess)
      /\ op.at = "idle" => op = IdleOp
      /\ op.at # "idle" => sess.active
      /\ op.wire # None => op.wire = link /\ op.at \in {"sent", "landed"}
    BY <1>1 DEF Sessions, Op
<1>3. /\ radio \in [Companions -> Settings] /\ home \in [Companions -> Settings]
      /\ link # None => link \in Companions /\ known # None
    BY <1>1 DEF Links
<1>4. \A c \in Companions : home[c] \notin Temps \cup {None}
    <2>1. home \in [Companions -> Others \cup {Normal}]
        BY <1>1 DEF Plain
    <2>2. (Others \cup {Normal}) \cap (Temps \cup {None}) = {}
        BY SettingsAssumption
    <2>3. QED
        BY <2>1, <2>2
<1>5. sess.active => /\ sess.key \in Companions /\ sess.original # None /\ sess.temp # None
                     /\ sess.original \in Settings /\ sess.temp \in Temps
    BY <1>1, <1>2 DEF RecordOk, Record, Plain
<1>6. op.wire # None => op.wire = sess.key /\ op.wire \in Companions
    BY <1>1, <1>2, <1>3 DEF Wired
<1>7. QED
    BY <1>2, <1>3, <1>4, <1>5, <1>6 DEF Free

\* What a session and the radio it is connected to have to do with each other.
LEMMA OwnedFacts ==
    ASSUME TypeInv, Core, Owned
    PROVE  /\ sess.key \in Companions /\ link # None /\ known # None
           /\ known # radio[link] \/ Ours(sess, known) => sess.original = home[link]
           /\ known = radio[link] /\ (known = sess.original \/ ~Ours(sess, known))
                => radio[link] = home[link]
           /\ radio[link] \in {sess.original, sess.temp}
                => sess.original = home[link] /\ radio[link] \in {home[link], sess.temp}
           /\ Ours(sess, known) => known \in Temps
<1>1. /\ sess.active /\ sess.key = link /\ sess.key \in Companions
      /\ link # None /\ known # None
      /\ home[sess.key] \notin Temps \cup {None}
      /\ sess.temp \in Temps
    BY CoreFacts, NoneIsNothing DEF Owned
<1>2. \/ radio[sess.key] = home[sess.key]
      \/ sess.original = home[sess.key] /\ Ours(sess, radio[sess.key])
    BY <1>1 DEF Core, NeverStranded
<1>3. Ours(sess, known) => known \in Temps
    BY <1>1 DEF Ours, Core, Plain
<1>4. known # radio[link] => sess.original = home[link]
    BY DEF Core, Stale
<1>5. QED
    BY <1>1, <1>2, <1>3, <1>4

\* What an operation is about to write keeps the radio of its session recognisable.
LEMMA TargetIsSafe ==
    ASSUME TypeInv, Core, op.at # "idle"
    PROVE  /\ Target = home[sess.key] \/ (sess.original = home[sess.key] /\ Ours(sess, Target))
           /\ op.does = "restore" \/ (op.does = "undo" /\ ~op.old.active) => Target = home[sess.key]
           /\ op.does = "undo" /\ op.old.active =>
                 /\ Target = op.old.temp /\ op.old.key = sess.key
                 /\ op.old.original = home[sess.key]
<1>1. AtWork /\ Sessions /\ op \in Op
    BY DEF Core, TypeInv, Sessions
<1>2. op.does \in {"start", "undo", "restore"}
    BY <1>1 DEF Sessions, Op
<1>3. sess.original = home[sess.key]
    BY <1>1 DEF AtWork
<1>4. op.old.active => op.old.key = sess.key /\ op.old.original = sess.original /\ op.old.temp = sess.prev
    BY <1>1 DEF AtWork
<1>5. QED
    BY <1>2, <1>3, <1>4 DEF Target, Ours

----------------------------------------------------------------------------
(* The steps *)

\* Steps that leave the radio and the link alone.
LEMMA CalmKeeps ==
    ASSUME TypeInv, Core, Calm, Same \/ Switches \/ SessionEnds, ~Blind
    PROVE  Core'
<1>0. Plain /\ Wired /\ AtWork /\ Stale /\ Ending /\ NeverStranded
    BY DEF Core
<1>1. /\ radio' = radio /\ home' = home /\ link' = link /\ known' = known
      /\ patch' = patch \/ patch' = NoPatch \/ (patch'.at = "wait" /\ patch'.to \in Others)
    BY DEF Calm
<1>2. /\ patch'.at = "end" => patch' = patch
      /\ patch'.at # "none" => patch'.to \in Others
    BY <1>0, <1>1, EmptyTypes DEF Plain
<1>3. CASE Same
    <2>1. /\ sess'.active = sess.active /\ sess'.key = sess.key /\ sess'.original = sess.original
          /\ sess'.temp = sess.temp /\ sess'.prev = sess.prev /\ (op' = op \/ op' = IdleOp)
        BY <1>3 DEF Same, SameSession
    <2>2. op' = op => Target' = Target
        BY <2>1 DEF Target
    <2>3. Plain'
        BY <1>0, <1>1, <1>2, <2>1, EmptyTypes DEF Plain, NoRecord
    <2>4. Wired' /\ AtWork'
        BY <1>0, <1>1, <2>1, <2>2, EmptyTypes DEF Wired, AtWork
    <2>5. Stale' /\ Ending'
        BY <1>0, <1>1, <1>2, <2>1, EmptyTypes DEF Stale, Ending, Owned, Free
    <2>6. NeverStranded'
        BY <1>0, <1>1, <2>1 DEF NeverStranded, Ours
    <2>7. QED
        BY <2>3, <2>4, <2>5, <2>6 DEF Core
<1>4. CASE Switches
    <2>1. PICK by \in {"user", "scan", "timer", "connect", "takeover"} : RestoreSwitch(by)
        BY <1>4 DEF Switches
    <2> DEFINE o == [at |-> "wait", does |-> "restore", by |-> by, old |-> NoRecord, wire |-> None]
    <2>2. sess' = sess /\ op' = o /\ Free /\ Owned /\ Ours(sess, known)
        BY <2>1 DEF RestoreSwitch
    <2>3. o.at = "wait" /\ o.old = NoRecord /\ o.wire = None
        OBVIOUS
    <2> HIDE DEF o
    <2>4. sess.original = home[sess.key] /\ known \in Temps /\ link # None /\ sess.key = link
        BY <2>2, OwnedFacts DEF Owned
    <2>5. patch'.at # "end"
        <3>1. home[link] \notin Temps
            BY <2>4, CoreFacts
        <3>2. QED
            BY <1>0, <1>2, <2>2, <2>4, <3>1 DEF Ending, Owned
    <2>6. Plain'
        BY <1>0, <1>1, <1>2, <2>2, <2>3 DEF Plain, NoRecord
    <2>7. Wired' /\ AtWork' /\ Ending'
        BY <1>1, <2>2, <2>3, <2>4, <2>5, EmptyTypes DEF Wired, AtWork, Ending
    <2>8. Stale' /\ NeverStranded'
        BY <1>0, <1>1, <2>2 DEF Stale, Owned, NeverStranded, Ours
    <2>9. QED
        BY <2>6, <2>7, <2>8 DEF Core
<1>5. CASE SessionEnds
    <2>1. /\ sess' = NoRecord /\ op' = IdleOp /\ Free /\ Owned
          /\ known = sess.original \/ ~Ours(sess, known)
        BY <1>5 DEF SessionEnds
    <2>2. known = radio[link] /\ sess.key = link
        BY <2>1, OwnedFacts, EmptyTypes DEF Blind, Owned
    <2>3. \A c \in Companions : radio[c] = home[c]
        BY <1>0, <2>1, <2>2, OwnedFacts DEF NeverStranded
    <2>4. ~sess'.active /\ Plain'
        BY <1>0, <1>1, <1>2, <2>1, EmptyTypes DEF Plain, NoRecord
    <2>5. NeverStranded' /\ Stale' /\ Ending'
        BY <1>1, <2>1, <2>2, <2>3, <2>4, EmptyTypes DEF NeverStranded, Stale, Owned, Ending, Free
    <2>6. Wired' /\ AtWork'
        BY <2>1, EmptyTypes DEF Wired, AtWork
    <2>7. QED
        BY <2>4, <2>5, <2>6 DEF Core
<1>6. QED
    BY <1>3, <1>4, <1>5

\* A session begins, or follows another one.
LEMMA StartKeeps ==
    ASSUME TypeInv, Core, NEW by \in {"user", "scan"}, NEW s \in Temps, NEW d \in Durations,
           StartBegin(by, s, d), ~Blind, ~Hasty, ~PageRace
    PROVE  Core'
<1>0. Plain /\ Stale /\ Ending /\ NeverStranded
    BY DEF Core
<1> DEFINE r == NewRecord(s, d, by)
           o == [at |-> "wait", does |-> "start", by |-> by, old |-> sess, wire |-> None]
<1>1. /\ sess' = r /\ op' = o /\ Free /\ link # None /\ (sess.active => sess.key = link)
      /\ radio' = radio /\ home' = home /\ link' = link /\ known' = known /\ patch' = patch
    BY DEF StartBegin, radioVars, linkVars
<1>2. /\ o.at = "wait" /\ o.does = "start" /\ o.old = sess /\ o.wire = None
    OBVIOUS
<1>3. /\ r.active /\ r.key = link /\ r.temp = s
      /\ r.original = (IF sess.active THEN sess.original ELSE known)
      /\ r.prev = (IF sess.active THEN sess.temp ELSE None)
    BY DEF NewRecord
<1> HIDE DEF r, o
<1>4. link \in Companions /\ patch.at # "end"
    BY <1>1, <1>2, CoreFacts DEF PageRace
<1>5. r.original = home[link] /\ (radio[link] = home[link] \/ (sess.active /\ radio[link] = sess.temp))
    <2>1. CASE sess.active
        <3>1. Owned /\ radio[link] \in {sess.original, sess.temp}
            BY <1>1, <1>2, <2>1 DEF Hasty, Owned
        <3>2. QED
            BY <1>3, <2>1, <3>1, OwnedFacts
    <2>2. CASE ~sess.active
        <3>1. known = radio[link]
            BY <1>1, <1>3, <2>2 DEF Blind
        <3>2. QED
            BY <1>0, <1>3, <1>4, <2>2, <3>1 DEF NeverStranded
    <2>3. QED
        BY <2>1, <2>2
<1>6. Plain'
    <2>1. sess.temp \in Temps \cup {None} /\ sess.prev \in Temps \cup {None}
        BY <1>0 DEF Plain
    <2>2. r.temp \in Temps \cup {None} /\ r.prev \in Temps \cup {None}
        BY <1>3, <2>1
    <2>3. QED
        BY <1>0, <1>1, <1>2, <2>1, <2>2 DEF Plain
<1>7. AtWork' /\ Wired' /\ Stale' /\ Ending'
    BY <1>1, <1>2, <1>3, <1>4, <1>5 DEF AtWork, Wired, Stale, Owned, Ending
<1>8. NeverStranded'
    <2>1. SUFFICES ASSUME NEW c \in Companions
                   PROVE  radio[c] = home[c] \/ /\ r.active /\ r.key = c
                                                /\ r.original = home[c] /\ Ours(r, radio[c])
        BY <1>1 DEF NeverStranded, Ours
    <2>2. CASE c = link
        BY <1>3, <1>5, <2>2 DEF Ours
    <2>3. CASE c # link
        BY <1>0, <1>1, <2>3 DEF NeverStranded
    <2>4. QED
        BY <2>2, <2>3
<1>9. QED
    BY <1>6, <1>7, <1>8 DEF Core

\* A command is sent, and lands.
LEMMA CommandKeeps ==
    ASSUME TypeInv, Core, Acquire \/ Land, ~Stray
    PROVE  Core'
<1>0. Plain /\ Wired /\ AtWork /\ Stale /\ Ending /\ NeverStranded /\ op \in Op
    BY CoreFacts DEF Core
<1>1. CASE Acquire
    <2>1. /\ op' = [op EXCEPT !.at = "sent", !.wire = link] /\ op.at = "wait" /\ sess' = sess
          /\ UNCHANGED <<radio, home, link, known, patch>>
        BY <1>1 DEF Acquire, radioVars, linkVars
    <2>2. op'.at = "sent" /\ op'.old = op.old /\ op'.wire = link /\ link = sess.key
        BY <1>0, <1>1, <2>1 DEF Op, Stray
    <2>3. Plain' /\ Wired' /\ AtWork'
        BY <1>0, <2>1, <2>2 DEF Plain, Wired, AtWork
    <2>4. Stale' /\ Ending' /\ NeverStranded'
        BY <1>0, <2>1 DEF Stale, Owned, Ending, Free, NeverStranded, Ours
    <2>5. QED
        BY <2>3, <2>4 DEF Core
<1>2. CASE Land
    <2>1. /\ radio' = [radio EXCEPT ![op.wire] = Target] /\ op.wire # None /\ op.at = "sent"
          /\ op' = [op EXCEPT !.at = "landed"] /\ sess' = sess
          /\ home' = home /\ link' = link /\ known' = known /\ patch' = patch
        BY <1>2 DEF Land, linkVars
    <2>2. /\ op'.at = "landed" /\ op'.old = op.old /\ op'.wire = op.wire /\ op'.does = op.does
        BY <1>0, <2>1 DEF Op
    <2>3. /\ op.wire = sess.key /\ op.wire = link /\ op.wire \in Companions
          /\ radio \in [Companions -> Settings] /\ sess.active
        BY <2>1, CoreFacts
    <2>4. Target' = Target
        BY <2>1, <2>2 DEF Target
    <2>5. radio'[op.wire] = Target /\ \A c \in Companions \ {op.wire} : radio'[c] = radio[c]
        BY <2>1, <2>3
    <2>6. Plain' /\ AtWork' /\ Wired'
        BY <1>0, <2>1, <2>2, <2>3, <2>4, <2>5 DEF Plain, AtWork, Wired
    <2>7. Stale' /\ Ending'
        BY <1>0, <2>1, <2>3 DEF AtWork, Stale, Ending, Free
    <2>8. NeverStranded'
        <3>1. SUFFICES ASSUME NEW c \in Companions
                       PROVE  radio'[c] = home[c] \/ /\ sess.active /\ sess.key = c
                                                     /\ sess.original = home[c] /\ Ours(sess, radio'[c])
            BY <2>1 DEF NeverStranded, Ours
        <3>2. CASE c = op.wire
            BY <2>1, <2>3, <2>5, <3>2, TargetIsSafe
        <3>3. CASE c # op.wire
            BY <1>0, <2>5, <3>3 DEF NeverStranded
        <3>4. QED
            BY <3>2, <3>3
    <2>9. QED
        BY <2>6, <2>7, <2>8 DEF Core
<1>3. QED
    BY <1>1, <1>2

\* A switch returns, with its command on the radio unless it was for a start.
LEMMA DoneKeeps ==
    ASSUME TypeInv, Core, SwitchOk \/ SwitchSilent, ~Unconfirmed
    PROVE  Core'
<1>0. Plain /\ Wired /\ AtWork /\ Stale /\ Ending /\ NeverStranded
    BY DEF Core
<1>1. /\ op.at \in {"sent", "landed"} /\ op.wire # None /\ Done
      /\ radio' = radio /\ home' = home /\ link' = link /\ patch' = patch
    BY DEF SwitchOk, SwitchSilent, radioVars
<1>2. /\ op.wire = link /\ op.wire = sess.key /\ sess.active /\ sess.key \in Companions
    BY <1>1, CoreFacts
<1>3. op.does # "start" => radio[sess.key] = Target
    BY <1>0, <1>2 DEF SwitchOk, Wired, Unconfirmed
<1>4. patch'.at # "end"
    BY <1>0, <1>1 DEF Ending, Free
<1>5. sess.original = home[sess.key]
    BY <1>0, <1>1 DEF AtWork
<1>6. ASSUME op' = IdleOp, NeverStranded', {sess'.temp, sess'.prev} \subseteq Temps \cup {None},
             sess'.active => sess'.key = sess.key /\ sess'.original = home[sess.key]
      PROVE  Core'
    <2>1. Plain'
        BY <1>0, <1>1, <1>6, EmptyTypes DEF Plain, NoRecord
    <2>2. Wired' /\ AtWork' /\ Stale' /\ Ending'
        BY <1>1, <1>4, <1>6, EmptyTypes DEF Wired, AtWork, Stale, Owned, Ending
    <2>3. QED
        BY <1>6, <2>1, <2>2 DEF Core
<1>7. CASE StartDone
    <2>1. sess' = sess /\ op' = IdleOp
        BY <1>7 DEF StartDone
    <2>2. NeverStranded'
        BY <1>0, <1>1, <2>1 DEF NeverStranded, Ours
    <2>3. QED
        BY <1>0, <1>5, <1>6, <2>1, <2>2 DEF Plain
<1>8. CASE UndoDone /\ op.old.active
    <2>1. sess' = op.old /\ op' = IdleOp /\ op.does = "undo"
        BY <1>8 DEF UndoDone
    <2>2. Target = op.old.temp /\ op.old.key = sess.key /\ op.old.original = home[sess.key]
        BY <1>1, <1>8, <2>1, TargetIsSafe
    <2>3. NeverStranded'
        <3>1. SUFFICES ASSUME NEW c \in Companions
                       PROVE  radio[c] = home[c] \/ /\ op.old.active /\ op.old.key = c
                                                    /\ op.old.original = home[c] /\ Ours(op.old, radio[c])
            BY <1>1, <2>1 DEF NeverStranded, Ours
        <3>2. CASE c = sess.key
            BY <1>3, <1>8, <2>1, <2>2, <3>2 DEF Ours
        <3>3. CASE c # sess.key
            BY <1>0, <3>3 DEF NeverStranded
        <3>4. QED
            BY <3>2, <3>3
    <2>4. QED
        BY <1>0, <1>6, <2>1, <2>2, <2>3 DEF Plain
<1>9. CASE RestoreDone \/ (UndoDone /\ ~op.old.active)
    <2>1. /\ op.does = "restore" \/ (op.does = "undo" /\ ~op.old.active)
          /\ Clear
        BY <1>9 DEF RestoreDone, UndoDone
    <2>2. Target = home[sess.key]
        BY <1>1, <2>1, TargetIsSafe
    <2>3. \A c \in Companions : radio[c] = home[c]
        BY <1>0, <1>3, <2>1, <2>2 DEF NeverStranded
    <2>4. sess' = NoRecord /\ op' = IdleOp /\ NeverStranded'
        BY <1>1, <2>1, <2>3 DEF NeverStranded, Clear
    <2>5. {sess'.temp, sess'.prev} \subseteq Temps \cup {None} /\ ~sess'.active
        BY <2>4 DEF NoRecord
    <2>6. QED
        BY <1>6, <2>4, <2>5
<1>10. QED
    BY <1>1, <1>7, <1>8, <1>9 DEF Done

\* A switch raises.
LEMMA FailKeeps ==
    ASSUME TypeInv, Core, SwitchFails
    PROVE  Core'
<1>0. Plain /\ Wired /\ AtWork /\ Stale /\ Ending /\ NeverStranded /\ op \in Op /\ sess \in Record
    BY CoreFacts DEF Core
<1>1. /\ op.at # "idle" /\ Raises
      /\ radio' = radio /\ home' = home /\ link' = link /\ known' = known /\ patch' = patch
    BY DEF SwitchFails, radioVars, linkVars
<1>2. patch'.at # "end"
    BY <1>0, <1>1 DEF Ending, Free
<1>3. /\ sess' = sess \/ sess' = [sess EXCEPT !.pending = TRUE]
      /\ op' = IdleOp \/ (op' = [op EXCEPT !.at = "wait", !.does = "undo", !.wire = None])
    BY <1>1 DEF Raises, StartFails, UndoFails, RestoreFails
<1>4. op' = IdleOp \/ (op'.at = "wait" /\ op'.old = op.old /\ op'.wire = None)
    BY <1>0, <1>3 DEF Op
<1>5. /\ sess'.active = sess.active /\ sess'.key = sess.key /\ sess'.original = sess.original
      /\ sess'.temp = sess.temp /\ sess'.prev = sess.prev
    BY <1>0, <1>3 DEF Record
<1>6. Plain' /\ AtWork' /\ Wired'
    BY <1>0, <1>1, <1>4, <1>5, EmptyTypes DEF Plain, AtWork, Wired, NoRecord
<1>7. Stale' /\ Ending'
    BY <1>0, <1>1, <1>2, <1>5 DEF Stale, Owned, Ending
<1>8. NeverStranded'
    BY <1>0, <1>1, <1>5 DEF NeverStranded, Ours
<1>9. QED
    BY <1>6, <1>7, <1>8 DEF Core

\* The settings page saves, and ends the session.
LEMMA PageKeeps ==
    ASSUME TypeInv, Core, PatchApply \/ PageEnds, ~PageRace
    PROVE  Core'
<1>0. Plain /\ Wired /\ AtWork /\ Stale /\ Ending /\ NeverStranded
    BY DEF Core
<1>1. CASE PatchApply
    <2>1. /\ patch.at = "wait" /\ link # None /\ op.at \notin {"sent", "landed"}
          /\ radio' = [radio EXCEPT ![link] = patch.to] /\ home' = [home EXCEPT ![link] = patch.to]
          /\ known' = patch.to /\ sess' = sess /\ op' = op /\ link' = link
          /\ patch' = IF patch.ends THEN [patch EXCEPT !.at = "end"] ELSE NoPatch
        BY <1>1 DEF PatchApply
    <2>2. /\ patch.ends = Owned /\ (Owned => Free)
          /\ patch \in [at : {"none", "wait", "end"}, to : Settings \cup {None}, ends : BOOLEAN]
        BY <1>1 DEF PageRace, TypeInv, Tasks, Owned
    <2>3. link \in Companions /\ patch.to \in Others /\ op.wire = None
        BY <1>0, <2>1, CoreFacts DEF Plain
    <2>4. /\ radio'[link] = patch.to /\ home'[link] = patch.to
          /\ \A c \in Companions \ {link} : radio'[c] = radio[c] /\ home'[c] = home[c]
        BY <2>1, <2>3, CoreFacts
    <2>5. patch'.at = "end" => Owned
        BY <2>1, <2>2, EmptyTypes
    <2>6. patch'.at # "none" => patch'.to = patch.to
        BY <2>1, <2>2, EmptyTypes
    <2>7. Plain'
        BY <1>0, <2>1, <2>3, <2>6, CoreFacts DEF Plain
    <2>8. Wired' /\ AtWork'
        <3>1. op.at # "idle" => sess.active /\ sess.key \in Companions /\ sess.key # link
            BY <2>2, CoreFacts DEF Owned
        <3>2. QED
            BY <1>0, <2>1, <2>3, <2>4, <3>1 DEF Wired, AtWork
    <2>9. Stale' /\ Ending'
        BY <2>1, <2>2, <2>4, <2>5 DEF Stale, Owned, Ending, Free
    <2>10. NeverStranded'
        <3>1. SUFFICES ASSUME NEW c \in Companions
                       PROVE  radio'[c] = home'[c] \/ /\ sess.active /\ sess.key = c
                                                      /\ sess.original = home'[c] /\ Ours(sess, radio'[c])
            BY <2>1 DEF NeverStranded, Ours
        <3>2. QED
            BY <1>0, <2>4 DEF NeverStranded
    <2>11. QED
        BY <2>7, <2>8, <2>9, <2>10 DEF Core
<1>2. CASE PageEnds
    <2>1. /\ patch.at = "end" /\ patch' = NoPatch /\ sess.active /\ sess' = NoRecord /\ op' = IdleOp
          /\ radio' = radio /\ home' = home /\ link' = link /\ known' = known
        BY <1>2 DEF PageEnds
    <2>2. \A c \in Companions : radio[c] = home[c]
        BY <1>0, <2>1 DEF Ending, NeverStranded
    <2>3. Plain' /\ Wired' /\ AtWork'
        BY <1>0, <2>1, EmptyTypes DEF Plain, Wired, AtWork, NoRecord
    <2>4. Stale' /\ Ending' /\ NeverStranded'
        BY <2>1, <2>2, EmptyTypes DEF Stale, Owned, Ending, NeverStranded
    <2>5. QED
        BY <2>3, <2>4 DEF Core
<1>3. QED
    BY <1>1, <1>2

\* Dropped links, restarts, connects and changes made elsewhere.
LEMMA WorldKeeps ==
    ASSUME TypeInv, Core, Disconnect \/ Crash \/ Connects \/ Changes, ~Overtaken
    PROVE  Core'
<1>0. /\ Plain /\ Wired /\ AtWork /\ Stale /\ Ending /\ NeverStranded /\ op \in Op
      /\ sess.active => sess.key # None
    BY CoreFacts, NoneIsNothing DEF Core
<1>1. CASE Disconnect
    <2>1. /\ op' = [op EXCEPT !.wire = None] /\ sess' = sess /\ link' = None
          /\ radio' = radio /\ home' = home /\ patch' = patch
        BY <1>1 DEF Disconnect, radioVars
    <2>2. op'.at = op.at /\ op'.old = op.old /\ op'.wire = None
        BY <1>0, <2>1 DEF Op
    <2>3. Plain' /\ Wired' /\ AtWork'
        BY <1>0, <2>1, <2>2 DEF Plain, Wired, AtWork
    <2>4. Stale' /\ Ending' /\ NeverStranded'
        BY <1>0, <2>1, <2>2 DEF Stale, Owned, Ending, Free, NeverStranded, Ours
    <2>5. QED
        BY <2>3, <2>4 DEF Core
<1>2. CASE Crash
    <2>1. /\ op' = IdleOp /\ sess' = sess /\ link' = None /\ radio' = radio /\ home' = home
          /\ patch' = NoPatch
        BY <1>2 DEF Crash, radioVars
    <2>2. Plain' /\ Wired' /\ AtWork'
        BY <1>0, <2>1, EmptyTypes DEF Plain, Wired, AtWork, NoRecord
    <2>3. Stale' /\ Ending' /\ NeverStranded'
        BY <1>0, <2>1, EmptyTypes DEF Stale, Owned, Ending, NeverStranded, Ours
    <2>4. QED
        BY <2>2, <2>3 DEF Core
<1>3. CASE Connects
    <2>1. PICK c \in Companions : Connect(c)
        BY <1>3 DEF Connects
    <2>2. /\ link = None /\ link' = c /\ known' = radio[c] /\ sess' = sess /\ op' = op
          /\ radio' = radio /\ home' = home /\ patch' = patch
        BY <2>1 DEF Connect, radioVars
    <2>3. op.wire = None
        BY <2>2, CoreFacts
    <2>4. Plain' /\ Wired' /\ AtWork'
        BY <1>0, <2>2, <2>3 DEF Plain, Wired, AtWork
    <2>5. Stale' /\ Ending' /\ NeverStranded'
        BY <1>0, <2>2 DEF Stale, Ending, Free, NeverStranded, Ours
    <2>6. QED
        BY <2>4, <2>5 DEF Core
<1>4. CASE Changes
    <2>1. PICK c \in Companions, s \in Others : ChangeElsewhere(c, s)
        BY <1>4 DEF Changes
    <2>2. /\ link # c /\ radio' = [radio EXCEPT ![c] = s] /\ home' = [home EXCEPT ![c] = s]
          /\ sess' = sess /\ op' = op /\ link' = link /\ known' = known /\ patch' = patch
        BY <2>1 DEF ChangeElsewhere, linkVars
    <2>3. /\ radio'[c] = s /\ home'[c] = s
          /\ \A d \in Companions \ {c} : radio'[d] = radio[d] /\ home'[d] = home[d]
        BY <2>2, CoreFacts
    <2>4. Plain'
        BY <1>0, <2>2 DEF Plain
    <2>5. Wired'
        BY <1>0, <2>2, <2>3, CoreFacts DEF Wired, Target
    <2>6. AtWork'
        BY <1>0, <2>2 DEF AtWork, Overtaken, Free
    <2>7. Stale' /\ Ending'
        <3>1. link # None => link \in Companions \ {c}
            BY <2>2, CoreFacts
        <3>2. Owned => link # None
            BY <1>0 DEF Owned
        <3>3. sess.active => sess.key \in Companions
            BY CoreFacts
        <3>4. QED
            BY <1>0, <2>2, <2>3, <3>1, <3>2, <3>3 DEF Stale, Owned, Ending, Free
    <2>8. NeverStranded'
        <3>1. SUFFICES ASSUME NEW d \in Companions
                       PROVE  radio'[d] = home'[d] \/ /\ sess.active /\ sess.key = d
                                                      /\ sess.original = home'[d] /\ Ours(sess, radio'[d])
            BY <2>2 DEF NeverStranded, Ours
        <3>2. QED
            BY <1>0, <2>3 DEF NeverStranded
    <2>9. QED
        BY <2>4, <2>5, <2>6, <2>7, <2>8 DEF Core
<1>5. QED
    BY <1>1, <1>2, <1>3, <1>4

----------------------------------------------------------------------------
(* The invariant *)

\* A step that enters no gap keeps it.
LEMMA CoreStep ==
    ASSUME TypeInv, Core, [Next]_vars, ~Gap
    PROVE  Core'
<1>0. ~Blind /\ ~Hasty /\ ~Unconfirmed /\ ~Stray /\ ~Overtaken /\ ~PageRace
    BY DEF Gap
<1>1. CASE Calm /\ (Same \/ Switches \/ SessionEnds)
    BY <1>0, <1>1, CalmKeeps
<1>2. CASE Starts
    <2>1. PICK by \in {"user", "scan"}, s \in Temps, d \in Durations : StartBegin(by, s, d)
        BY <1>2 DEF Starts
    <2>2. QED
        BY <1>0, <2>1, StartKeeps
<1>3. CASE Acquire \/ Land
    BY <1>0, <1>3, CommandKeeps
<1>4. CASE SwitchOk \/ SwitchSilent
    BY <1>0, <1>4, DoneKeeps
<1>5. CASE SwitchFails
    BY <1>5, FailKeeps
<1>6. CASE PatchApply \/ PageEnds
    BY <1>0, <1>6, PageKeeps
<1>7. CASE Disconnect \/ Crash \/ Connects \/ Changes
    BY <1>0, <1>7, WorldKeeps
<1>8. QED
    BY <1>1, <1>2, <1>3, <1>4, <1>5, <1>6, <1>7, Effects

\* The first state: nothing has happened.
LEMMA CoreInit == Init => Core
<1> SUFFICES ASSUME Init PROVE Core
    OBVIOUS
<1>1. op.old = NoRecord /\ op.at = "idle" /\ op.wire = None /\ patch.at = "none" /\ ~sess.active
    BY EmptyTypes DEF Init
<1>2. Plain
    BY <1>1 DEF Init, Plain, NoRecord
<1>3. Wired /\ AtWork /\ Stale /\ Ending
    BY <1>1 DEF Wired, AtWork, Stale, Owned, Ending
<1>4. NeverStranded
    <2>1. radio = home
        BY DEF Init
    <2>2. QED
        BY <2>1 DEF NeverStranded
<1>5. QED
    BY <1>2, <1>3, <1>4 DEF Core

\* The steps are those of TempRadio, and each of them is judged.
LEMMA SoundSteps == SoundNext => Next /\ Judge
<1> SUFFICES ASSUME SoundNext PROVE Next /\ Judge
    OBVIOUS
<1>1. Judge
    BY Zenon DEF SoundNext
<1>2. UserStep \/ SwitchStep \/ TimerStep \/ TaskStep \/ Reconcile \/ WorldStep
    BY Zenon DEF SoundNext, UserStep, SwitchStep, TimerStep, TaskStep, WorldStep
<1>3. QED
    BY <1>1, <1>2 DEF Next

\* Every run of temp_radio.py keeps NeverStranded until it enters one of the gaps: the
\* settings of a companion are lost only by a decision on wrong self_info, a start over
\* a session whose radio is on neither of its settings, a command reported as done that
\* did not land, a command to another companion, new normal settings during a switch,
\* or a save of the settings page that races with a session.
THEOREM GapsAreAll == SoundSpec => []StrandedByGapsOnly
<1> DEFINE Inv == TypeInv /\ (sound => Core)
<1>1. SoundInit => Inv
    BY TypeInvInit, CoreInit DEF SoundInit
<1>2. Inv /\ [SoundNext]_soundVars => Inv'
    <2> SUFFICES ASSUME Inv, [SoundNext]_soundVars PROVE Inv'
        OBVIOUS
    <2>1. [Next]_vars
        BY SoundSteps DEF soundVars
    <2>2. TypeInv'
        BY <2>1, TypeInvStep
    <2>3. CASE sound' /\ sound /\ ~Gap
        BY <2>1, <2>2, <2>3, CoreStep
    <2>4. CASE UNCHANGED soundVars
        <3>1. UNCHANGED vars /\ sound' = sound
            BY <2>4 DEF soundVars
        <3>2. Core => Core'
            BY <3>1 DEF vars, radioVars, linkVars, scanVars, Core, Plain, Wired, AtWork, Stale,
                        Ending, NeverStranded, Owned, Free, Ours, Target
        <3>3. QED
            BY <2>2, <3>1, <3>2
    <2>5. CASE SoundNext
        <3>1. sound' = (sound /\ ~Gap)
            BY <2>5, SoundSteps DEF Judge
        <3>2. QED
            BY <2>2, <2>3, <3>1
    <2>6. QED
        BY <2>4, <2>5
<1>3. Inv => StrandedByGapsOnly
    BY DEF StrandedByGapsOnly, Core
<1>4. QED
    BY <1>1, <1>2, <1>3, PTL DEF SoundSpec
=============================================================================
