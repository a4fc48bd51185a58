--------------------------- MODULE TempRadioSound ---------------------------
(***************************************************************************)
(* TempRadio with a record of whether one of the known gaps of the code    *)
(* was entered.  Each gap is an event after which the code may leave a     *)
(* companion on settings nobody remembers, or write it settings that are   *)
(* no longer its normal ones.  The question is whether the list is         *)
(* complete: as long as none of them happened, is no companion stranded?   *)
(***************************************************************************)
EXTENDS TempRadio

VARIABLE sound  \* no gap was entered yet

soundVars == <<vars, sound>>

\* A start takes self_info for the normal settings, or a session is ended because of
\* self_info, while the radio is on other settings (an answer was lost or missing).
Blind == Free /\ link # None /\ known # radio[link] /\ sess'.active # sess.active
\* A start over a session of which the radio is on neither the normal nor the
\* temporary settings: the ones before them are forgotten, or someone changed them.
Hasty == Free /\ sess.active /\ op'.does = "start" /\ radio[link] \notin {sess.original, sess.temp}
\* A session ends, or an older one comes back, although the command did not land.
Unconfirmed == SwitchSilent /\ op.does # "start" /\ radio[op.wire] # Target
\* A switch gets the radio lock with another companion connected.
Stray == Acquire /\ link # sess.key
\* The session's companion gets new normal settings while a switch is at work.
Overtaken == ~Free /\ home'[sess.key] # home[sess.key]
\* The settings page decided to end a session that is gone by now, or not to end one
\* that is there; or a session starts between that decision and the end.
PageRace == \/ PatchApply /\ (patch.ends # Owned \/ (patch.ends /\ ~Free))
            \/ patch.at = "end" /\ Free /\ op'.does = "start"

Gap == Blind \/ Hasty \/ Unconfirmed \/ Stray \/ Overtaken \/ PageRace

Judge == sound' = (sound /\ ~Gap)

SoundInit == Init /\ sound = TRUE

SoundNext ==
    \/ \E by \in {"user", "scan"}, s \in Temps, d \in Durations : StartBegin(by, s, d) /\ Judge
    \/ UserRestore /\ Judge
    \/ RunScan /\ Judge
    \/ \E next \in {"none", "start", "restore"} : ScanCancel(next) /\ Judge
    \/ \E s \in Others : PatchBegin(s) /\ Judge
    \/ Acquire /\ Judge
    \/ Land /\ Judge
    \/ SwitchOk /\ Judge
    \/ SwitchSilent /\ Judge
    \/ SwitchFails /\ Judge
    \/ TimerWake /\ Judge
    \/ TimerRestore /\ Judge
    \/ StartRefused /\ Judge
    \/ TakeoverRestore /\ Judge
    \/ ScanRestore /\ Judge
    \/ ScanFinish /\ Judge
    \/ Extend /\ Judge
    \/ PatchApply /\ Judge
    \/ PatchRefused /\ Judge
    \/ PatchEnd /\ Judge
    \/ Reconcile /\ Judge
    \/ Disconnect /\ Judge
    \/ Crash /\ Judge
    \/ Tick /\ Judge
    \/ \E c \in Companions : Connect(c) /\ Judge
    \/ \E c \in Companions, s \in Others : ChangeElsewhere(c, s) /\ Judge
    \/ \E d \in Durations : ScanHeard(d) /\ Judge

SoundSpec == SoundInit /\ [][SoundNext]_soundVars
SoundFairSpec == SoundSpec /\ Fairness

\* As long as no gap was entered, a companion is on its normal settings, or the stored
\* record knows them and recognises the radio's, whatever commands fail, answers get
\* lost, scans are cancelled, pages save and settings change elsewhere, at any await.
\* A restore that lands therefore writes what is normal for its companion.
StrandedByGapsOnly == sound => NeverStranded
=============================================================================
