---------------------------- MODULE MCTempRadio ----------------------------
(* Small instances of TempRadio: which events happen together, and how often. *)
EXTENDS TempRadioSound

CONSTANTS t1, t2
MCTemps == {t1, t2}

Budget(starts, refusals, lost, crashes, edits, patches, silents, cancels, swaps) ==
    [start |-> starts, refuse |-> refusals, lost |-> lost, crash |-> crashes, edit |-> edits,
     patch |-> patches, silent |-> silents, cancel |-> cancels, swap |-> swaps]

\* Two starts with a refused command or a crash; settings changed elsewhere with a
\* crash; the settings page during a switch; a scan that is stopped, with a lost answer;
\* an unconfirmed command.
SwitchBudgets == {Budget(2, 1, 0, 0, 0, 0, 0, 0, 0), Budget(2, 0, 0, 1, 0, 0, 0, 0, 0),
                  Budget(1, 0, 0, 1, 1, 0, 0, 0, 0), Budget(1, 0, 0, 0, 0, 1, 0, 0, 0),
                  Budget(1, 0, 1, 0, 0, 0, 0, 1, 0), Budget(1, 1, 0, 0, 0, 0, 1, 0, 0)}
\* Another companion connects during a switch.
SwapBudgets == {Budget(1, 0, 0, 0, 0, 0, 0, 0, 1)}
\* Three starts, and the link drops as it likes.
StartBudgets == {Budget(3, 0, 0, 0, 0, 0, 0, 0, 0)}

\* The two temporary settings are alike: the first session is on t1.
FirstTemp == spent["start"] = 1 => sess.temp # t2
=============================================================================
