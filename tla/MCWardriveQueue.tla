--------------------------- MODULE MCWardriveQueue ---------------------------
(* WardriveQueue for TLC: two radios on two accounts and three rows. *)
EXTENDS WardriveQueue

CONSTANTS k1, k2, b
MCRadios == {k1, k2}
MCBrokers == {b}
MCRadioOf == [r \in Rows |-> IF r = 3 THEN k2 ELSE k1]
MCKindOf == [r \in Rows |-> IF r = 3 THEN "track" ELSE "obs"]
NoAccountBrokers == {}
MCAccounts == {{k1}, {k1, k2}}
MCRefused == {1}

Spending(fail, switch, list, link, person, reload) ==
    [k \in Bounded |-> CASE k = "fail" -> fail [] k = "switch" -> switch [] k = "list" -> list
                         [] k = "link" -> link [] k = "account" -> person [] k = "reload" -> reload]
SafeBudgets == {Spending(1, 1, 0, 0, 1, 0), Spending(0, 3, 0, 0, 1, 0), Spending(0, 2, 0, 1, 0, 0),
                Spending(0, 1, 1, 0, 1, 0), Spending(0, 0, 0, 1, 2, 0), Spending(0, 1, 0, 0, 1, 1),
                Spending(1, 0, 0, 0, 1, 1)}
LostBudgets == {Spending(0, 1, 0, 0, 3, 0)}
=============================================================================
