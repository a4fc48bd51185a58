---------------------------- MODULE MCUnreadCounts ----------------------------
(* UnreadCounts for TLC: two conversations, whose messages come in turn. *)
EXTENDS UnreadCounts

CONSTANTS a, b
MCConvOf == [m \in Msgs |-> IF m = 2 THEN b ELSE a]
Both == {a, b}
One == {a}

Spending(open, search, bulk, unread, render, refresh, drop, fail) ==
    [k \in Kinds |-> CASE k = "open" -> open [] k = "search" -> search [] k = "bulk" -> bulk
                       [] k = "unread" -> unread [] k = "render" -> render [] k = "refresh" -> refresh
                       [] k = "drop" -> drop [] k = "fail" -> fail]
SafeBudgets == {Spending(2, 1, 0, 0, 0, 0, 0, 0), Spending(1, 0, 1, 0, 0, 0, 0, 0),
                Spending(1, 0, 0, 1, 1, 0, 0, 0), Spending(1, 0, 0, 0, 0, 1, 0, 0),
                Spending(1, 0, 0, 0, 0, 0, 1, 0), Spending(1, 0, 0, 0, 0, 0, 0, 1)}
=============================================================================
