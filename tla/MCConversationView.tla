-------------------------- MODULE MCConversationView --------------------------
(* ConversationView for TLC: two conversations, whose messages come in turn. *)
EXTENDS ConversationView, TLC

CONSTANTS a, b
MCConvOf == [m \in Msgs |-> IF m = 2 THEN b ELSE a]
Both == {a, b}

Spending(user, send, change, drop, fail) ==
    [k \in Kinds |-> CASE k = "user" -> user [] k = "send" -> send [] k = "change" -> change
                       [] k = "drop" -> drop [] k = "fail" -> fail]
PromptBudgets == {Spending(3, 0, 1, 1, 0), Spending(2, 1, 1, 0, 1)}
SlowBudgets == {Spending(3, 0, 0, 1, 0), Spending(1, 0, 1, 1, 0), Spending(2, 1, 0, 0, 1)}
=============================================================================
