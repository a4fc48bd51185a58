---------------------------- MODULE MCDmDelivery ----------------------------
(* DmDelivery for TLC: model values for the messages, with symmetry. *)
EXTENDS DmDelivery, TLC

Symmetry == Permutations(Msgs)

\* Only one message is typed by the user; the others are resends.
ResendsOnly ==
    \A m, n \in Msgs : pc[m] # "unsent" /\ pc[n] # "unsent" /\ m # n =>
        replaces[m] # NoMsg \/ replaces[n] # NoMsg
=============================================================================
