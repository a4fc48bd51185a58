--------------------------- MODULE MCChannelSlots ---------------------------
(* A small instance of ChannelSlots: which events happen together, and how often. *)
EXTENDS ChannelSlots

Budget(sends, applies, frames, errors, lost, silents, drops, teardowns) ==
    [send |-> sends, apply |-> applies, frame |-> frames, error |-> errors, lost |-> lost,
     silent |-> silents, drop |-> drops, teardown |-> teardowns]

\* Sends that evict each other and fail; loadouts between sends over a link that
\* drops, with a refused or a lost command; queued frames across a teardown, with a
\* loadout or with a failed command; a load that is not answered, with every way the
\* cache is emptied.
SlotBudgets == {Budget(4, 0, 0, 2, 1, 0, 0, 1), Budget(2, 2, 0, 1, 0, 0, 1, 0),
                Budget(2, 2, 0, 0, 1, 0, 1, 0), Budget(2, 1, 1, 0, 0, 0, 0, 1),
                Budget(2, 0, 2, 1, 0, 0, 0, 1), Budget(3, 0, 0, 1, 0, 1, 1, 1)}
=============================================================================
