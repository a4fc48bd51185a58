---------------------------- MODULE ChannelSlots ----------------------------
(***************************************************************************)
(* Channel slots of the connected companion.  The radio has a few slots;   *)
(* a channel message is sent on a slot, and a frame the radio queued names *)
(* only the slot it came in on.  The backend keeps a cache of what it put  *)
(* where, so that a send need not load its channel again, and a second map *)
(* of the last channel seen in each slot, to file queued frames.           *)
(*                                                                         *)
(* A send, a loadout, the sync of the channels, the post-connect setup and *)
(* the poll loop each hold the radio operation lock while they run; the    *)
(* handler of fetched frames takes no lock.  Keys stand for channels, names*)
(* are left out.  The cache is kept in order of last use to choose what to *)
(* evict; no property depends on the choice, so here any cached channel    *)
(* may be evicted.                                                         *)
(***************************************************************************)
EXTENDS Integers, Sequences, FiniteSets

CONSTANTS
    Keys,      \* channel keys
    NoKey,     \* an empty slot, or no channel
    NumSlots,  \* max_channels of the companion
    MaxQueue,  \* bound: frames the radio keeps for the app
    Budgets    \* bound: combinations of how often each of Kinds happens

\* What the bounds count.
Kinds == {"send",      \* channel messages, channel data and their resends
          "apply",     \* loadouts applied
          "frame",     \* frames the radio queues
          "error",     \* commands the radio refuses or does not see
          "lost",      \* set_channel commands that land although an error is reported
          "silent",    \* set_channel commands that return no result
          "drop",      \* links dropped that the library opens again
          "teardown"}  \* connections closed by the backend

ASSUME KeysAssumption == NoKey \notin Keys
ASSUME SlotsAssumption == NumSlots \in Nat \ {0}
ASSUME BoundsAssumption == Budgets \subseteq [Kinds -> Nat] /\ MaxQueue \in Nat

Slots == 0 .. NumSlots - 1
NoSlot == NumSlots
MaybeKey == Keys \cup {NoKey}
MaybeSlot == 0 .. NumSlots
First(S) == CHOOSE s \in S : \A t \in S : s <= t

\* A queued frame: its slot, the channel it was decrypted with, and whether it
\* came in while no link was up, so that no raw packet reached the backend.
Frame == [slot : Slots, key : Keys, offline : BOOLEAN]

\* The operation that holds the radio operation lock, and where it is.
Op == [does : {"none", "send", "apply", "sync", "setup", "poll"},
       at : {"idle", "set", "landed", "transmit", "pick", "read", "clear", "drain", "audit"},
       key : MaybeKey, slot : MaybeSlot, evicted : MaybeKey]
NoOp == [does |-> "none", at |-> "idle", key |-> NoKey, slot |-> NoSlot, evicted |-> NoKey]

VARIABLES
    chan,      \* the channel in each slot of the radio
    queue,     \* the frames the radio keeps for the app
    link,      \* "up", "dropped" (the library reopens it) or "gone"
    slotOf,    \* the send cache: the slot of each channel it holds
    keyAt,     \* the send cache: the channel of each slot
    pend,      \* the last channel seen in each slot, for queued frames
    fetching,  \* the library fetches queued frames as they are announced
    again,     \* the setup has to run again
    reuse,     \* the transport may reuse loaded slots (not TCP); fixed by the configuration
    op,        \* the operation that holds the lock
    todo,      \* a loadout: channels still to load
    free,      \* a loadout: empty slots left
    placed,    \* a loadout: the slot of each channel found or loaded
    stored,    \* the frame taken from the queue last and what it was filed as
    spent      \* how much of each bound is used

radioVars == <<chan, queue>>
cacheVars == <<slotOf, keyAt>>
linkVars == <<link, fetching, again, reuse>>
applyVars == <<todo, free, placed>>
vars == <<radioVars, cacheVars, pend, linkVars, op, applyVars, stored, spent>>

TypeOK ==
    /\ chan \in [Slots -> MaybeKey]
    /\ queue \in Seq(Frame)
    /\ link \in {"up", "dropped", "gone"}
    /\ slotOf \in [Keys -> MaybeSlot]
    /\ keyAt \in [Slots -> MaybeKey]
    /\ pend \in [Slots -> MaybeKey]
    /\ fetching \in BOOLEAN /\ again \in BOOLEAN /\ reuse \in BOOLEAN
    /\ op \in Op
    /\ todo \in SUBSET Keys
    /\ free \in SUBSET Slots
    /\ placed \in [Keys -> MaybeSlot]
    /\ stored \in [own : MaybeKey, as : MaybeKey, offline : BOOLEAN]
    /\ spent \in [Kinds -> Nat]
    /\ op.does = "none" <=> op.at = "idle"
    /\ op.at \in {"set", "landed", "transmit"} => op.key \in Keys /\ op.slot \in Slots
    /\ op.at \in {"read", "clear"} => op.slot \in Slots

EmptyCache == slotOf' = [k \in Keys |-> NoSlot] /\ keyAt' = [s \in Slots |-> NoKey]
NoPlaces == [k \in Keys |-> NoSlot]

\* The radio holds whatever channels its user left there.
Init ==
    /\ chan \in [Slots -> MaybeKey]
    /\ queue = <<>>
    /\ link = "gone"
    /\ slotOf = NoPlaces /\ keyAt = [s \in Slots |-> NoKey]
    /\ pend = [s \in Slots |-> NoKey]
    /\ fetching = FALSE /\ again = FALSE /\ reuse \in BOOLEAN
    /\ op = NoOp
    /\ todo = {} /\ free = {} /\ placed = NoPlaces
    /\ stored = [own |-> NoKey, as |-> NoKey, offline |-> FALSE]
    /\ spent = [k \in Kinds |-> 0]

Within(s) == \E b \in Budgets : \A k \in Kinds : s[k] <= b[k]
Spend(k) == spent' = [spent EXCEPT ![k] = @ + 1] /\ Within(spent')
\* A command fails by itself, or because the link is down.
CommandFails == IF link = "up" THEN Spend("error") ELSE UNCHANGED spent

Idle == op.does = "none"
Cached == {k \in Keys : slotOf[k] # NoSlot}

-----------------------------------------------------------------------------
(* The send cache *)

\* Mutated form of NoteLoaded: the slot a channel had before keeps it as well.
NoteLoadedKeepsSlot(D, at) ==
    /\ pend' = [s \in Slots |->
                   IF \E k \in D : at[k] = s THEN CHOOSE k \in D : at[k] = s ELSE pend[s]]
    /\ IF reuse
       THEN /\ slotOf' = [j \in Keys |->
                             IF j \in D THEN at[j]
                             ELSE IF \E k \in D : keyAt[at[k]] = j THEN NoSlot
                             ELSE slotOf[j]]
            /\ keyAt' = [s \in Slots |->
                            IF \E k \in D : at[k] = s THEN CHOOSE k \in D : at[k] = s
                            ELSE keyAt[s]]
       ELSE UNCHANGED cacheVars
\* Mutated form of NoteLoaded: without reuse it returns before the pending map.
NoteLoadedReturnsEarly(D, at) ==
    IF reuse
    THEN /\ pend' = [s \in Slots |->
                        IF \E k \in D : at[k] = s THEN CHOOSE k \in D : at[k] = s ELSE pend[s]]
         /\ slotOf' = [j \in Keys |->
                          IF j \in D THEN at[j]
                          ELSE IF \E k \in D : keyAt[at[k]] = j THEN NoSlot
                          ELSE slotOf[j]]
         /\ keyAt' = [s \in Slots |->
                         IF \E k \in D : at[k] = s THEN CHOOSE k \in D : at[k] = s
                         ELSE IF \E k \in D : slotOf[k] = s THEN NoKey
                         ELSE keyAt[s]]
    ELSE UNCHANGED <<pend, cacheVars>>
\* note_channel_slot_loaded for every channel of D, each in its slot of at: the
\* channels they displace leave the cache, and so do their own earlier slots.
NoteLoaded(D, at) ==
    /\ pend' = [s \in Slots |->
                   IF \E k \in D : at[k] = s THEN CHOOSE k \in D : at[k] = s ELSE pend[s]]
    /\ IF reuse
       THEN /\ slotOf' = [j \in Keys |->
                             IF j \in D THEN at[j]
                             ELSE IF \E k \in D : keyAt[at[k]] = j THEN NoSlot
                             ELSE slotOf[j]]
            /\ keyAt' = [s \in Slots |->
                            IF \E k \in D : at[k] = s THEN CHOOSE k \in D : at[k] = s
                            ELSE IF \E k \in D : slotOf[k] = s THEN NoKey
                            ELSE keyAt[s]]
       ELSE UNCHANGED cacheVars
\* note_channel_slot_used
NoteUsed(k) ==
    keyAt' = IF reuse /\ slotOf[k] # NoSlot THEN [keyAt EXCEPT ![slotOf[k]] = k] ELSE keyAt
\* invalidate_cached_channel_slot; nothing to drop for no channel.
Invalidate(k) ==
    IF k \in Cached
    THEN /\ slotOf' = [slotOf EXCEPT ![k] = NoSlot]
         /\ keyAt' = [keyAt EXCEPT ![slotOf[k]] = IF @ = k THEN NoKey ELSE @]
    ELSE UNCHANGED cacheVars

\* The lowest slot the cache does not claim; slot 0 is the preferred one.
FirstFreeSlot ==
    IF \E s \in Slots : keyAt[s] = NoKey THEN First({s \in Slots : keyAt[s] = NoKey}) ELSE 0

-----------------------------------------------------------------------------
(* Sending on a channel *)

\* Plan the slot: slot 0 without reuse, the cached slot, a free one, or the slot of
\* a channel that is evicted.
SendStart(k) ==
    /\ Idle /\ link = "up"
    /\ Spend("send")
    /\ \/ /\ reuse /\ k \in Cached
          /\ op' = [does |-> "send", at |-> "transmit", key |-> k, slot |-> slotOf[k],
                    evicted |-> NoKey]
       \/ /\ reuse => k \notin Cached /\ Cardinality(Cached) < NumSlots
          /\ op' = [does |-> "send", at |-> "set", key |-> k,
                    slot |-> IF reuse THEN FirstFreeSlot ELSE 0, evicted |-> NoKey]
       \/ /\ reuse /\ k \notin Cached /\ Cardinality(Cached) >= NumSlots
          /\ \E old \in Cached :
                op' = [does |-> "send", at |-> "set", key |-> k, slot |-> slotOf[old],
                       evicted |-> old]
    /\ UNCHANGED <<radioVars, cacheVars, pend, linkVars, applyVars, stored>>

\* set_channel reaches the radio.
SetLands ==
    /\ op.at = "set" /\ link = "up"
    /\ chan' = [chan EXCEPT ![op.slot] = op.key]
    /\ op' = [op EXCEPT !.at = "landed"]
    /\ UNCHANGED <<queue, cacheVars, pend, linkVars, applyVars, stored, spent>>

SendLoaded ==
    /\ op.does = "send" /\ op.at = "landed"
    /\ NoteLoaded({op.key}, [k \in {op.key} |-> op.slot])
    /\ op' = [op EXCEPT !.at = "transmit"]
    /\ UNCHANGED <<radioVars, linkVars, applyVars, stored, spent>>
\* Mutated form of SendNotLoaded: the evicted channel stays in the cache.
SendNotLoadedKeepsEvicted ==
    /\ op.does = "send" /\ op.at \in {"set", "landed"}
    /\ IF op.at = "set" THEN CommandFails ELSE Spend("lost")
    /\ op' = NoOp
    /\ UNCHANGED <<radioVars, cacheVars, pend, linkVars, applyVars, stored>>
\* set_channel raises or reports an error, whether it landed or not: the channel
\* that was to be evicted leaves the cache and the request fails.
SendNotLoaded ==
    /\ op.does = "send" /\ op.at \in {"set", "landed"}
    /\ IF op.at = "set" THEN CommandFails ELSE Spend("lost")
    /\ Invalidate(op.evicted)
    /\ op' = NoOp
    /\ UNCHANGED <<radioVars, pend, linkVars, applyVars, stored>>
\* set_channel returns None: reading its type raises outside the handler.
SendUnanswered ==
    /\ op.does = "send" /\ op.at \in {"set", "landed"}
    /\ Spend("silent")
    /\ op' = NoOp
    /\ UNCHANGED <<radioVars, cacheVars, pend, linkVars, applyVars, stored>>

Transmitted ==
    /\ op.at = "transmit" /\ link = "up"
    /\ NoteUsed(op.key)
    /\ op' = NoOp
    /\ UNCHANGED <<radioVars, slotOf, pend, linkVars, applyVars, stored, spent>>
\* The radio reports an error: the channel is loaded again for the next send.
TransmitFails ==
    /\ op.at = "transmit"
    /\ CommandFails
    /\ Invalidate(op.key)
    /\ op' = NoOp
    /\ UNCHANGED <<radioVars, pend, linkVars, applyVars, stored>>
\* No result, or an exception: the outcome is unknown and the cache stays.
TransmitUnknown ==
    /\ op.at = "transmit"
    /\ op' = NoOp
    /\ UNCHANGED <<radioVars, cacheVars, pend, linkVars, applyVars, stored, spent>>

-----------------------------------------------------------------------------
(* Applying a loadout *)

\* Read the slots; without reuse slot 0 is left to the sends.  A slot that cannot
\* be read is neither a match nor free.
ApplyStart(D, unread) ==
    LET readable == {s \in Slots \ unread : reuse \/ s # 0}
        holding(k) == {s \in readable : chan[s] = k}
    IN  /\ Idle /\ link = "up"
        /\ spent' = [spent EXCEPT !["apply"] = @ + 1,
                                  !["error"] = @ + (IF unread = {} THEN 0 ELSE 1)]
        /\ Within(spent')
        /\ placed' = [k \in Keys |->
                         IF k \in D /\ holding(k) # {} THEN First(holding(k)) ELSE NoSlot]
        /\ todo' = {k \in D : holding(k) = {}}
        /\ free' = holding(NoKey)
        /\ op' = [NoOp EXCEPT !.does = "apply", !.at = "pick"]
        /\ UNCHANGED <<radioVars, cacheVars, pend, linkVars, stored>>

ApplyPick(k) ==
    /\ op.does = "apply" /\ op.at = "pick"
    /\ k \in todo /\ free # {}
    /\ todo' = todo \ {k}
    /\ op' = [op EXCEPT !.at = "set", !.key = k, !.slot = First(free)]
    /\ UNCHANGED <<radioVars, cacheVars, pend, linkVars, free, placed, stored, spent>>
ApplyLoaded ==
    /\ op.does = "apply" /\ op.at = "landed"
    /\ placed' = [placed EXCEPT ![op.key] = op.slot]
    /\ free' = free \ {op.slot}
    /\ op' = [NoOp EXCEPT !.does = "apply", !.at = "pick"]
    /\ UNCHANGED <<radioVars, cacheVars, pend, linkVars, todo, stored, spent>>
\* An error, an exception or no result: the slot stays free for the next channel.
ApplyNotLoaded ==
    /\ op.does = "apply" /\ op.at \in {"set", "landed"}
    /\ IF op.at = "set" THEN CommandFails ELSE Spend("lost")
    /\ op' = [NoOp EXCEPT !.does = "apply", !.at = "pick"]
    /\ UNCHANGED <<radioVars, cacheVars, pend, linkVars, applyVars, stored>>
\* The slots are noted together, at the end, still under the lock.
ApplyDone ==
    /\ op.does = "apply" /\ op.at = "pick"
    /\ todo = {} \/ free = {}
    /\ NoteLoaded({k \in Keys : placed[k] # NoSlot}, placed)
    /\ op' = NoOp
    /\ todo' = {} /\ free' = {} /\ placed' = NoPlaces
    /\ UNCHANGED <<radioVars, linkVars, stored, spent>>

-----------------------------------------------------------------------------
(* Syncing the channels: read each slot, remember it and clear it *)

\* Mutated form of SyncStart: the cache outlives the clearing of the slots.
SyncStartKeepsCache(by) ==
    /\ Idle /\ link = "up"
    /\ by = "setup" <=> again
    /\ again' = FALSE
    /\ op' = [NoOp EXCEPT !.does = by, !.at = "read", !.slot = 0]
    /\ UNCHANGED <<radioVars, cacheVars, pend, link, fetching, reuse, applyVars, stored, spent>>
\* The periodic sync, or the post-connect setup of a connection that the library
\* opened again or whose setup ran out of time.
SyncStart(by) ==
    /\ Idle /\ link = "up"
    /\ by = "setup" <=> again
    /\ again' = FALSE
    /\ EmptyCache
    /\ op' = [NoOp EXCEPT !.does = by, !.at = "read", !.slot = 0]
    /\ UNCHANGED <<radioVars, pend, link, fetching, reuse, applyVars, stored, spent>>

\* Mutated form of NextSlot: one slot past the last.
NextSlotTooFar ==
    op' = IF op.slot < NumSlots THEN [op EXCEPT !.at = "read", !.slot = @ + 1]
          ELSE IF op.does = "setup" THEN [NoOp EXCEPT !.does = "setup", !.at = "drain"]
          ELSE NoOp
\* After the last slot the setup goes on to drain the queue.
NextSlot ==
    op' = IF op.slot + 1 < NumSlots THEN [op EXCEPT !.at = "read", !.slot = @ + 1]
          ELSE IF op.does = "setup" THEN [NoOp EXCEPT !.does = "setup", !.at = "drain"]
          ELSE NoOp
\* Mutated form of SyncRead: the slot is cleared without being remembered.
SyncReadForgets ==
    /\ op.at = "read" /\ link = "up"
    /\ IF chan[op.slot] = NoKey THEN NextSlot ELSE op' = [op EXCEPT !.at = "clear"]
    /\ UNCHANGED <<radioVars, cacheVars, pend, linkVars, applyVars, stored, spent>>
SyncRead ==
    /\ op.at = "read" /\ link = "up"
    /\ IF chan[op.slot] = NoKey
       THEN NextSlot /\ UNCHANGED pend
       ELSE /\ pend' = [pend EXCEPT ![op.slot] = chan[op.slot]]
            /\ op' = [op EXCEPT !.at = "clear"]
    /\ UNCHANGED <<radioVars, cacheVars, linkVars, applyVars, stored, spent>>
\* An unreadable slot is skipped; an exception ends the sync, and the setup goes on.
SyncUnread ==
    /\ op.at = "read"
    /\ CommandFails
    /\ \/ NextSlot
       \/ op' = IF op.does = "setup" THEN [NoOp EXCEPT !.does = "setup", !.at = "drain"] ELSE NoOp
    /\ UNCHANGED <<radioVars, cacheVars, pend, linkVars, applyVars, stored>>
SyncClear ==
    /\ op.at = "clear" /\ link = "up"
    /\ chan' = [chan EXCEPT ![op.slot] = NoKey]
    /\ NextSlot
    /\ UNCHANGED <<queue, cacheVars, pend, linkVars, applyVars, stored, spent>>
SyncNotCleared ==
    /\ op.at = "clear"
    /\ CommandFails
    /\ NextSlot
    /\ UNCHANGED <<radioVars, cacheVars, pend, linkVars, applyVars, stored>>

\* The setup runs out of time and is cancelled; the monitor starts it again.
SetupTimesOut ==
    /\ op.does = "setup"
    /\ Spend("error")
    /\ op' = NoOp
    /\ again' = TRUE
    /\ UNCHANGED <<radioVars, cacheVars, pend, link, fetching, reuse, applyVars, stored>>

-----------------------------------------------------------------------------
(* Frames the radio queued *)

\* The radio decrypts a channel frame with the channel of a slot and queues it.
Hear(s) ==
    /\ chan[s] # NoKey
    /\ Len(queue) < MaxQueue
    /\ Spend("frame")
    /\ queue' = Append(queue, [slot |-> s, key |-> chan[s], offline |-> link # "up"])
    /\ UNCHANGED <<chan, cacheVars, pend, linkVars, op, applyVars, stored>>

\* The channel of a slot as far as the backend knows.
KeyForSlot(s) == IF keyAt[s] # NoKey THEN keyAt[s] ELSE pend[s]

\* The frame at the head of the queue leaves the radio and is filed under a
\* channel, or dropped.
Take(key) ==
    LET f == Head(queue) IN
    /\ queue' = Tail(queue)
    /\ stored' = [own |-> f.key, as |-> key, offline |-> f.offline]

\* The handler of a frame the library fetched.
Fetch ==
    /\ fetching /\ link = "up" /\ op.does # "poll"
    /\ queue # <<>>
    /\ Take(KeyForSlot(Head(queue).slot))
    /\ UNCHANGED <<chan, cacheVars, pend, linkVars, op, applyVars, spent>>

\* The setup and the poll loop fetch frames themselves and read the slot first.
DrainFrame ==
    LET s == Head(queue).slot IN
    /\ op.at = "drain" /\ link = "up" /\ queue # <<>>
    /\ \/ UNCHANGED spent
          /\ Take(IF chan[s] # NoKey THEN chan[s] ELSE KeyForSlot(s))
          /\ pend' = IF chan[s] # NoKey THEN [pend EXCEPT ![s] = chan[s]] ELSE pend
       \/ CommandFails /\ Take(KeyForSlot(s)) /\ UNCHANGED pend
    /\ UNCHANGED <<chan, cacheVars, linkVars, op, applyVars>>
\* The queue is empty, or fetching fails.  The setup forgets the slots it saw and
\* has the library fetch from now on; the poll loop goes on to check the cache.
DrainOver ==
    /\ op.at = "drain"
    /\ IF queue = <<>> /\ link = "up" THEN UNCHANGED spent ELSE CommandFails
    /\ IF op.does = "setup"
       THEN /\ pend' = [s \in Slots |-> NoKey]
            /\ fetching' = TRUE
            /\ op' = NoOp
       ELSE /\ op' = [op EXCEPT !.at = "audit"]
            /\ UNCHANGED <<pend, fetching>>
    /\ UNCHANGED <<radioVars, cacheVars, link, again, reuse, applyVars, stored>>

PollStart ==
    /\ Idle /\ link = "up" /\ fetching
    /\ op' = [NoOp EXCEPT !.does = "poll", !.at = "drain"]
    /\ UNCHANGED <<radioVars, cacheVars, pend, linkVars, applyVars, stored, spent>>
\* Mutated form of Audit: the difference is reported and the cache is kept.
AuditOnlyReports ==
    /\ op.at = "audit" /\ link = "up"
    /\ op' = NoOp
    /\ UNCHANGED <<radioVars, cacheVars, pend, linkVars, applyVars, stored, spent>>
\* Every cached channel is compared with its slot of the radio; a difference, or a
\* slot that cannot be read, empties the cache.
Audit ==
    /\ op.at = "audit" /\ link = "up"
    /\ IF \A k \in Cached : chan[slotOf[k]] = k THEN UNCHANGED cacheVars ELSE EmptyCache
    /\ op' = NoOp
    /\ UNCHANGED <<radioVars, pend, linkVars, applyVars, stored, spent>>
AuditUnread ==
    /\ op.at = "audit"
    /\ CommandFails
    /\ EmptyCache \/ UNCHANGED cacheVars
    /\ op' = NoOp
    /\ UNCHANGED <<radioVars, pend, linkVars, applyVars, stored>>

-----------------------------------------------------------------------------
(* The link *)

\* The backend opens the connection; its setup takes the lock at once.
Connect ==
    /\ link = "gone" /\ Idle
    /\ link' = "up"
    /\ again' = FALSE
    /\ EmptyCache
    /\ op' = [NoOp EXCEPT !.does = "setup", !.at = "read", !.slot = 0]
    /\ UNCHANGED <<radioVars, pend, fetching, reuse, applyVars, stored, spent>>
\* The backend closes the connection, or what is left of it.
Disconnect ==
    /\ link # "gone" /\ Idle
    /\ Spend("teardown")
    /\ link' = "gone" /\ fetching' = FALSE /\ again' = FALSE
    /\ EmptyCache
    /\ pend' = [s \in Slots |-> NoKey]
    /\ UNCHANGED <<radioVars, reuse, op, applyVars, stored>>
LinkDropped ==
    /\ link = "up"
    /\ Spend("drop")
    /\ link' = "dropped"
    /\ UNCHANGED <<radioVars, cacheVars, pend, fetching, again, reuse, op, applyVars, stored>>
\* The library opens the link again; the monitor will notice and set it up again.
LinkReopened ==
    /\ link = "dropped"
    /\ link' = "up"
    /\ again' = TRUE
    /\ UNCHANGED <<radioVars, cacheVars, pend, fetching, reuse, op, applyVars, stored, spent>>

-----------------------------------------------------------------------------
SendStep == SetLands \/ SendLoaded \/ SendNotLoaded \/ SendUnanswered
            \/ Transmitted \/ TransmitFails \/ TransmitUnknown
ApplyStep == (\E k \in Keys : ApplyPick(k)) \/ ApplyLoaded \/ ApplyNotLoaded \/ ApplyDone
SyncStep == SyncRead \/ SyncUnread \/ SyncClear \/ SyncNotCleared \/ SetupTimesOut
DrainStep == DrainFrame \/ DrainOver \/ Audit \/ AuditUnread
RequestStep ==
    \/ \E k \in Keys : SendStart(k)
    \/ \E D \in SUBSET Keys \ {{}}, unread \in SUBSET Slots : ApplyStart(D, unread)
    \/ SyncStart("sync")
LinkStep == Connect \/ Disconnect \/ LinkDropped \/ LinkReopened

Next ==
    \/ SendStep \/ ApplyStep \/ SyncStep \/ DrainStep \/ RequestStep \/ LinkStep
    \/ SyncStart("setup") \/ PollStart \/ Fetch
    \/ \E s \in Slots : Hear(s)

Spec == Init /\ [][Next]_vars

\* Every awaited command ends, the library or the monitor opens the link again, a
\* setup that is due runs, and the poll loop, which gives up for this round when the
\* lock is taken, polls when the lock stays free.
Progress == SendStep \/ ApplyStep \/ SyncStep \/ DrainStep
Fairness ==
    /\ WF_vars(Progress) /\ WF_vars(Connect) /\ WF_vars(LinkReopened)
    /\ WF_vars(SyncStart("setup")) /\ WF_vars(PollStart)
FairSpec == Spec /\ Fairness

-----------------------------------------------------------------------------
(* What the slots promise *)

\* Every set_channel so far returned a result.
Answered == spent["silent"] = 0
\* The cache tells the truth, except for the slot a send is loading at this moment.
CacheTrue ==
    \A k \in Cached : chan[slotOf[k]] = k \/ (op.at = "landed" /\ slotOf[k] = op.slot)
\* A send that transmits now does so on a slot of its own channel.
SendAimed == op.at = "transmit" => chan[op.slot] = op.key

\* A message goes out on a slot that holds its own channel: when a send reaches
\* its transmission, by way of the cache or of a channel it just loaded, no other
\* send, loadout, sync, audit or failed command in between has put another
\* channel, or none, in that slot.  The code leaves the evicted channel in the cache
\* after a set_channel without a result, so this holds until there was one.
SendsOnOwnChannel == Answered => SendAimed

\* The send cache tells the truth about the radio until a set_channel returned no
\* result, except for the slot a send is loading at this moment.
CacheMatchesRadio == Answered => CacheTrue

\* The two dictionaries of the cache stay inverse to each other through loads,
\* displacements, invalidations and resets: a slot never has two owners.
CacheIsOneToOne ==
    /\ \A k \in Cached : keyAt[slotOf[k]] = k
    /\ \A s \in Slots : keyAt[s] # NoKey => slotOf[keyAt[s]] = s

\* With the lock free, a frame that comes in now would be filed under its own
\* channel, with reuse and without, or not at all: what the handler looks up is
\* what the radio holds, as long as every set_channel returned a result and no load
\* landed that was reported as an error.
LookupIsCurrent ==
    Answered /\ Idle /\ spent["lost"] = 0 =>
        \A s \in Slots : chan[s] # NoKey => KeyForSlot(s) \in {chan[s], NoKey}

\* While no command fails, a frame heard while no link was up, which no raw packet
\* can correct, is filed under its own channel, although the setup empties the cache
\* and clears the slots before it drains the queue: what it read from a slot outlives
\* the slot.
OfflineFrameFiled ==
    stored.offline /\ spent["error"] = 0 /\ spent["drop"] = 0 => stored.as = stored.own

\* A wrong entry of the cache does not last: an audit, a sync or a setup empties
\* it, or another send corrects it.
CacheHeals == []<>CacheTrue
=============================================================================
