------------------------- MODULE ChannelSlots_proofs -------------------------
(***************************************************************************)
(* Proofs about ChannelSlots for any channels, any number of slots and any *)
(* bounds: the two dictionaries of the send cache stay inverse to each     *)
(* other, and as long as every set_channel returned a result the cache     *)
(* tells the truth, no message goes out on a slot of another channel, and  *)
(* the channel looked up for a slot is current. A frame the radio queued   *)
(* while it had no link is filed in its own channel.                       *)
(***************************************************************************)
EXTENDS ChannelSlots, TLAPS, FiniteSetTheorems, SequenceTheorems, WellFoundedInduction

\* Only a send or a loadout loads a slot, and a loadout does nothing else.
OpShape ==
    /\ op.at \in {"set", "landed"} => op.does \in {"send", "apply"}
    /\ op.does = "apply" => op.at \in {"pick", "set", "landed"}

\* What a loadout knows of the radio: the channels it found or loaded are where it
\* says, and it loads only into slots that are still free.
ApplyShape ==
    /\ \A k \in Keys : placed[k] # NoSlot => chan[placed[k]] = k /\ placed[k] \notin free
    /\ op.at \in {"set", "landed"} => op.slot \in free
    /\ op.at = "landed" => chan[op.slot] = op.key

\* The structure of the cache, whatever the radio does.
IInv ==
    /\ TypeOK /\ OpShape /\ CacheIsOneToOne
    /\ ~reuse => Cached = {}
    /\ op.does = "apply" => ApplyShape

\* The only channel the cache still has in the slot a send loads is the one it evicts.
SendShape ==
    /\ \A k \in Cached : slotOf[k] = op.slot => k = op.evicted
    /\ op.at = "landed" => chan[op.slot] = op.key

\* The cache and the radio.
Truth ==
    /\ CacheTrue /\ SendAimed
    /\ op.at \in {"read", "clear"} => Cached = {}
    /\ op.does = "send" /\ op.at \in {"set", "landed"} => SendShape
    /\ op.does = "apply" => \A k \in Cached : slotOf[k] \notin free

-----------------------------------------------------------------------------
(* Slots *)

\* First chooses an element of its set.
LEMMA FirstIn ==
    ASSUME NEW S \in SUBSET Slots, S # {}
    PROVE  First(S) \in S
<1>1. S \subseteq Nat
    BY SlotsAssumption DEF Slots
<1>2. PICK s \in S : \A t \in S : ~(<<t, s>> \in OpToRel(<, Nat))
    BY <1>1, NatLessThanWellFounded, WFMin
<1>3. ASSUME NEW t \in S PROVE s <= t
    <2>1. <<t, s>> \in Nat \X Nat /\ <<t, s>>[1] = t /\ <<t, s>>[2] = s
        BY <1>1
    <2>2. t < s => <<t, s>> \in OpToRel(<, Nat)
        BY <2>1, Zenon DEF OpToRel
    <2>3. ~(t < s)
        BY <1>2, <2>2, Zenon
    <2>4. QED
        BY <1>1, <2>3
<1>4. QED
    BY <1>3 DEF First

\* The first free slot is a slot.
LEMMA FirstFreeIsSlot == FirstFreeSlot \in Slots
<1>1. CASE \E s \in Slots : keyAt[s] = NoKey
    BY <1>1, FirstIn DEF FirstFreeSlot
<1>2. CASE ~\E s \in Slots : keyAt[s] = NoKey
    BY <1>2, SlotsAssumption DEF FirstFreeSlot, Slots
<1>3. QED
    BY <1>1, <1>2

\* A one-to-one cache is finite.
LEMMA FiniteCache ==
    ASSUME TypeOK, CacheIsOneToOne
    PROVE  IsFiniteSet(Cached) /\ Cardinality(Cached) \in Nat
<1>1. IsFiniteSet(Slots)
    BY SlotsAssumption, FS_Interval DEF Slots
<1>2. \A k \in Cached : slotOf[k] \in Slots
    BY SlotsAssumption DEF TypeOK, Cached, Slots, MaybeSlot, NoSlot
<1>3. [k \in Cached |-> slotOf[k]] \in Injection(Cached, Slots)
    <2>1. \A j, k \in Cached : slotOf[j] = slotOf[k] => j = k
        BY DEF CacheIsOneToOne
    <2>2. QED
        BY <1>2, <2>1 DEF Injection, IsInjective
<1>4. QED
    BY <1>1, <1>3, FS_Injection, FS_CardinalityType

\* A cache with room for another channel leaves a slot that it does not claim.
LEMMA FreeSlotUnclaimed ==
    ASSUME TypeOK, CacheIsOneToOne, Cardinality(Cached) < NumSlots
    PROVE  keyAt[FirstFreeSlot] = NoKey
<1>1. Cardinality(Slots) = NumSlots
    BY SlotsAssumption, FS_Interval DEF Slots
<1>2. ASSUME \A s \in Slots : keyAt[s] # NoKey PROVE FALSE
    <2>1. \A s \in Slots : keyAt[s] \in Cached
        BY <1>2, SlotsAssumption
        DEF TypeOK, CacheIsOneToOne, Cached, Slots, MaybeKey, NoSlot
    <2>2. [s \in Slots |-> keyAt[s]] \in Injection(Slots, Cached)
        BY <1>2, <2>1 DEF CacheIsOneToOne, Injection, IsInjective
    <2>3. Cardinality(Slots) <= Cardinality(Cached)
        BY <2>2, FiniteCache, FS_Injection
    <2>4. QED
        BY <1>1, <2>3, FiniteCache, SlotsAssumption
<1>3. QED
    BY <1>2, FirstIn DEF FirstFreeSlot

-----------------------------------------------------------------------------
(* The operations of the cache *)

CacheType == slotOf \in [Keys -> MaybeSlot] /\ keyAt \in [Slots -> MaybeKey]

\* Noting channels of D, each in a slot of its own, keeps the cache one-to-one; a
\* channel that is not of D keeps its slot only when none of D came into it.
LEMMA NoteLoadedCache ==
    ASSUME TypeOK, CacheIsOneToOne, NEW D \in SUBSET Keys, NEW at,
           \A k \in D : at[k] \in Slots,
           \A j, k \in D : at[j] = at[k] => j = k,
           NoteLoaded(D, at)
    PROVE  /\ CacheType' /\ CacheIsOneToOne'
           /\ pend' \in [Slots -> MaybeKey]
           /\ ~reuse => UNCHANGED cacheVars
           /\ reuse => \A j \in Cached' :
                 IF j \in D THEN slotOf'[j] = at[j]
                 ELSE j \in Cached /\ slotOf'[j] = slotOf[j] /\ \A k \in D : at[k] # slotOf[j]
<1> USE KeysAssumption, SlotsAssumption
<1> DEFINE owner(s) == CHOOSE k \in D : at[k] = s
<1>1. \A k \in D : owner(at[k]) = k
    OBVIOUS
<1>2. \A s \in Slots : (\E k \in D : at[k] = s) => owner(s) \in D /\ at[owner(s)] = s
    OBVIOUS
<1> HIDE DEF owner
<1>3. pend' = [s \in Slots |-> IF \E k \in D : at[k] = s THEN owner(s) ELSE pend[s]]
    BY DEF NoteLoaded, owner
<1>4. pend' \in [Slots -> MaybeKey]
    BY <1>2, <1>3 DEF TypeOK, MaybeKey
<1>5. CASE ~reuse
    BY <1>4, <1>5 DEF NoteLoaded, TypeOK, CacheType, CacheIsOneToOne, Cached, cacheVars
<1>6. CASE reuse
    <2>1. slotOf' = [j \in Keys |-> IF j \in D THEN at[j]
                                    ELSE IF \E k \in D : keyAt[at[k]] = j THEN NoSlot
                                    ELSE slotOf[j]]
        BY <1>6 DEF NoteLoaded
    <2>2. keyAt' = [s \in Slots |-> IF \E k \in D : at[k] = s THEN owner(s)
                                    ELSE IF \E k \in D : slotOf[k] = s THEN NoKey
                                    ELSE keyAt[s]]
        BY <1>6 DEF NoteLoaded, owner
    <2>3. CacheType'
        BY <1>2, <2>1, <2>2 DEF TypeOK, CacheType, MaybeKey, MaybeSlot, Slots, NoSlot
    <2>4. ASSUME NEW j \in Cached'
          PROVE  IF j \in D THEN slotOf'[j] = at[j]
                 ELSE j \in Cached /\ slotOf'[j] = slotOf[j] /\ \A k \in D : at[k] # slotOf[j]
        BY <2>1 DEF Cached, CacheIsOneToOne
    <2>5. ASSUME NEW j \in Cached' PROVE keyAt'[slotOf'[j]] = j
        <3>1. CASE j \in D
            BY <1>1, <2>2, <2>4, <3>1
        <3>2. CASE j \notin D
            <4>1. slotOf[j] \in Slots /\ keyAt[slotOf[j]] = j
                BY <2>4, <3>2 DEF TypeOK, CacheIsOneToOne, Cached, MaybeSlot, Slots, NoSlot
            <4>2. ~\E k \in D : slotOf[k] = slotOf[j]
                BY <2>4, <3>2, <4>1 DEF CacheIsOneToOne, Cached
            <4>3. QED
                BY <2>2, <2>4, <3>2, <4>1, <4>2
        <3>3. QED
            BY <3>1, <3>2
    <2>6. ASSUME NEW s \in Slots, keyAt'[s] # NoKey PROVE slotOf'[keyAt'[s]] = s
        <3>1. CASE \E k \in D : at[k] = s
            BY <1>2, <2>1, <2>2, <3>1
        <3>2. CASE ~\E k \in D : at[k] = s
            <4>1. keyAt'[s] = keyAt[s] /\ ~\E k \in D : slotOf[k] = s
                BY <2>2, <2>6, <3>2
            <4>2. keyAt[s] \in Keys /\ slotOf[keyAt[s]] = s
                BY <2>6, <4>1 DEF TypeOK, CacheIsOneToOne, MaybeKey
            <4>3. keyAt[s] \notin D
                BY <4>1, <4>2
            <4>4. ~\E k \in D : keyAt[at[k]] = keyAt[s]
                BY <2>6, <3>2, <4>1, <4>2 DEF CacheIsOneToOne
            <4>5. QED
                BY <2>1, <4>1, <4>2, <4>3, <4>4
        <3>3. QED
            BY <3>1, <3>2
    <2>7. QED
        BY <1>4, <1>6, <2>3, <2>4, <2>5, <2>6 DEF CacheIsOneToOne
<1>7. QED
    BY <1>5, <1>6

\* Invalidating a channel takes it, and nothing else, out of the cache.
LEMMA InvalidateCache ==
    ASSUME TypeOK, CacheIsOneToOne, NEW k, Invalidate(k)
    PROVE  /\ CacheType' /\ CacheIsOneToOne'
           /\ \A j \in Cached' : j # k /\ j \in Cached /\ slotOf'[j] = slotOf[j]
<1> USE KeysAssumption, SlotsAssumption
<1>1. CASE k \in Cached
    <2>1. k \in Keys /\ slotOf[k] \in Slots /\ keyAt[slotOf[k]] = k
        BY <1>1 DEF TypeOK, CacheIsOneToOne, Cached, MaybeSlot, Slots, NoSlot
    <2>2. slotOf' = [slotOf EXCEPT ![k] = NoSlot] /\ keyAt' = [keyAt EXCEPT ![slotOf[k]] = NoKey]
        BY <1>1, <2>1 DEF Invalidate, TypeOK
    <2>3. CacheType'
        BY <2>1, <2>2 DEF TypeOK, CacheType, MaybeKey, MaybeSlot, NoSlot
    <2>4. \A j \in Cached' : j # k /\ j \in Cached /\ slotOf'[j] = slotOf[j]
        BY <2>2 DEF TypeOK, Cached
    <2>5. CacheIsOneToOne'
        BY <2>1, <2>2, <2>4 DEF TypeOK, CacheIsOneToOne, Cached, MaybeKey
    <2>6. QED
        BY <2>3, <2>4, <2>5
<1>2. CASE k \notin Cached
    BY <1>2 DEF Invalidate, TypeOK, CacheType, CacheIsOneToOne, Cached, cacheVars
<1>3. QED
    BY <1>1, <1>2

\* An emptied cache is one-to-one.
LEMMA EmptyCacheCache ==
    ASSUME EmptyCache
    PROVE  CacheType' /\ CacheIsOneToOne' /\ Cached' = {}
BY SlotsAssumption
DEF EmptyCache, CacheType, CacheIsOneToOne, Cached, MaybeKey, MaybeSlot, NoSlot

\* So is one that did not change.
LEMMA SameCache ==
    ASSUME TypeOK, CacheIsOneToOne, UNCHANGED cacheVars
    PROVE  CacheType' /\ CacheIsOneToOne' /\ Cached' = Cached
BY DEF TypeOK, CacheType, CacheIsOneToOne, Cached, cacheVars

\* Noting that a cached channel was used changes nothing.
LEMMA NoteUsedCache ==
    ASSUME TypeOK, CacheIsOneToOne, NEW k \in Keys, NoteUsed(k)
    PROVE  keyAt' = keyAt
<1>1. CASE slotOf[k] # NoSlot
    BY <1>1 DEF NoteUsed, TypeOK, CacheIsOneToOne, Cached
<1>2. CASE slotOf[k] = NoSlot
    BY <1>2 DEF NoteUsed
<1>3. QED
    BY <1>1, <1>2

\* Bounds only count up, and a count of no unanswered command stays so.
LEMMA SpendCounts ==
    ASSUME TypeOK, NEW k \in Kinds, Spend(k)
    PROVE  /\ spent' \in [Kinds -> Nat]
           /\ spent'["silent"] = 0 => k # "silent" /\ spent["silent"] = 0
BY DEF TypeOK, Spend, Kinds
\* The same for a command that fails.
LEMMA CommandFailsCounts ==
    ASSUME TypeOK, CommandFails
    PROVE  spent' \in [Kinds -> Nat] /\ (Answered' => Answered)
<1>1. "error" \in Kinds
    BY DEF Kinds
<1>2. QED
    BY <1>1, SpendCounts DEF CommandFails, TypeOK, Answered

\* The same for a loadout, with or without a slot it cannot read.
LEMMA ApplyCounts ==
    ASSUME TypeOK, NEW unread,
           spent' = [spent EXCEPT !["apply"] = @ + 1,
                                  !["error"] = @ + (IF unread = {} THEN 0 ELSE 1)]
    PROVE  spent' \in [Kinds -> Nat] /\ (Answered' => Answered)
<1>1. PICK n \in Nat : n = (IF unread = {} THEN 0 ELSE 1)
    OBVIOUS
<1>2. spent' = [k \in Kinds |-> IF k = "apply" THEN spent[k] + 1
                                ELSE IF k = "error" THEN spent[k] + n ELSE spent[k]]
    BY <1>1 DEF TypeOK, Kinds
<1>3. QED
    BY <1>2 DEF TypeOK, Answered, Kinds

-----------------------------------------------------------------------------
(* Type correctness *)

OpType ==
    /\ op \in Op
    /\ op.does = "none" <=> op.at = "idle"
    /\ op.at \in {"set", "landed", "transmit"} => op.key \in Keys /\ op.slot \in Slots
    /\ op.at \in {"read", "clear"} => op.slot \in Slots

\* The lock is released.
LEMMA Released ==
    ASSUME op' = NoOp
    PROVE  OpType' /\ op'.does = "none" /\ op'.at = "idle"
BY SlotsAssumption DEF OpType, Op, NoOp, MaybeKey, MaybeSlot, NoSlot

\* The lock is taken, or its holder is between two steps that need no slot.
LEMMA Holds ==
    ASSUME NEW d \in {"apply", "setup", "poll"}, NEW a \in {"pick", "drain"},
           op' = [NoOp EXCEPT !.does = d, !.at = a]
    PROVE  OpType' /\ op'.does = d /\ op'.at = a
<1>1. op' = [does |-> d, at |-> a, key |-> NoKey, slot |-> NoSlot, evicted |-> NoKey]
    BY DEF NoOp
<1>2. QED
    BY <1>1, SlotsAssumption DEF OpType, Op, MaybeKey, MaybeSlot, NoSlot

\* A sync starts with slot 0.
LEMMA Syncs ==
    ASSUME NEW d \in {"sync", "setup"}, op' = [NoOp EXCEPT !.does = d, !.at = "read", !.slot = 0]
    PROVE  OpType' /\ op'.does = d /\ op'.at = "read"
<1>1. op' = [does |-> d, at |-> "read", key |-> NoKey, slot |-> 0, evicted |-> NoKey]
    BY DEF NoOp
<1>2. QED
    BY <1>1, SlotsAssumption DEF OpType, Op, MaybeKey, MaybeSlot, Slots

Places == {"idle", "set", "landed", "transmit", "pick", "read", "clear", "drain", "audit"}

\* The holder of the lock goes on and keeps the rest of its record.
LEMMA GoesOn ==
    ASSUME TypeOK, NEW a \in Places, op' = [op EXCEPT !.at = a]
    PROVE  /\ op' \in Op /\ op'.at = a /\ op'.does = op.does
           /\ op'.key = op.key /\ op'.slot = op.slot /\ op'.evicted = op.evicted
BY DEF TypeOK, Op, Places

\* The operation after the one slot of a sync is done.
LEMMA NextSlotType ==
    ASSUME TypeOK, op.at \in {"read", "clear"}, NextSlot
    PROVE  OpType' /\ op'.at \in {"read", "drain", "idle"} /\ op'.does \in {op.does, "none"}
<1>1. CASE op.slot + 1 < NumSlots
    <2>1. op' = [op EXCEPT !.at = "read", !.slot = op.slot + 1]
        BY <1>1 DEF NextSlot
    <2>2. op.slot + 1 \in Slots /\ op.does # "none"
        BY <1>1, SlotsAssumption DEF TypeOK, Slots
    <2>3. op' = [does |-> op.does, at |-> "read", key |-> op.key, slot |-> op.slot + 1,
                 evicted |-> op.evicted]
        BY <2>1 DEF TypeOK, Op
    <2>4. QED
        BY <2>2, <2>3, SlotsAssumption DEF TypeOK, OpType, Op, MaybeSlot, Slots
<1>2. CASE ~(op.slot + 1 < NumSlots) /\ op.does = "setup"
    BY <1>2, Holds DEF NextSlot
<1>3. CASE ~(op.slot + 1 < NumSlots) /\ op.does # "setup"
    BY <1>3, Released DEF NextSlot
<1>4. QED
    BY <1>1, <1>2, <1>3

\* Taking a frame from the queue.
LEMMA TakeType ==
    ASSUME TypeOK, queue # <<>>, NEW key \in MaybeKey, Take(key)
    PROVE  /\ queue' \in Seq(Frame)
           /\ stored' \in [own : MaybeKey, as : MaybeKey, offline : BOOLEAN]
<1>1. Head(queue) \in Frame /\ Tail(queue) \in Seq(Frame)
    BY HeadTailProperties DEF TypeOK
<1>2. QED
    BY <1>1 DEF Take, Frame, MaybeKey

\* The channel of a queued frame's slot is a channel or none.
LEMMA KeyForSlotType ==
    ASSUME TypeOK, queue # <<>>
    PROVE  Head(queue).slot \in Slots /\ KeyForSlot(Head(queue).slot) \in MaybeKey
<1>1. Head(queue) \in Frame
    BY HeadTailProperties DEF TypeOK
<1>2. QED
    BY <1>1 DEF TypeOK, KeyForSlot, Frame

\* A loadout notes each channel in a slot of its own.
LEMMA ApplyDoneNotes ==
    ASSUME IInv, ApplyDone
    PROVE  LET D == {k \in Keys : placed[k] # NoSlot}
           IN  /\ \A k \in D : placed[k] \in Slots /\ chan[placed[k]] = k
               /\ CacheType' /\ CacheIsOneToOne'
               /\ pend' \in [Slots -> MaybeKey]
               /\ ~reuse => UNCHANGED cacheVars
               /\ reuse => \A j \in Cached' :
                     IF j \in D THEN slotOf'[j] = placed[j]
                     ELSE j \in Cached /\ slotOf'[j] = slotOf[j]
<1> DEFINE D == {k \in Keys : placed[k] # NoSlot}
<1>1. TypeOK /\ CacheIsOneToOne /\ ApplyShape
    BY DEF IInv, ApplyDone
<1>2. \A k \in D : placed[k] \in Slots /\ chan[placed[k]] = k
    BY <1>1, SlotsAssumption DEF ApplyShape, TypeOK, MaybeSlot, Slots, NoSlot
<1>3. NoteLoaded(D, placed)
    BY DEF ApplyDone
<1> HIDE DEF D
<1>4. D \in SUBSET Keys
    BY DEF D
<1>5. \A j, k \in D : placed[j] = placed[k] => j = k
    BY <1>2
<1>6. /\ CacheType' /\ CacheIsOneToOne'
      /\ pend' \in [Slots -> MaybeKey]
      /\ ~reuse => UNCHANGED cacheVars
      /\ reuse => \A j \in Cached' :
            IF j \in D THEN slotOf'[j] = placed[j]
            ELSE j \in Cached /\ slotOf'[j] = slotOf[j]
    BY <1>1, <1>2, <1>3, <1>4, <1>5, NoteLoadedCache
<1>7. QED
    BY <1>2, <1>6 DEF D

\* Every action keeps the variables in their types.
LEMMA TypeStep ==
    ASSUME IInv, [Next]_vars
    PROVE  TypeOK'
<1> USE KeysAssumption, SlotsAssumption
<1> USE DEF radioVars, cacheVars, linkVars, applyVars
<1>0. TypeOK /\ CacheIsOneToOne
    BY DEF IInv
<1>1. ASSUME NEW k \in Keys, SendStart(k) PROVE TypeOK'
    <2>1. spent' \in [Kinds -> Nat]
        BY <1>0, <1>1, SpendCounts DEF SendStart, Kinds
    <2>2. FirstFreeSlot \in Slots /\ 0 \in Slots
        BY FirstFreeIsSlot DEF Slots
    <2>3. \A j \in Cached : slotOf[j] \in Slots
        BY <1>0 DEF TypeOK, Cached, MaybeSlot, Slots, NoSlot
    <2>4. OpType'
        BY <1>1, <2>2, <2>3 DEF SendStart, OpType, Op, MaybeKey, MaybeSlot, Slots, Cached
    <2>5. QED
        BY <1>0, <1>1, <2>1, <2>4 DEF SendStart, TypeOK, OpType
<1>2. CASE SetLands
    BY <1>0, <1>2 DEF SetLands, TypeOK, Op, MaybeKey
<1>3. CASE SendLoaded
    <2>1. op.key \in Keys /\ op.slot \in Slots
        BY <1>0, <1>3 DEF SendLoaded, TypeOK
    <2>2. CacheType' /\ pend' \in [Slots -> MaybeKey]
        BY <1>0, <1>3, <2>1, NoteLoadedCache DEF SendLoaded
    <2>3. QED
        BY <1>0, <1>3, <2>2 DEF SendLoaded, TypeOK, CacheType, Op
<1>4. CASE SendNotLoaded
    <2>1. CacheType'
        BY <1>0, <1>4, InvalidateCache DEF SendNotLoaded
    <2>2. spent' \in [Kinds -> Nat]
        BY <1>0, <1>4, SpendCounts, CommandFailsCounts DEF SendNotLoaded, Kinds
    <2>3. QED
        BY <1>0, <1>4, <2>1, <2>2, Released DEF SendNotLoaded, TypeOK, CacheType, OpType
<1>5. CASE SendUnanswered
    <2>1. spent' \in [Kinds -> Nat]
        BY <1>0, <1>5, SpendCounts DEF SendUnanswered, Kinds
    <2>2. QED
        BY <1>0, <1>5, <2>1, Released DEF SendUnanswered, TypeOK, OpType
<1>6. CASE Transmitted
    <2>1. keyAt' = keyAt
        BY <1>0, <1>6, NoteUsedCache DEF Transmitted, TypeOK
    <2>2. QED
        BY <1>0, <1>6, <2>1, Released DEF Transmitted, TypeOK, OpType
<1>7. CASE TransmitFails
    <2>1. CacheType' /\ spent' \in [Kinds -> Nat]
        BY <1>0, <1>7, InvalidateCache, CommandFailsCounts DEF TransmitFails
    <2>2. QED
        BY <1>0, <1>7, <2>1, Released DEF TransmitFails, TypeOK, CacheType, OpType
<1>8. CASE TransmitUnknown
    BY <1>0, <1>8, Released DEF TransmitUnknown, TypeOK, OpType
<1>9. ASSUME NEW D \in SUBSET Keys, NEW unread \in SUBSET Slots, ApplyStart(D, unread)
      PROVE  TypeOK'
    <2> DEFINE readable == {s \in Slots \ unread : reuse \/ s # 0}
               holding(k) == {s \in readable : chan[s] = k}
    <2>1. \A k : holding(k) # {} => First(holding(k)) \in Slots
        BY FirstIn
    <2>2. spent' \in [Kinds -> Nat]
        BY <1>0, <1>9, ApplyCounts DEF ApplyStart
    <2>3. placed' \in [Keys -> MaybeSlot] /\ todo' \in SUBSET Keys /\ free' \in SUBSET Slots
        BY <1>9, <2>1 DEF ApplyStart, MaybeSlot, Slots, NoSlot
    <2>4. OpType'
        BY <1>9, Holds DEF ApplyStart
    <2>5. QED
        BY <1>0, <1>9, <2>2, <2>3, <2>4 DEF ApplyStart, TypeOK, OpType
<1>10. ASSUME NEW k \in Keys, ApplyPick(k) PROVE TypeOK'
    <2>1. First(free) \in Slots
        BY <1>0, <1>10, FirstIn DEF ApplyPick, TypeOK
    <2>2. OpType'
        <3>1. op \in Op /\ op.does = "apply"
            BY <1>0, <1>10 DEF ApplyPick, TypeOK
        <3>2. op' = [op EXCEPT !.at = "set", !.key = k, !.slot = First(free)]
            BY <1>10 DEF ApplyPick
        <3>3. op' = [does |-> op.does, at |-> "set", key |-> k, slot |-> First(free),
                     evicted |-> op.evicted]
            BY <3>1, <3>2 DEF Op
        <3>4. QED
            BY <2>1, <3>1, <3>3 DEF OpType, Op, MaybeKey, MaybeSlot, Slots
    <2>3. QED
        BY <1>0, <1>10, <2>2 DEF ApplyPick, TypeOK, OpType
<1>11. CASE ApplyLoaded
    <2>1. OpType'
        BY <1>11, Holds DEF ApplyLoaded
    <2>2. placed' \in [Keys -> MaybeSlot] /\ free' \in SUBSET Slots
        BY <1>0, <1>11 DEF ApplyLoaded, TypeOK, MaybeSlot, Slots
    <2>3. QED
        BY <1>0, <1>11, <2>1, <2>2 DEF ApplyLoaded, TypeOK, OpType
<1>12. CASE ApplyNotLoaded
    <2>1. spent' \in [Kinds -> Nat]
        BY <1>0, <1>12, SpendCounts, CommandFailsCounts DEF ApplyNotLoaded, Kinds
    <2>2. QED
        BY <1>0, <1>12, <2>1, Holds DEF ApplyNotLoaded, TypeOK, OpType
<1>13. CASE ApplyDone
    <2>1. CacheType' /\ pend' \in [Slots -> MaybeKey]
        BY <1>13, ApplyDoneNotes
    <2>2. QED
        BY <1>0, <1>13, <2>1, Released
        DEF ApplyDone, TypeOK, CacheType, OpType, NoPlaces, MaybeSlot, NoSlot
<1>14. ASSUME NEW by \in {"sync", "setup"}, SyncStart(by) PROVE TypeOK'
    <2>1. CacheType'
        BY <1>14, EmptyCacheCache DEF SyncStart
    <2>2. OpType'
        BY <1>14, Syncs DEF SyncStart
    <2>3. QED
        BY <1>0, <1>14, <2>1, <2>2 DEF SyncStart, TypeOK, CacheType, OpType
<1>15. CASE SyncRead
    <2>1. op.slot \in Slots /\ chan[op.slot] \in MaybeKey
        BY <1>0, <1>15 DEF SyncRead, TypeOK
    <2>2. pend' \in [Slots -> MaybeKey]
        BY <1>0, <1>15, <2>1 DEF SyncRead, TypeOK
    <2>3. OpType'
        <3>1. CASE chan[op.slot] = NoKey
            BY <1>0, <1>15, <3>1, NextSlotType DEF SyncRead
        <3>2. CASE chan[op.slot] # NoKey
            BY <1>0, <1>15, <2>1, <3>2 DEF SyncRead, TypeOK, OpType, Op
        <3>3. QED
            BY <3>1, <3>2
    <2>4. QED
        BY <1>0, <1>15, <2>2, <2>3 DEF SyncRead, TypeOK, OpType
<1>16. CASE SyncUnread
    <2>1. spent' \in [Kinds -> Nat]
        BY <1>0, <1>16, CommandFailsCounts DEF SyncUnread
    <2>2. OpType'
        <3>1. CASE NextSlot
            BY <1>0, <1>16, <3>1, NextSlotType DEF SyncUnread
        <3>2. CASE ~NextSlot
            BY <1>16, <3>2, Released, Holds DEF SyncUnread
        <3>3. QED
            BY <3>1, <3>2
    <2>3. QED
        BY <1>0, <1>16, <2>1, <2>2 DEF SyncUnread, TypeOK, OpType
<1>17. CASE SyncClear
    <2>1. OpType'
        BY <1>0, <1>17, NextSlotType DEF SyncClear
    <2>2. QED
        BY <1>0, <1>17, <2>1 DEF SyncClear, TypeOK, OpType, MaybeKey
<1>18. CASE SyncNotCleared
    <2>1. OpType' /\ spent' \in [Kinds -> Nat]
        BY <1>0, <1>18, NextSlotType, CommandFailsCounts DEF SyncNotCleared
    <2>2. QED
        BY <1>0, <1>18, <2>1 DEF SyncNotCleared, TypeOK, OpType
<1>19. CASE SetupTimesOut
    <2>1. spent' \in [Kinds -> Nat]
        BY <1>0, <1>19, SpendCounts DEF SetupTimesOut, Kinds
    <2>2. QED
        BY <1>0, <1>19, <2>1, Released DEF SetupTimesOut, TypeOK, OpType
<1>20. ASSUME NEW s \in Slots, Hear(s) PROVE TypeOK'
    <2>1. spent' \in [Kinds -> Nat]
        BY <1>0, <1>20, SpendCounts DEF Hear, Kinds
    <2>2. [slot |-> s, key |-> chan[s], offline |-> link # "up"] \in Frame
        BY <1>0, <1>20 DEF Hear, TypeOK, Frame, MaybeKey
    <2>3. queue' \in Seq(Frame)
        BY <1>0, <1>20, <2>2, AppendProperties DEF Hear, TypeOK
    <2>4. QED
        BY <1>0, <1>20, <2>1, <2>3 DEF Hear, TypeOK
<1>21. CASE Fetch
    <2>1. queue' \in Seq(Frame) /\ stored' \in [own : MaybeKey, as : MaybeKey, offline : BOOLEAN]
        BY <1>0, <1>21, KeyForSlotType, TakeType DEF Fetch
    <2>2. QED
        BY <1>0, <1>21, <2>1 DEF Fetch, TypeOK
<1>22. CASE DrainFrame
    <2> DEFINE s == Head(queue).slot
    <2>1. s \in Slots /\ KeyForSlot(s) \in MaybeKey /\ chan[s] \in MaybeKey
        BY <1>0, <1>22, KeyForSlotType DEF DrainFrame, TypeOK
    <2> HIDE DEF s
    <2>2. \/ UNCHANGED spent /\ Take(IF chan[s] # NoKey THEN chan[s] ELSE KeyForSlot(s))
             /\ pend' = (IF chan[s] # NoKey THEN [pend EXCEPT ![s] = chan[s]] ELSE pend)
          \/ CommandFails /\ Take(KeyForSlot(s)) /\ UNCHANGED pend
        BY <1>22 DEF DrainFrame, s
    <2>3. queue' \in Seq(Frame) /\ stored' \in [own : MaybeKey, as : MaybeKey, offline : BOOLEAN]
        BY <1>0, <1>22, <2>1, <2>2, TakeType DEF DrainFrame
    <2>4. spent' \in [Kinds -> Nat]
        BY <1>0, <2>2, CommandFailsCounts DEF TypeOK
    <2>5. pend' \in [Slots -> MaybeKey]
        BY <1>0, <2>1, <2>2 DEF TypeOK
    <2>6. QED
        BY <1>0, <1>22, <2>3, <2>4, <2>5 DEF DrainFrame, TypeOK
<1>23. CASE DrainOver
    <2>1. spent' \in [Kinds -> Nat]
        BY <1>0, <1>23, CommandFailsCounts DEF DrainOver, TypeOK
    <2>2. pend' \in [Slots -> MaybeKey] /\ fetching' \in BOOLEAN
        BY <1>0, <1>23 DEF DrainOver, TypeOK, MaybeKey
    <2>3. OpType'
        <3>1. CASE op.does = "setup"
            BY <1>23, <3>1, Released DEF DrainOver
        <3>2. CASE op.does # "setup"
            BY <1>0, <1>23, <3>2, GoesOn DEF DrainOver, TypeOK, OpType, Places
        <3>3. QED
            BY <3>1, <3>2
    <2>4. QED
        BY <1>0, <1>23, <2>1, <2>2, <2>3 DEF DrainOver, TypeOK, OpType
<1>24. CASE PollStart
    BY <1>0, <1>24, Holds DEF PollStart, TypeOK, OpType
<1>25. CASE Audit
    <2>1. CacheType'
        BY <1>0, <1>25, EmptyCacheCache, SameCache DEF Audit
    <2>2. QED
        BY <1>0, <1>25, <2>1, Released DEF Audit, TypeOK, CacheType, OpType
<1>26. CASE AuditUnread
    <2>1. CacheType' /\ spent' \in [Kinds -> Nat]
        BY <1>0, <1>26, EmptyCacheCache, SameCache, CommandFailsCounts DEF AuditUnread
    <2>2. QED
        BY <1>0, <1>26, <2>1, Released DEF AuditUnread, TypeOK, CacheType, OpType
<1>27. CASE Connect
    <2>1. CacheType'
        BY <1>27, EmptyCacheCache DEF Connect
    <2>2. OpType'
        BY <1>27, Syncs DEF Connect
    <2>3. QED
        BY <1>0, <1>27, <2>1, <2>2 DEF Connect, TypeOK, CacheType, OpType
<1>28. CASE Disconnect
    <2>1. CacheType' /\ spent' \in [Kinds -> Nat]
        BY <1>0, <1>28, EmptyCacheCache, SpendCounts DEF Disconnect, Kinds
    <2>2. QED
        BY <1>0, <1>28, <2>1 DEF Disconnect, TypeOK, CacheType, MaybeKey
<1>29. CASE LinkDropped
    <2>1. spent' \in [Kinds -> Nat]
        BY <1>0, <1>29, SpendCounts DEF LinkDropped, Kinds
    <2>2. QED
        BY <1>0, <1>29, <2>1 DEF LinkDropped, TypeOK
<1>30. CASE LinkReopened
    BY <1>0, <1>30 DEF LinkReopened, TypeOK
<1>31. CASE UNCHANGED vars
    BY <1>0, <1>31 DEF vars, TypeOK
<1>32. QED
    BY <1>1, <1>2, <1>3, <1>4, <1>5, <1>6, <1>7, <1>8, <1>9, <1>10, <1>11, <1>12, <1>13,
       <1>14, <1>15, <1>16, <1>17, <1>18, <1>19, <1>20, <1>21, <1>22, <1>23, <1>24, <1>25,
       <1>26, <1>27, <1>28, <1>29, <1>30, <1>31
    DEF Next, SendStep, ApplyStep, SyncStep, DrainStep, RequestStep, LinkStep

-----------------------------------------------------------------------------
(* The cache stays one-to-one *)

\* The actions that change the cache; nothing changes the transport.
LEMMA CacheActions ==
    ASSUME [Next]_vars
    PROVE  /\ reuse' = reuse
           /\ \/ SendLoaded \/ SendNotLoaded \/ Transmitted \/ TransmitFails \/ ApplyDone
              \/ EmptyCache
              \/ UNCHANGED cacheVars
<1> USE DEF radioVars, linkVars, applyVars
<1>1. CASE SendStep
    BY <1>1 DEF SendStep, SetLands, SendLoaded, SendNotLoaded, SendUnanswered, Transmitted,
                TransmitFails, TransmitUnknown
<1>2. CASE ApplyStep
    BY <1>2 DEF ApplyStep, ApplyPick, ApplyLoaded, ApplyNotLoaded, ApplyDone
<1>3. CASE SyncStep
    BY <1>3 DEF SyncStep, SyncRead, SyncUnread, SyncClear, SyncNotCleared, SetupTimesOut
<1>4. CASE DrainStep
    BY <1>4 DEF DrainStep, DrainFrame, DrainOver, Audit, AuditUnread
<1>5. CASE RequestStep \/ SyncStart("setup")
    BY <1>5 DEF RequestStep, SendStart, ApplyStart, SyncStart
<1>6. CASE LinkStep
    BY <1>6 DEF LinkStep, Connect, Disconnect, LinkDropped, LinkReopened
<1>7. CASE PollStart \/ Fetch \/ \E s \in Slots : Hear(s)
    BY <1>7 DEF PollStart, Fetch, Hear
<1>8. CASE UNCHANGED vars
    BY <1>8 DEF vars
<1>9. QED
    BY <1>1, <1>2, <1>3, <1>4, <1>5, <1>6, <1>7, <1>8 DEF Next

\* No action gives a slot two owners, or puts a channel in an unused cache.
LEMMA CacheStep ==
    ASSUME IInv, [Next]_vars
    PROVE  CacheIsOneToOne' /\ (~reuse' => Cached' = {})
<1>0. TypeOK /\ CacheIsOneToOne /\ (~reuse => Cached = {})
    BY DEF IInv
<1>1. CASE SendLoaded
    <2>1. op.key \in Keys /\ op.slot \in Slots
        BY <1>0, <1>1 DEF SendLoaded, TypeOK
    <2>2. CacheIsOneToOne' /\ (~reuse => UNCHANGED cacheVars)
        BY <1>0, <1>1, <2>1, NoteLoadedCache DEF SendLoaded
    <2>3. QED
        BY <1>0, <2>2, SameCache, CacheActions
<1>2. CASE SendNotLoaded \/ TransmitFails
    <2>1. PICK k : Invalidate(k)
        BY <1>2 DEF SendNotLoaded, TransmitFails
    <2>2. QED
        BY <1>0, <2>1, InvalidateCache, CacheActions
<1>3. CASE Transmitted
    <2>1. UNCHANGED cacheVars
        BY <1>0, <1>3, NoteUsedCache DEF Transmitted, TypeOK, cacheVars
    <2>2. QED
        BY <1>0, <2>1, SameCache, CacheActions
<1>4. CASE ApplyDone
    <2>1. CacheIsOneToOne' /\ (~reuse => UNCHANGED cacheVars)
        BY <1>4, ApplyDoneNotes
    <2>2. QED
        BY <1>0, <2>1, SameCache, CacheActions
<1>5. CASE EmptyCache
    BY <1>5, EmptyCacheCache
<1>6. CASE UNCHANGED cacheVars
    BY <1>0, <1>6, SameCache, CacheActions
<1>7. QED
    BY <1>1, <1>2, <1>3, <1>4, <1>5, <1>6, CacheActions

-----------------------------------------------------------------------------
(* What the operations know while they hold the lock *)

\* The lock is free afterwards.
Releasing == SendNotLoaded \/ SendUnanswered \/ Transmitted \/ TransmitFails \/ TransmitUnknown
             \/ ApplyDone \/ SetupTimesOut \/ Audit \/ AuditUnread
\* The operation and the slots stay as they are.
Aside == UNCHANGED <<op, chan, cacheVars, applyVars>>
SyncAction == SyncRead \/ SyncUnread \/ SyncClear \/ SyncNotCleared

\* A step of a sync leaves the lock free, or goes on with another slot or the drain.
LEMMA SyncActionOp ==
    ASSUME TypeOK, SyncAction
    PROVE  /\ op.at \in {"read", "clear"}
           /\ op'.at \in {"read", "clear", "drain", "idle"}
           /\ op'.does \in {op.does, "none"}
<1>1. op.at \in {"read", "clear"}
    BY DEF SyncAction, SyncRead, SyncUnread, SyncClear, SyncNotCleared
<1>2. CASE NextSlot
    BY <1>1, <1>2, NextSlotType
<1>3. CASE SyncRead /\ ~NextSlot
    BY <1>3, GoesOn DEF SyncRead, Places
<1>4. CASE SyncUnread /\ ~NextSlot
    BY <1>4, Released, Holds DEF SyncUnread
<1>5. QED
    BY <1>1, <1>2, <1>3, <1>4 DEF SyncAction, SyncClear, SyncNotCleared

\* The steps of Next by what they do to the operation.
LEMMA ActionKinds ==
    ASSUME [Next]_vars
    PROVE  \/ \E k \in Keys : SendStart(k)
           \/ SetLands \/ SendLoaded
           \/ \E D \in SUBSET Keys, unread \in SUBSET Slots : ApplyStart(D, unread)
           \/ \E k \in Keys : ApplyPick(k)
           \/ ApplyLoaded \/ ApplyNotLoaded
           \/ \E by \in {"sync", "setup"} : SyncStart(by)
           \/ Connect \/ PollStart \/ SyncAction \/ DrainOver \/ Disconnect
           \/ Releasing \/ Aside
<1> USE DEF radioVars, linkVars, Aside
<1>1. CASE SendStep
    BY <1>1 DEF SendStep, Releasing
<1>2. CASE ApplyStep
    BY <1>2 DEF ApplyStep, Releasing
<1>3. CASE SyncStep
    BY <1>3 DEF SyncStep, SyncAction, Releasing
<1>4. CASE DrainStep
    BY <1>4 DEF DrainStep, DrainFrame, Releasing
<1>5. CASE RequestStep \/ SyncStart("setup")
    BY <1>5 DEF RequestStep
<1>6. CASE LinkStep
    BY <1>6 DEF LinkStep, LinkDropped, LinkReopened
<1>7. CASE PollStart \/ Fetch \/ \E s \in Slots : Hear(s)
    BY <1>7 DEF Fetch, Hear
<1>8. CASE UNCHANGED vars
    BY <1>8 DEF vars
<1>9. QED
    BY <1>1, <1>2, <1>3, <1>4, <1>5, <1>6, <1>7, <1>8 DEF Next

\* Only sends and loadouts load slots, and a loadout only slots that are free.
LEMMA ShapeStep ==
    ASSUME IInv, [Next]_vars
    PROVE  OpShape' /\ (op'.does = "apply" => ApplyShape')
<1> USE KeysAssumption, SlotsAssumption DEF OpShape
<1>0. TypeOK /\ OpShape /\ (op.does = "apply" => ApplyShape)
    BY DEF IInv
<1>1. ASSUME NEW k \in Keys, SendStart(k) PROVE OpShape' /\ op'.does # "apply"
    BY <1>1 DEF SendStart
<1>2. CASE SetLands
    <2>1. /\ op'.at = "landed" /\ op'.does = op.does /\ op'.key = op.key /\ op'.slot = op.slot
          /\ op.key \in Keys /\ op.slot \in Slots
        BY <1>0, <1>2, GoesOn DEF SetLands, Places, TypeOK
    <2>2. chan' = [chan EXCEPT ![op.slot] = op.key] /\ placed' = placed /\ free' = free
        BY <1>2 DEF SetLands, applyVars
    <2>3. CASE op.does = "apply"
        <3>1. \A k \in Keys : placed[k] # NoSlot => placed[k] \in Slots /\ placed[k] # op.slot
            BY <1>0, <1>2, <2>3 DEF ApplyShape, SetLands, TypeOK, MaybeSlot, Slots, NoSlot
        <3>2. QED
            BY <1>0, <1>2, <2>1, <2>2, <2>3, <3>1 DEF ApplyShape, SetLands, TypeOK
    <2>4. QED
        BY <1>0, <1>2, <2>1, <2>3 DEF SetLands
<1>3. CASE SendLoaded
    BY <1>0, <1>3, GoesOn DEF SendLoaded, Places
<1>4. ASSUME NEW D \in SUBSET Keys, NEW unread \in SUBSET Slots, ApplyStart(D, unread)
      PROVE  OpShape' /\ ApplyShape'
    <2> DEFINE readable == {s \in Slots \ unread : reuse \/ s # 0}
               holding(k) == {s \in readable : chan[s] = k}
    <2>1. op'.does = "apply" /\ op'.at = "pick"
        BY <1>4, Holds DEF ApplyStart
    <2>2. /\ placed' = [k \in Keys |->
                          IF k \in D /\ holding(k) # {} THEN First(holding(k)) ELSE NoSlot]
          /\ free' = holding(NoKey) /\ chan' = chan
        BY <1>4 DEF ApplyStart, radioVars
    <2>3. \A k \in Keys : holding(k) # {} => First(holding(k)) \in holding(k)
        BY FirstIn
    <2>4. ASSUME NEW k \in Keys, placed'[k] # NoSlot
          PROVE  chan'[placed'[k]] = k /\ placed'[k] \notin free'
        BY <2>2, <2>3, <2>4
    <2>5. QED
        BY <2>1, <2>4 DEF ApplyShape
<1>5. ASSUME NEW k \in Keys, ApplyPick(k) PROVE OpShape' /\ ApplyShape'
    <2>1. First(free) \in free
        BY <1>0, <1>5, FirstIn DEF ApplyPick, TypeOK
    <2>2. op'.at = "set" /\ op'.does = "apply" /\ op'.slot = First(free)
        BY <1>0, <1>5 DEF ApplyPick, TypeOK, Op
    <2>3. QED
        BY <1>0, <1>5, <2>1, <2>2 DEF ApplyPick, ApplyShape, radioVars
<1>6. CASE ApplyLoaded
    <2>1. op'.at = "pick" /\ op'.does = "apply"
        BY <1>6, Holds DEF ApplyLoaded
    <2>2. chan[op.slot] = op.key /\ op.slot \in free /\ op.key \in Keys /\ ApplyShape
        BY <1>0, <1>6 DEF ApplyLoaded, ApplyShape, TypeOK
    <2>3. /\ placed' = [placed EXCEPT ![op.key] = op.slot]
          /\ free' = free \ {op.slot} /\ chan' = chan
        BY <1>6 DEF ApplyLoaded, radioVars
    <2>4. QED
        BY <1>0, <2>1, <2>2, <2>3 DEF ApplyShape, TypeOK
<1>7. CASE ApplyNotLoaded
    <2>1. op'.at = "pick" /\ op'.does = "apply"
        BY <1>7, Holds DEF ApplyNotLoaded
    <2>2. QED
        BY <1>0, <1>7, <2>1 DEF ApplyNotLoaded, ApplyShape, radioVars, applyVars
<1>8. CASE Connect \/ \E by \in {"sync", "setup"} : SyncStart(by)
    BY <1>8, Syncs DEF Connect, SyncStart
<1>9. CASE PollStart
    BY <1>9, Holds DEF PollStart
<1>10. CASE SyncAction
    BY <1>0, <1>10, SyncActionOp
<1>11. CASE DrainOver
    <2>1. CASE op.does = "setup"
        BY <1>11, <2>1, Released DEF DrainOver
    <2>2. CASE op.does # "setup"
        BY <1>0, <1>11, <2>2, GoesOn DEF DrainOver, Places
    <2>3. QED
        BY <2>1, <2>2
<1>12. CASE Disconnect
    BY <1>0, <1>12 DEF Disconnect, Idle, TypeOK
<1>13. CASE Releasing
    <2>1. op' = NoOp
        BY <1>13 DEF Releasing, SendNotLoaded, SendUnanswered, Transmitted, TransmitFails,
                     TransmitUnknown, ApplyDone, SetupTimesOut, Audit, AuditUnread
    <2>2. QED
        BY <2>1, Released
<1>14. CASE Aside
    BY <1>0, <1>14 DEF Aside, ApplyShape, applyVars
<1>15. QED
    BY <1>1, <1>2, <1>3, <1>4, <1>5, <1>6, <1>7, <1>8, <1>9, <1>10, <1>11, <1>12, <1>13,
       <1>14, ActionKinds

-----------------------------------------------------------------------------
(* The invariant of the cache's structure *)

\* It holds in the initial states.
LEMMA IInvInit == Init => IInv
<1> SUFFICES ASSUME Init PROVE IInv
    OBVIOUS
<1> USE KeysAssumption, SlotsAssumption DEF Init, NoPlaces
<1>1. OpType /\ op.does = "none" /\ op.at = "idle"
    BY DEF OpType, Op, NoOp, MaybeKey, MaybeSlot, NoSlot
<1>2. queue \in Seq(Frame)
    BY EmptySeq
<1>3. TypeOK
    <2>1. /\ slotOf \in [Keys -> MaybeSlot] /\ placed \in [Keys -> MaybeSlot]
          /\ keyAt \in [Slots -> MaybeKey] /\ pend \in [Slots -> MaybeKey]
        BY DEF MaybeKey, MaybeSlot, NoSlot
    <2>2. /\ stored \in [own : MaybeKey, as : MaybeKey, offline : BOOLEAN]
          /\ spent \in [Kinds -> Nat]
        BY DEF MaybeKey
    <2>3. QED
        BY <1>1, <1>2, <2>1, <2>2 DEF TypeOK, OpType
<1>4. CacheIsOneToOne /\ Cached = {}
    BY DEF CacheIsOneToOne, Cached
<1>5. QED
    BY <1>1, <1>3, <1>4 DEF IInv, OpShape

\* The structure of the cache is kept by every behaviour of the specification.
THEOREM Structure == Spec => []IInv
<1>1. IInv /\ [Next]_vars => IInv'
    BY TypeStep, CacheStep, ShapeStep DEF IInv
<1>2. QED
    BY <1>1, IInvInit, PTL DEF Spec

\* Every variable keeps its type, whatever the radio, the link and the requests do.
THEOREM SlotTypes == Spec => []TypeOK
<1>1. IInv => TypeOK
    BY DEF IInv
<1>2. QED
    BY <1>1, Structure, PTL

\* note_channel_slot_loaded, note_channel_slot_used, invalidate_cached_channel_slot and
\* reset_channel_send_cache, in any order and after any failure, never leave a slot
\* with two owners or a channel with two slots.
THEOREM OneOwner == Spec => []CacheIsOneToOne
<1>1. IInv => CacheIsOneToOne
    BY DEF IInv
<1>2. QED
    BY <1>1, Structure, PTL

-----------------------------------------------------------------------------
(* The cache tells the truth *)

\* A count of no unanswered command stood before the step as well, and the step was
\* not one.
LEMMA AnsweredBefore ==
    ASSUME TypeOK, [Next]_vars, Answered'
    PROVE  Answered /\ ~SendUnanswered
<1> USE DEF linkVars, Answered
<1>1. \A k \in Kinds : Spend(k) => k # "silent" /\ Answered
    BY SpendCounts
<1>2. CommandFails => Answered
    BY CommandFailsCounts
<1>3. {"send", "apply", "frame", "error", "lost", "silent", "drop", "teardown"} \subseteq Kinds
    BY DEF Kinds
<1>4. ~SendUnanswered
    BY <1>1, <1>3 DEF SendUnanswered
<1> SUFFICES Answered
    BY <1>4
<1>5. CASE SendStep
    BY <1>1, <1>2, <1>3, <1>4, <1>5
    DEF SendStep, SetLands, SendLoaded, SendNotLoaded, Transmitted, TransmitFails, TransmitUnknown
<1>6. CASE ApplyStep
    BY <1>1, <1>2, <1>3, <1>6 DEF ApplyStep, ApplyPick, ApplyLoaded, ApplyNotLoaded, ApplyDone
<1>7. CASE SyncStep
    BY <1>1, <1>2, <1>3, <1>7
    DEF SyncStep, SyncRead, SyncUnread, SyncClear, SyncNotCleared, SetupTimesOut
<1>8. CASE DrainStep
    BY <1>2, <1>8 DEF DrainStep, DrainFrame, DrainOver, Audit, AuditUnread
<1>9. CASE RequestStep \/ SyncStart("setup")
    <2>1. ASSUME NEW D, NEW unread, ApplyStart(D, unread) PROVE Answered
        BY <2>1, ApplyCounts DEF ApplyStart
    <2>2. QED
        BY <1>1, <1>3, <1>9, <2>1 DEF RequestStep, SendStart, SyncStart
<1>10. CASE LinkStep
    BY <1>1, <1>3, <1>10 DEF LinkStep, Connect, Disconnect, LinkDropped, LinkReopened
<1>11. CASE PollStart \/ Fetch \/ \E s \in Slots : Hear(s)
    BY <1>1, <1>3, <1>11 DEF PollStart, Fetch, Hear
<1>12. CASE UNCHANGED vars
    BY <1>12 DEF vars
<1>13. QED
    BY <1>4, <1>5, <1>6, <1>7, <1>8, <1>9, <1>10, <1>11, <1>12 DEF Next

\* With a cache that lost channels at most, an unchanged radio and the lock free the
\* truth is kept when no slot was half loaded.
LEMMA TruthOnRelease ==
    ASSUME op'.at = "idle", op'.does = "none", chan' = chan,
           \A k \in Cached' : chan[slotOf'[k]] = k
    PROVE  Truth'
BY DEF Truth, CacheTrue, SendAimed

\* While every set_channel is answered, each action keeps the cache true.
LEMMA TruthStep ==
    ASSUME IInv, Truth, [Next]_vars, Answered'
    PROVE  Truth'
<1> USE KeysAssumption, SlotsAssumption
<1>0. /\ TypeOK /\ OpShape /\ CacheIsOneToOne /\ (~reuse => Cached = {})
      /\ op.does = "apply" => ApplyShape
    BY DEF IInv
<1>k. \A k \in Cached : k \in Keys /\ slotOf[k] \in Slots /\ keyAt[slotOf[k]] = k
    BY <1>0 DEF TypeOK, CacheIsOneToOne, Cached, MaybeSlot, Slots, NoSlot
<1>c. op.at # "landed" => \A k \in Cached : chan[slotOf[k]] = k
    BY DEF Truth, CacheTrue
<1>1. ASSUME NEW k \in Keys, SendStart(k) PROVE Truth'
    <2>1. op.at # "landed" /\ chan' = chan /\ slotOf' = slotOf /\ Cached' = Cached
        BY <1>0, <1>1 DEF SendStart, Idle, TypeOK, radioVars, cacheVars, Cached
    <2>2. CacheTrue'
        BY <1>c, <2>1 DEF CacheTrue
    <2>3. op'.does = "send" /\ op'.at \in {"set", "transmit"}
        BY <1>1 DEF SendStart
    <2>4. op'.at = "transmit" => chan[op'.slot] = op'.key
        BY <1>1, <1>c, <2>1 DEF SendStart
    <2>5. ASSUME op'.at = "set", NEW j \in Cached, slotOf[j] = op'.slot PROVE j = op'.evicted
        <3>1. CASE reuse /\ Cardinality(Cached) < NumSlots
            <4>1. op'.slot = FirstFreeSlot
                BY <1>1, <2>5, <3>1, <1>0, FiniteCache DEF SendStart
            <4>2. keyAt[op'.slot] = NoKey
                BY <1>0, <3>1, <4>1, FreeSlotUnclaimed
            <4>3. QED
                BY <1>k, <2>5, <4>2
        <3>2. CASE reuse /\ ~(Cardinality(Cached) < NumSlots)
            BY <1>1, <1>k, <2>5, <3>2 DEF SendStart
        <3>3. CASE ~reuse
            BY <1>0, <2>5, <3>3
        <3>4. QED
            BY <3>1, <3>2, <3>3
    <2>6. QED
        BY <2>1, <2>2, <2>3, <2>4, <2>5 DEF Truth, SendShape, SendAimed
<1>2. CASE SetLands
    <2>1. /\ op'.at = "landed" /\ op'.does = op.does /\ op'.key = op.key /\ op'.slot = op.slot
          /\ op'.evicted = op.evicted /\ op.at = "set" /\ op.key \in Keys /\ op.slot \in Slots
        BY <1>0, <1>2, GoesOn DEF SetLands, Places, TypeOK
    <2>2. /\ chan' = [chan EXCEPT ![op.slot] = op.key] /\ slotOf' = slotOf /\ free' = free
          /\ Cached' = Cached
        BY <1>2 DEF SetLands, applyVars, cacheVars, Cached
    <2>3. CacheTrue'
        BY <1>0, <1>c, <1>k, <2>1, <2>2 DEF CacheTrue, TypeOK
    <2>4. op.does = "send" => SendShape'
        BY <1>0, <2>1, <2>2 DEF Truth, SendShape, TypeOK
    <2>5. QED
        BY <2>1, <2>2, <2>3, <2>4 DEF Truth, SendAimed
<1>3. CASE SendLoaded
    <2>1. /\ op.does = "send" /\ op.at = "landed" /\ op.key \in Keys /\ op.slot \in Slots
          /\ chan[op.slot] = op.key /\ chan' = chan
        BY <1>0, <1>3 DEF SendLoaded, TypeOK, Truth, SendShape, radioVars
    <2>2. op'.at = "transmit" /\ op'.does = "send" /\ op'.slot = op.slot /\ op'.key = op.key
        BY <1>0, <1>3, GoesOn DEF SendLoaded, Places
    <2> DEFINE D == {op.key}
               at == [k \in D |-> op.slot]
    <2>a. D \in SUBSET Keys /\ \A k \in D : at[k] = op.slot /\ k = op.key
        BY <2>1
    <2>b. NoteLoaded(D, at)
        BY <1>3 DEF SendLoaded
    <2>c. op.key \in D
        OBVIOUS
    <2> HIDE DEF D, at
    <2>3. /\ ~reuse => UNCHANGED cacheVars
          /\ reuse => \A j \in Cached' :
                IF j \in D THEN slotOf'[j] = at[j]
                ELSE j \in Cached /\ slotOf'[j] = slotOf[j] /\ \A k \in D : at[k] # slotOf[j]
        BY <1>0, <2>1, <2>a, <2>b, NoteLoadedCache
    <2>4. \A j \in Cached' : chan[slotOf'[j]] = j
        <3>1. CASE reuse
            BY <2>1, <2>a, <2>c, <2>3, <3>1 DEF Truth, CacheTrue
        <3>2. CASE ~reuse
            BY <1>0, <2>3, <3>2, SameCache
        <3>3. QED
            BY <3>1, <3>2
    <2>5. QED
        BY <2>1, <2>2, <2>4 DEF Truth, CacheTrue, SendAimed
<1>4. ASSUME NEW D \in SUBSET Keys, NEW unread \in SUBSET Slots, ApplyStart(D, unread)
      PROVE  Truth'
    <2>1. op'.does = "apply" /\ op'.at = "pick" /\ op.at # "landed"
        BY <1>0, <1>4, Holds DEF ApplyStart, Idle, TypeOK
    <2>2. chan' = chan /\ slotOf' = slotOf /\ Cached' = Cached
        BY <1>4 DEF ApplyStart, radioVars, cacheVars, Cached
    <2>3. \A s \in free' : chan[s] = NoKey
        BY <1>4 DEF ApplyStart
    <2>4. QED
        BY <1>c, <1>k, <2>1, <2>2, <2>3 DEF Truth, CacheTrue, SendAimed
<1>5. ASSUME NEW k \in Keys, ApplyPick(k) PROVE Truth'
    <2>1. op'.at = "set" /\ op'.does = "apply" /\ op.at # "landed" /\ op.does = "apply"
        BY <1>0, <1>5 DEF ApplyPick, TypeOK, Op
    <2>2. chan' = chan /\ slotOf' = slotOf /\ Cached' = Cached /\ free' = free
        BY <1>5 DEF ApplyPick, radioVars, cacheVars, Cached
    <2>3. QED
        BY <1>c, <2>1, <2>2 DEF Truth, CacheTrue, SendAimed
<1>6. CASE ApplyLoaded \/ ApplyNotLoaded
    <2>1. op'.at = "pick" /\ op'.does = "apply" /\ op.does = "apply" /\ op.at \in {"set", "landed"}
        BY <1>6, Holds DEF ApplyLoaded, ApplyNotLoaded
    <2>2. chan' = chan /\ slotOf' = slotOf /\ Cached' = Cached /\ free' \subseteq free
        BY <1>6 DEF ApplyLoaded, ApplyNotLoaded, radioVars, cacheVars, applyVars, Cached
    <2>3. \A k \in Cached : slotOf[k] # op.slot
        BY <1>0, <2>1 DEF Truth, ApplyShape
    <2>4. QED
        BY <2>1, <2>2, <2>3 DEF Truth, CacheTrue, SendAimed
<1>7. CASE Connect \/ \E by \in {"sync", "setup"} : SyncStart(by)
    <2>1. op'.at = "read" /\ op'.does \in {"sync", "setup"} /\ Cached' = {}
        BY <1>7, Syncs, EmptyCacheCache DEF Connect, SyncStart
    <2>2. QED
        BY <2>1 DEF Truth, CacheTrue, SendAimed
<1>8. CASE PollStart
    <2>1. op'.at = "drain" /\ op'.does = "poll" /\ op.at # "landed"
        BY <1>0, <1>8, Holds DEF PollStart, Idle, TypeOK
    <2>2. chan' = chan /\ slotOf' = slotOf /\ Cached' = Cached
        BY <1>8 DEF PollStart, radioVars, cacheVars, Cached
    <2>3. QED
        BY <1>c, <2>1, <2>2 DEF Truth, CacheTrue, SendAimed
<1>9. CASE SyncAction
    <2>1. Cached' = {}
        BY <1>9, SyncActionOp, <1>0
        DEF Truth, Cached, SyncAction, SyncRead, SyncUnread, SyncClear, SyncNotCleared, cacheVars
    <2>2. op'.at \in {"read", "clear", "drain", "idle"}
        BY <1>0, <1>9, SyncActionOp
    <2>3. QED
        BY <2>1, <2>2 DEF Truth, CacheTrue, SendAimed
<1>10. CASE DrainOver
    <2>1. op.at = "drain" /\ op.does # "apply"
        BY <1>0, <1>10 DEF DrainOver, OpShape
    <2>2. op'.at \in {"idle", "audit"} /\ op'.does \in {"none", op.does}
        <3>1. CASE op.does = "setup"
            BY <1>10, <3>1, Released DEF DrainOver
        <3>2. CASE op.does # "setup"
            BY <1>0, <1>10, <3>2, GoesOn DEF DrainOver, Places
        <3>3. QED
            BY <3>1, <3>2
    <2>3. chan' = chan /\ slotOf' = slotOf /\ Cached' = Cached
        BY <1>10 DEF DrainOver, radioVars, cacheVars, Cached
    <2>4. QED
        BY <1>c, <2>1, <2>2, <2>3 DEF Truth, CacheTrue, SendAimed
<1>11. CASE Disconnect
    <2>1. Cached' = {} /\ op' = op /\ op.at = "idle" /\ op.does = "none"
        BY <1>0, <1>11, EmptyCacheCache DEF Disconnect, Idle, TypeOK
    <2>2. QED
        BY <2>1 DEF Truth, CacheTrue, SendAimed
<1>12. CASE SendNotLoaded
    <2>1. op'.at = "idle" /\ op'.does = "none" /\ chan' = chan
        BY <1>12, Released DEF SendNotLoaded, radioVars
    <2>2. \A j \in Cached' : j # op.evicted /\ j \in Cached /\ slotOf'[j] = slotOf[j]
        BY <1>0, <1>12, InvalidateCache DEF SendNotLoaded
    <2>3. \A j \in Cached : slotOf[j] = op.slot => j = op.evicted
        BY <1>12 DEF SendNotLoaded, Truth, SendShape
    <2>4. QED
        BY <2>1, <2>2, <2>3, TruthOnRelease DEF Truth, CacheTrue
<1>13. CASE Transmitted \/ TransmitUnknown \/ SetupTimesOut
    <2>1. op'.at = "idle" /\ op'.does = "none" /\ chan' = chan /\ op.at # "landed"
        BY <1>0, <1>13, Released
        DEF Transmitted, TransmitUnknown, SetupTimesOut, OpShape, radioVars
    <2>2. slotOf' = slotOf /\ Cached' = Cached
        BY <1>13 DEF Transmitted, TransmitUnknown, SetupTimesOut, cacheVars, Cached
    <2>3. QED
        BY <1>c, <2>1, <2>2, TruthOnRelease
<1>14. CASE TransmitFails
    <2>1. op'.at = "idle" /\ op'.does = "none" /\ chan' = chan /\ op.at # "landed"
        BY <1>14, Released DEF TransmitFails, radioVars
    <2>2. \A j \in Cached' : j \in Cached /\ slotOf'[j] = slotOf[j]
        BY <1>0, <1>14, InvalidateCache DEF TransmitFails
    <2>3. QED
        BY <1>c, <2>1, <2>2, TruthOnRelease
<1>15. CASE ApplyDone
    <2>1. op'.at = "idle" /\ op'.does = "none" /\ chan' = chan /\ op.at # "landed"
        BY <1>15, Released DEF ApplyDone, radioVars
    <2>2. \A j \in Cached' : chan[slotOf'[j]] = j
        <3>1. CASE reuse
            BY <1>15, <1>c, <2>1, <3>1, ApplyDoneNotes DEF Cached
        <3>2. CASE ~reuse
            BY <1>0, <1>15, <3>2, ApplyDoneNotes, SameCache
        <3>3. QED
            BY <3>1, <3>2
    <2>3. QED
        BY <2>1, <2>2, TruthOnRelease
<1>16. CASE Audit \/ AuditUnread
    <2>1. op'.at = "idle" /\ op'.does = "none" /\ chan' = chan /\ op.at # "landed"
        BY <1>16, Released DEF Audit, AuditUnread, radioVars
    <2>2. Cached' = {} \/ (slotOf' = slotOf /\ Cached' = Cached)
        BY <1>16, EmptyCacheCache DEF Audit, AuditUnread, cacheVars, Cached
    <2>3. QED
        BY <1>c, <2>1, <2>2, TruthOnRelease
<1>17. CASE Aside
    BY <1>17 DEF Aside, Truth, CacheTrue, SendAimed, SendShape, Cached,
                 cacheVars, applyVars
<1>18. ~SendUnanswered
    BY <1>0, AnsweredBefore
<1>19. QED
    BY <1>1, <1>2, <1>3, <1>4, <1>5, <1>6, <1>7, <1>8, <1>9, <1>10, <1>11, <1>12, <1>13,
       <1>14, <1>15, <1>16, <1>17, <1>18, ActionKinds DEF Releasing

\* As long as every set_channel returned a result, the cache is true of the radio.
THEOREM CacheTruth == Spec => [](Answered => Truth)
<1>1. Init => (Answered => Truth)
    <2> SUFFICES ASSUME Init PROVE Truth
        OBVIOUS
    <2>1. op.at = "idle" /\ op.does = "none" /\ Cached = {}
        BY DEF Init, NoOp, NoPlaces, Cached
    <2>2. QED
        BY <2>1 DEF Truth, CacheTrue, SendAimed
<1>2. IInv /\ (Answered => Truth) /\ [Next]_vars => (Answered => Truth)'
    BY TruthStep, AnsweredBefore DEF IInv
<1>3. QED
    BY <1>1, <1>2, Structure, PTL DEF Spec

\* The cache names the channel each slot of the radio holds, however often sends evict
\* each other, loads fail or land unseen, slots are synced and links drop, as long as
\* every set_channel returned a result.
THEOREM CacheIsTrue == Spec => []CacheMatchesRadio
<1>1. (Answered => Truth) => CacheMatchesRadio
    BY DEF Truth, CacheMatchesRadio
<1>2. QED
    BY <1>1, CacheTruth, PTL

\* Under the same condition send_channel_message_with_effective_scope transmits on a
\* slot that holds the channel of the message.
THEOREM SendsAreOnOwnChannel == Spec => []SendsOnOwnChannel
<1>1. (Answered => Truth) => SendsOnOwnChannel
    BY DEF Truth, SendsOnOwnChannel
<1>2. QED
    BY <1>1, CacheTruth, PTL

-----------------------------------------------------------------------------
(* What the handler of a fetched frame looks up *)

\* A slot that is being loaded, or that a loadout has found or loaded and not noted yet.
Loading(s) == \/ op.at = "landed" /\ s = op.slot
              \/ op.does = "apply" /\ \E k \in Keys : placed[k] = s

\* The second map names the channel of each loaded slot, or none, outside of loads.
PendTrue == \A s \in Slots : chan[s] # NoKey => pend[s] \in {chan[s], NoKey} \/ Loading(s)

\* A loadout has no place yet for a channel it still has to load.
Unplaced ==
    op.does = "apply" =>
        /\ \A k \in todo : placed[k] = NoSlot
        /\ op.at \in {"set", "landed"} => op.key \notin todo /\ placed[op.key] = NoSlot

\* So far no load landed that was reported as an error.
Reported == spent["lost"] = 0

\* The second map, the radio and the loads stay as they are, or a loadout begins or
\* picks its next channel.
Steady ==
    /\ chan' = chan /\ pend' = pend
    /\ op.at # "landed" \/ op' = op
    /\ op.does = "apply" => op'.does = "apply" /\ placed' = placed

\* The second map is emptied.
Forgets == chan' = chan /\ pend' = [s \in Slots |-> NoKey]

\* Bounds only count up: what has not happened had not happened before.
LEMMA CountsStay ==
    ASSUME TypeOK, [Next]_vars, NEW i \in Kinds, spent'[i] = 0
    PROVE  spent[i] = 0
<1> USE DEF linkVars
<1>1. \A k \in Kinds : Spend(k) => spent[i] = 0
    <2> SUFFICES ASSUME NEW k \in Kinds, Spend(k) PROVE spent[i] = 0
        OBVIOUS
    <2>1. spent' = [spent EXCEPT ![k] = spent[k] + 1]
        BY DEF Spend
    <2>2. QED
        BY <2>1 DEF TypeOK
<1>2. {"send", "apply", "frame", "error", "lost", "silent", "drop", "teardown"} \subseteq Kinds
    BY DEF Kinds
<1>3. CommandFails => spent[i] = 0
    BY <1>1, <1>2 DEF CommandFails
<1>4. CASE SendUnanswered
    BY <1>1, <1>2, <1>4 DEF SendUnanswered
<1>5. CASE SendStep
    BY <1>1, <1>2, <1>3, <1>4, <1>5
    DEF SendStep, SetLands, SendLoaded, SendNotLoaded, Transmitted, TransmitFails, TransmitUnknown
<1>6. CASE ApplyStep
    BY <1>1, <1>2, <1>3, <1>6 DEF ApplyStep, ApplyPick, ApplyLoaded, ApplyNotLoaded, ApplyDone
<1>7. CASE SyncStep
    BY <1>1, <1>2, <1>3, <1>7
    DEF SyncStep, SyncRead, SyncUnread, SyncClear, SyncNotCleared, SetupTimesOut
<1>8. CASE DrainStep
    BY <1>3, <1>8 DEF DrainStep, DrainFrame, DrainOver, Audit, AuditUnread
<1>9. CASE RequestStep \/ SyncStart("setup")
    <2>1. ASSUME NEW D, NEW unread, ApplyStart(D, unread) PROVE spent[i] = 0
        <3>1. PICK n \in Nat : n = (IF unread = {} THEN 0 ELSE 1)
            OBVIOUS
        <3>2. spent' = [k \in Kinds |-> IF k = "apply" THEN spent[k] + 1
                                        ELSE IF k = "error" THEN spent[k] + n ELSE spent[k]]
            BY <2>1, <3>1 DEF ApplyStart, TypeOK, Kinds
        <3>3. QED
            BY <3>2 DEF TypeOK
    <2>2. QED
        BY <1>1, <1>2, <1>9, <2>1 DEF RequestStep, SendStart, SyncStart
<1>10. CASE LinkStep
    BY <1>1, <1>2, <1>10 DEF LinkStep, Connect, Disconnect, LinkDropped, LinkReopened
<1>11. CASE PollStart \/ Fetch \/ \E s \in Slots : Hear(s)
    BY <1>1, <1>2, <1>11 DEF PollStart, Fetch, Hear
<1>12. CASE UNCHANGED vars
    BY <1>12 DEF vars
<1>13. QED
    BY <1>5, <1>6, <1>7, <1>8, <1>9, <1>10, <1>11, <1>12 DEF Next

\* A loadout gives each channel one place.
LEMMA UnplacedStep ==
    ASSUME IInv, Unplaced, [Next]_vars
    PROVE  Unplaced'
<1>0. TypeOK /\ OpShape
    BY DEF IInv
<1>1. ASSUME NEW k \in Keys, SendStart(k) PROVE Unplaced'
    BY <1>1 DEF SendStart, Unplaced
<1>2. CASE SetLands
    <2>1. op'.at = "landed" /\ op'.does = op.does /\ op'.key = op.key /\ op.at = "set"
        BY <1>0, <1>2, GoesOn DEF SetLands, Places
    <2>2. QED
        BY <1>2, <2>1 DEF Unplaced, SetLands, applyVars
<1>3. CASE SendLoaded
    BY <1>0, <1>3, GoesOn DEF SendLoaded, Places, Unplaced
<1>4. ASSUME NEW D \in SUBSET Keys, NEW unread \in SUBSET Slots, ApplyStart(D, unread)
      PROVE  Unplaced'
    <2> DEFINE readable == {s \in Slots \ unread : reuse \/ s # 0}
               holding(k) == {s \in readable : chan[s] = k}
    <2>1. op'.at = "pick"
        BY <1>4, Holds DEF ApplyStart
    <2>2. /\ placed' = [k \in Keys |->
                          IF k \in D /\ holding(k) # {} THEN First(holding(k)) ELSE NoSlot]
          /\ todo' = {k \in D : holding(k) = {}}
        BY <1>4 DEF ApplyStart
    <2>3. \A k \in todo' : placed'[k] = NoSlot
        BY <2>2
    <2>4. QED
        BY <2>1, <2>3 DEF Unplaced
<1>5. ASSUME NEW k \in Keys, ApplyPick(k) PROVE Unplaced'
    <2>1. op'.key = k /\ k \in todo /\ todo' = todo \ {k} /\ placed' = placed /\ op.does = "apply"
        BY <1>0, <1>5 DEF ApplyPick, TypeOK, Op
    <2>2. QED
        BY <2>1 DEF Unplaced
<1>6. CASE ApplyLoaded
    <2>1. op'.at = "pick" /\ op.does = "apply" /\ op.at = "landed" /\ op.key \in Keys
        BY <1>0, <1>6, Holds DEF ApplyLoaded, TypeOK
    <2>2. placed' = [placed EXCEPT ![op.key] = op.slot] /\ todo' = todo
        BY <1>6 DEF ApplyLoaded
    <2>3. \A k \in todo' : placed'[k] = NoSlot
        BY <1>0, <2>1, <2>2 DEF Unplaced, TypeOK
    <2>4. QED
        BY <2>1, <2>3 DEF Unplaced
<1>7. CASE ApplyNotLoaded
    <2>1. op'.at = "pick" /\ op.does = "apply"
        BY <1>7, Holds DEF ApplyNotLoaded
    <2>2. QED
        BY <1>7, <2>1 DEF Unplaced, ApplyNotLoaded, applyVars
<1>8. CASE Connect \/ \E by \in {"sync", "setup"} : SyncStart(by)
    BY <1>8, Syncs DEF Connect, SyncStart, Unplaced
<1>9. CASE PollStart
    BY <1>9, Holds DEF PollStart, Unplaced
<1>10. CASE SyncAction
    <2>1. op'.does # "apply"
        BY <1>0, <1>10, SyncActionOp DEF OpShape
    <2>2. QED
        BY <2>1 DEF Unplaced
<1>11. CASE DrainOver
    <2>1. op.at = "drain" /\ op.does # "apply"
        BY <1>0, <1>11 DEF DrainOver, OpShape
    <2>2. op'.does \in {"none", op.does}
        <3>1. CASE op.does = "setup"
            BY <1>11, <3>1, Released DEF DrainOver
        <3>2. CASE op.does # "setup"
            BY <1>0, <1>11, <3>2, GoesOn DEF DrainOver, Places
        <3>3. QED
            BY <3>1, <3>2
    <2>3. QED
        BY <2>1, <2>2 DEF Unplaced
<1>12. CASE Disconnect
    BY <1>12 DEF Disconnect, Idle, Unplaced
<1>13. CASE Releasing
    <2>1. op' = NoOp
        BY <1>13 DEF Releasing, SendNotLoaded, SendUnanswered, Transmitted, TransmitFails,
                     TransmitUnknown, ApplyDone, SetupTimesOut, Audit, AuditUnread
    <2>2. QED
        BY <2>1, Released DEF Unplaced
<1>14. CASE Aside
    BY <1>14 DEF Aside, Unplaced, applyVars
<1>15. QED
    BY <1>1, <1>2, <1>3, <1>4, <1>5, <1>6, <1>7, <1>8, <1>9, <1>10, <1>11, <1>12, <1>13,
       <1>14, ActionKinds

\* The steps of Next by what they do to the second map.
LEMMA PendKinds ==
    ASSUME IInv, [Next]_vars
    PROVE  \/ SetLands \/ SendLoaded \/ SendUnanswered
           \/ op.at = "landed" /\ Spend("lost")
           \/ ApplyLoaded \/ ApplyDone \/ SyncRead \/ SyncClear \/ DrainFrame
           \/ Forgets \/ Steady
<1> USE DEF radioVars, linkVars, applyVars, Steady, Forgets
<1>0. TypeOK /\ OpShape
    BY DEF IInv
<1>1. CASE SendStep
    <2>1. CASE SendNotLoaded
        <3>1. op.does = "send" /\ op.at \in {"set", "landed"} /\ chan' = chan /\ pend' = pend
            BY <2>1 DEF SendNotLoaded
        <3>2. op.at = "landed" => Spend("lost")
            BY <2>1 DEF SendNotLoaded
        <3>3. QED
            BY <3>1, <3>2
    <2>2. CASE Transmitted \/ TransmitFails \/ TransmitUnknown
        BY <1>0, <2>2 DEF Transmitted, TransmitFails, TransmitUnknown, OpShape
    <2>3. QED
        BY <1>1, <2>1, <2>2 DEF SendStep
<1>2. CASE ApplyStep
    <2>1. ASSUME NEW k \in Keys, ApplyPick(k) PROVE Steady
        <3>1. op'.does = op.does
            BY <1>0, <2>1 DEF ApplyPick, TypeOK, Op
        <3>2. QED
            BY <2>1, <3>1 DEF ApplyPick
    <2>2. CASE ApplyNotLoaded
        <3>1. op.does = "apply" /\ op.at \in {"set", "landed"} /\ chan' = chan /\ pend' = pend
            BY <2>2 DEF ApplyNotLoaded
        <3>2. op'.does = "apply" /\ placed' = placed
            BY <2>2, Holds DEF ApplyNotLoaded
        <3>3. op.at = "landed" => Spend("lost")
            BY <2>2 DEF ApplyNotLoaded
        <3>4. QED
            BY <3>1, <3>2, <3>3
    <2>3. QED
        BY <1>2, <2>1, <2>2 DEF ApplyStep
<1>3. CASE SyncStep
    <2>1. op.does # "apply" /\ op.at # "landed"
        BY <1>0, <1>3
        DEF SyncStep, SyncRead, SyncUnread, SyncClear, SyncNotCleared, SetupTimesOut, OpShape
    <2>2. SyncUnread \/ SyncNotCleared \/ SetupTimesOut => chan' = chan /\ pend' = pend
        BY DEF SyncUnread, SyncNotCleared, SetupTimesOut
    <2>3. QED
        BY <1>3, <2>1, <2>2 DEF SyncStep
<1>4. CASE DrainStep
    <2>1. op.does # "apply" /\ op.at # "landed"
        BY <1>0, <1>4 DEF DrainStep, DrainFrame, DrainOver, Audit, AuditUnread, OpShape
    <2>2. CASE DrainOver
        BY <2>1, <2>2 DEF DrainOver
    <2>3. QED
        BY <1>4, <2>1, <2>2 DEF DrainStep, Audit, AuditUnread
<1>5. CASE RequestStep \/ SyncStart("setup")
    <2>1. op.does = "none" /\ op.at # "landed"
        BY <1>0, <1>5 DEF RequestStep, SendStart, ApplyStart, SyncStart, Idle, TypeOK
    <2>2. chan' = chan /\ pend' = pend
        BY <1>5 DEF RequestStep, SendStart, ApplyStart, SyncStart
    <2>3. QED
        BY <2>1, <2>2
<1>6. CASE LinkStep
    <2>1. CASE Connect
        BY <1>0, <2>1 DEF Connect, Idle, TypeOK
    <2>2. CASE Disconnect
        BY <2>2 DEF Disconnect
    <2>3. QED
        BY <1>6, <2>1, <2>2 DEF LinkStep, LinkDropped, LinkReopened
<1>7. CASE PollStart
    BY <1>0, <1>7 DEF PollStart, Idle, TypeOK
<1>8. CASE Fetch \/ \E s \in Slots : Hear(s)
    BY <1>8 DEF Fetch, Hear
<1>9. CASE UNCHANGED vars
    BY <1>9 DEF vars
<1>10. QED
    BY <1>1, <1>2, <1>3, <1>4, <1>5, <1>6, <1>7, <1>8, <1>9 DEF Next

\* No landed load was reported as an error by this step either.
LEMMA ReportedBefore ==
    ASSUME TypeOK, [Next]_vars, Reported'
    PROVE  Reported /\ ~Spend("lost")
<1>1. "lost" \in Kinds
    BY DEF Kinds
<1>2. Reported
    BY <1>1, CountsStay DEF Reported
<1>3. spent["lost"] \in Nat
    BY <1>1 DEF TypeOK
<1>4. Spend("lost") => spent'["lost"] = spent["lost"] + 1
    BY <1>1 DEF Spend, TypeOK
<1>5. QED
    BY <1>2, <1>3, <1>4 DEF Reported

\* As long as every load that lands returns a result, the second map stays true.
LEMMA PendStep ==
    ASSUME IInv, Truth, Unplaced, PendTrue, [Next]_vars, Answered', Reported'
    PROVE  PendTrue'
<1> USE KeysAssumption, SlotsAssumption
<1>0. TypeOK /\ OpShape /\ (op.does = "apply" => ApplyShape)
    BY DEF IInv
<1>1. CASE SetLands
    <2>1. /\ op.at = "set" /\ op'.at = "landed" /\ op'.does = op.does /\ op'.slot = op.slot
          /\ op.slot \in Slots
        BY <1>0, <1>1, GoesOn DEF SetLands, Places, TypeOK
    <2>2. chan' = [chan EXCEPT ![op.slot] = op.key] /\ pend' = pend /\ placed' = placed
        BY <1>1 DEF SetLands, applyVars
    <2>3. \A s \in Slots : s # op.slot => chan'[s] = chan[s]
        BY <1>0, <2>2 DEF TypeOK
    <2>4. ASSUME NEW s \in Slots, chan'[s] # NoKey
          PROVE  pend'[s] \in {chan'[s], NoKey} \/ Loading(s)'
        <3>1. CASE s = op.slot
            BY <2>1, <3>1 DEF Loading
        <3>2. CASE s # op.slot
            <4>1. pend[s] \in {chan[s], NoKey} \/ Loading(s)
                BY <2>3, <2>4, <3>2 DEF PendTrue
            <4>2. Loading(s) => Loading(s)'
                BY <2>1, <2>2 DEF Loading
            <4>3. QED
                BY <2>2, <2>3, <3>2, <4>1, <4>2
        <3>3. QED
            BY <3>1, <3>2
    <2>5. QED
        BY <2>4 DEF PendTrue
<1>2. CASE SendLoaded
    <2>1. /\ op.does = "send" /\ op.at = "landed" /\ op.key \in Keys /\ op.slot \in Slots
          /\ chan[op.slot] = op.key /\ chan' = chan
        BY <1>0, <1>2 DEF SendLoaded, TypeOK, Truth, SendShape, radioVars
    <2>2. pend'[op.slot] = op.key /\ \A s \in Slots : s # op.slot => pend'[s] = pend[s]
        BY <1>2, <2>1 DEF SendLoaded, NoteLoaded
    <2>3. QED
        BY <2>1, <2>2 DEF PendTrue, Loading
<1>3. CASE ApplyLoaded
    <2>1. /\ op.at = "landed" /\ op.does = "apply" /\ op'.does = "apply"
          /\ op.key \in Keys /\ op.slot \in Slots
        BY <1>0, <1>3, Holds DEF ApplyLoaded, TypeOK
    <2>2. placed' = [placed EXCEPT ![op.key] = op.slot] /\ chan' = chan /\ pend' = pend
        BY <1>3 DEF ApplyLoaded, radioVars
    <2>3. placed[op.key] = NoSlot
        BY <2>1 DEF Unplaced
    <2>4. ASSUME NEW s \in Slots, Loading(s) PROVE Loading(s)'
        <3>1. CASE s = op.slot
            BY <1>0, <2>1, <2>2, <3>1 DEF Loading, TypeOK
        <3>2. CASE s # op.slot
            <4>1. PICK k \in Keys : placed[k] = s
                BY <2>1, <2>4, <3>2 DEF Loading
            <4>2. k # op.key
                BY <2>3, <4>1 DEF Slots, NoSlot
            <4>3. QED
                BY <1>0, <2>1, <2>2, <4>1, <4>2 DEF Loading, TypeOK
        <3>3. QED
            BY <3>1, <3>2
    <2>5. QED
        BY <2>2, <2>4 DEF PendTrue
<1>4. CASE ApplyDone
    <2> DEFINE D == {k \in Keys : placed[k] # NoSlot}
    <2>1. op.does = "apply" /\ op.at = "pick" /\ chan' = chan
        BY <1>4 DEF ApplyDone, radioVars
    <2>2. pend' = [s \in Slots |->
                      IF \E k \in D : placed[k] = s THEN CHOOSE k \in D : placed[k] = s
                      ELSE pend[s]]
        BY <1>4 DEF ApplyDone, NoteLoaded
    <2>3. ASSUME NEW s \in Slots, chan'[s] # NoKey PROVE pend'[s] \in {chan'[s], NoKey}
        <3>1. CASE \E k \in D : placed[k] = s
            <4>1. pend'[s] \in D /\ placed[pend'[s]] = s
                BY <2>2, <3>1
            <4>2. chan[s] = pend'[s]
                BY <1>0, <2>1, <4>1 DEF ApplyShape
            <4>3. QED
                BY <2>1, <4>2
        <3>2. CASE ~\E k \in D : placed[k] = s
            <4>1. ~Loading(s)
                BY <2>1, <3>2 DEF Loading, Slots, NoSlot
            <4>2. QED
                BY <2>1, <2>2, <2>3, <3>2, <4>1 DEF PendTrue
        <3>3. QED
            BY <3>1, <3>2
    <2>4. QED
        BY <2>3 DEF PendTrue
<1>5. CASE SyncRead
    <2>1. op.slot \in Slots /\ chan' = chan /\ op.at = "read" /\ op.does # "apply"
        BY <1>0, <1>5 DEF SyncRead, TypeOK, OpShape, radioVars
    <2>2. pend' = pend \/ pend' = [pend EXCEPT ![op.slot] = chan[op.slot]]
        BY <1>5 DEF SyncRead
    <2>3. \A s \in Slots : pend'[s] \in {pend[s], chan[s]}
        BY <1>0, <2>1, <2>2 DEF TypeOK
    <2>4. QED
        BY <2>1, <2>3 DEF PendTrue, Loading
<1>6. CASE SyncClear
    <2>1. op.slot \in Slots /\ op.at = "clear" /\ op.does # "apply" /\ pend' = pend
        BY <1>0, <1>6 DEF SyncClear, TypeOK, OpShape
    <2>2. chan' = [chan EXCEPT ![op.slot] = NoKey]
        BY <1>6 DEF SyncClear
    <2>3. \A s \in Slots : chan'[s] \in {chan[s], NoKey}
        BY <1>0, <2>1, <2>2 DEF TypeOK
    <2>4. QED
        BY <2>1, <2>3 DEF PendTrue, Loading
<1>7. CASE DrainFrame
    <2>1. op.at = "drain" /\ op.does # "apply" /\ chan' = chan /\ op' = op
        BY <1>0, <1>7 DEF DrainFrame, OpShape
    <2>2. pend' = pend \/ \E s \in Slots : pend' = [pend EXCEPT ![s] = chan[s]]
        BY <1>0, <1>7, KeyForSlotType DEF DrainFrame
    <2>3. \A s \in Slots : pend'[s] \in {pend[s], chan[s]}
        BY <1>0, <2>2 DEF TypeOK
    <2>4. QED
        BY <2>1, <2>3 DEF PendTrue, Loading
<1>8. CASE Forgets
    BY <1>8 DEF Forgets, PendTrue
<1>9. CASE Steady
    <2>1. \A s \in Slots : Loading(s) => Loading(s)'
        BY <1>9 DEF Steady, Loading
    <2>2. QED
        BY <1>9, <2>1 DEF Steady, PendTrue
<1>10. ~SendUnanswered /\ ~Spend("lost")
    BY <1>0, AnsweredBefore, ReportedBefore
<1>11. QED
    BY <1>1, <1>2, <1>3, <1>4, <1>5, <1>6, <1>7, <1>8, <1>9, <1>10, PendKinds

\* A frame that comes in while the lock is free would be filed under the channel its
\* slot holds, or under none: as long as every set_channel returned a result, and none
\* landed that was reported as an error, get_channel_key_for_slot never answers with
\* another channel, neither after an eviction nor after a loadout, a sync, a failed
\* command or a new connection.
THEOREM LookupsAreCurrent == Spec => []LookupIsCurrent
<1> DEFINE Inv == Unplaced /\ (Answered /\ Reported => PendTrue)
<1>1. Init => Inv
    <2> SUFFICES ASSUME Init PROVE Inv
        OBVIOUS
    <2>1. op.does = "none" /\ pend = [s \in Slots |-> NoKey]
        BY DEF Init, NoOp
    <2>2. QED
        BY <2>1 DEF Unplaced, PendTrue
<1>2. IInv /\ (Answered => Truth) /\ Inv /\ [Next]_vars => Inv'
    <2> SUFFICES ASSUME IInv, Answered => Truth, Inv, [Next]_vars PROVE Inv'
        OBVIOUS
    <2>1. Unplaced'
        BY UnplacedStep
    <2>2. ASSUME Answered', Reported' PROVE PendTrue'
        BY <2>2, AnsweredBefore, ReportedBefore, PendStep DEF IInv
    <2>3. QED
        BY <2>1, <2>2
<1>3. IInv /\ (Answered => Truth) /\ Inv => LookupIsCurrent
    <2> SUFFICES ASSUME IInv, Truth, PendTrue, Idle, NEW s \in Slots, chan[s] # NoKey
                 PROVE  KeyForSlot(s) \in {chan[s], NoKey}
        BY DEF LookupIsCurrent, Reported
    <2>1. TypeOK /\ CacheIsOneToOne /\ op.at = "idle"
        BY DEF IInv, TypeOK, Idle
    <2>2. CASE keyAt[s] # NoKey
        <3>1. keyAt[s] \in Keys /\ slotOf[keyAt[s]] = s
            BY <2>1, <2>2 DEF TypeOK, CacheIsOneToOne, MaybeKey
        <3>2. chan[s] = keyAt[s]
            BY <2>1, <3>1, SlotsAssumption
            DEF Truth, CacheTrue, Cached, Slots, NoSlot
        <3>3. QED
            BY <2>2, <3>2 DEF KeyForSlot
    <2>3. CASE keyAt[s] = NoKey
        BY <2>1, <2>3 DEF KeyForSlot, PendTrue, Loading, Idle
    <2>4. QED
        BY <2>2, <2>3
<1>4. QED
    BY <1>1, <1>2, <1>3, Structure, CacheTruth, PTL DEF Spec

-----------------------------------------------------------------------------
(* Frames the radio queued while no link was up *)

\* So far no command failed and no link was dropped.
Undisturbed == spent["error"] = 0 /\ spent["drop"] = 0

\* The channel of a slot is still known: it is there, or was remembered before the
\* slot was cleared.
Remembered(s, k) == chan[s] = k \/ (chan[s] = NoKey /\ pend[s] = k)
\* Nobody took the frames queued while no link was up before the setup does.
Before == link = "gone" \/ op.does = "setup"

\* What a setup that nothing disturbs relies on.
SetupShape ==
    /\ link # "dropped" /\ ~again
    /\ link = "gone" => Idle
    /\ Before => ~fetching
    /\ op.does = "setup" => Cached = {}
    /\ op.at = "clear" => pend[op.slot] = chan[op.slot]
    /\ op.at \in {"audit", "transmit"} => op.does # "setup"
\* A queued frame that came in while no link was up will be filed right.
Fileable(f) == f.offline => Before /\ Remembered(f.slot, f.key)
AllFileable == \A i \in 1 .. Len(queue) : Fileable(queue[i])
\* The last one that was filed was.
FiledRight == stored.offline => stored.as = stored.own
OfflineInv == SetupShape /\ AllFileable /\ FiledRight

\* Nothing disturbed the radio before this step either, and this step does not.
LEMMA UndisturbedBefore ==
    ASSUME TypeOK, [Next]_vars, Undisturbed'
    PROVE  Undisturbed /\ ~Spend("error") /\ ~Spend("drop") /\ (CommandFails => link # "up")
<1>1. "error" \in Kinds /\ "drop" \in Kinds
    BY DEF Kinds
<1>2. Undisturbed
    BY <1>1, CountsStay DEF Undisturbed
<1>3. \A k \in Kinds : Spend(k) => spent'[k] = spent[k] + 1 /\ spent[k] \in Nat
    BY DEF Spend, TypeOK
<1>4. ~Spend("error") /\ ~Spend("drop")
    BY <1>1, <1>2, <1>3 DEF Undisturbed
<1>5. QED
    BY <1>2, <1>4 DEF CommandFails

\* The first frame of the queue is one of it, and the others follow.
LEMMA QueueParts ==
    ASSUME TypeOK, queue # <<>>
    PROVE  /\ 1 \in 1 .. Len(queue) /\ Head(queue) = queue[1] /\ Head(queue) \in Frame
           /\ \A i \in 1 .. Len(Tail(queue)) : i + 1 \in 1 .. Len(queue) /\ Tail(queue)[i] = queue[i + 1]
BY HeadTailProperties DEF TypeOK

\* The operation of a setup goes on with another slot, or drains.
LEMMA SetupGoesOn ==
    ASSUME TypeOK, op.does = "setup", op.at \in {"read", "clear"},
           NextSlot \/ op' = [op EXCEPT !.at = "clear"]
    PROVE  op'.does = "setup" /\ (op'.at = "clear" => op'.slot = op.slot)
<1>1. CASE op.slot + 1 < NumSlots /\ NextSlot
    BY <1>1 DEF NextSlot, TypeOK, Op
<1>2. CASE ~(op.slot + 1 < NumSlots) /\ NextSlot
    BY <1>2, Holds DEF NextSlot
<1>3. CASE op' = [op EXCEPT !.at = "clear"]
    BY <1>3, GoesOn DEF Places
<1>4. QED
    BY <1>1, <1>2, <1>3

\* A step outside of a setup, over an open link, that takes and queues no frame.
Apart ==
    /\ ~Before /\ op'.does # "setup"
    /\ op'.at = "clear" => pend'[op'.slot] = chan'[op'.slot]
    /\ queue' = queue /\ stored' = stored /\ link' = link /\ again' = again

\* Outside of a setup no frame that came in while no link was up is left.
LEMMA ApartStep ==
    ASSUME TypeOK, OfflineInv, Apart
    PROVE  OfflineInv'
<1>1. ~Before'
    BY DEF Before, Apart
<1>2. SetupShape'
    BY <1>1 DEF OfflineInv, SetupShape, Apart, Before
<1>3. \A i \in 1 .. Len(queue) : ~queue[i].offline
    BY DEF OfflineInv, AllFileable, Fileable, Apart
<1>4. AllFileable'
    BY <1>3 DEF AllFileable, Fileable, Apart
<1>5. QED
    BY <1>2, <1>4 DEF OfflineInv, FiledRight, Apart

\* Sends, loadouts, audits and the periodic sync are such steps.
LEMMA ApartSteps ==
    ASSUME IInv, OfflineInv, [Next]_vars, Undisturbed',
           \/ SendStep \/ ApplyStep \/ RequestStep \/ PollStart \/ Audit \/ AuditUnread
           \/ DrainOver /\ op.does # "setup"
           \/ SyncStep /\ op.does # "setup"
    PROVE  Apart
<1> USE DEF radioVars, linkVars
<1>0. TypeOK /\ OpShape /\ SetupShape
    BY DEF IInv, OfflineInv
<1>n. ~Spend("error") /\ ~Spend("drop") /\ (CommandFails => link # "up")
    BY <1>0, UndisturbedBefore
<1>1. CASE SendStep
    <2>1. op.does # "none" /\ op.does # "setup"
        BY <1>0, <1>1
        DEF SendStep, SetLands, SendLoaded, SendNotLoaded, SendUnanswered, Transmitted,
            TransmitFails, TransmitUnknown, TypeOK, OpShape, SetupShape
    <2>2. ~Before
        BY <1>0, <2>1 DEF Before, SetupShape, Idle
    <2>3. op'.does # "setup" /\ op'.at # "clear"
        <3>1. op' = NoOp \/ SetLands \/ SendLoaded
            BY <1>1
            DEF SendStep, SendNotLoaded, SendUnanswered, Transmitted, TransmitFails, TransmitUnknown
        <3>2. SetLands \/ SendLoaded => op'.does # "setup" /\ op'.at # "clear"
            BY <1>0, <2>1, GoesOn DEF SetLands, SendLoaded, Places
        <3>3. QED
            BY <3>1, <3>2, Released
    <2>4. queue' = queue /\ stored' = stored /\ link' = link /\ again' = again
        BY <1>1
        DEF SendStep, SetLands, SendLoaded, SendNotLoaded, SendUnanswered, Transmitted,
            TransmitFails, TransmitUnknown
    <2>5. QED
        BY <2>2, <2>3, <2>4 DEF Apart
<1>2. CASE ApplyStep
    <2>1. op.does = "apply"
        BY <1>2 DEF ApplyStep, ApplyPick, ApplyLoaded, ApplyNotLoaded, ApplyDone
    <2>2. ~Before
        BY <1>0, <2>1 DEF Before, SetupShape, Idle
    <2>3. ASSUME NEW k \in Keys, ApplyPick(k) PROVE op'.does # "setup" /\ op'.at # "clear"
        BY <1>0, <2>1, <2>3 DEF ApplyPick, TypeOK, Op
    <2>4. op'.does # "setup" /\ op'.at # "clear"
        BY <1>2, <2>3, Holds, Released DEF ApplyStep, ApplyLoaded, ApplyNotLoaded, ApplyDone
    <2>5. queue' = queue /\ stored' = stored /\ link' = link /\ again' = again
        BY <1>2 DEF ApplyStep, ApplyPick, ApplyLoaded, ApplyNotLoaded, ApplyDone
    <2>6. QED
        BY <2>2, <2>4, <2>5 DEF Apart
<1>3. CASE RequestStep
    <2>1. op.does = "none" /\ link = "up" /\ ~Before
        BY <1>3 DEF RequestStep, SendStart, ApplyStart, SyncStart, Idle, Before
    <2>2. op'.does # "setup" /\ op'.at # "clear"
        <3>1. ASSUME NEW k \in Keys, SendStart(k) PROVE op'.does # "setup" /\ op'.at # "clear"
            BY <3>1 DEF SendStart
        <3>2. ASSUME NEW D, NEW unread, ApplyStart(D, unread)
              PROVE  op'.does # "setup" /\ op'.at # "clear"
            BY <3>2, Holds DEF ApplyStart
        <3>3. SyncStart("sync") => op'.does # "setup" /\ op'.at # "clear"
            BY Syncs DEF SyncStart
        <3>4. QED
            BY <1>3, <3>1, <3>2, <3>3 DEF RequestStep
    <2>3. queue' = queue /\ stored' = stored /\ link' = link /\ again' = again
        <3>1. ~again
            BY <1>0 DEF SetupShape
        <3>2. again = FALSE
            BY <1>0, <3>1 DEF TypeOK
        <3>3. QED
            BY <1>3, <3>2 DEF RequestStep, SendStart, ApplyStart, SyncStart
    <2>4. QED
        BY <2>1, <2>2, <2>3 DEF Apart
<1>4. CASE PollStart
    <2>1. op'.does # "setup" /\ op'.at # "clear"
        BY <1>4, Holds DEF PollStart
    <2>2. QED
        BY <1>4, <2>1 DEF PollStart, Idle, Before, Apart
<1>5. CASE Audit \/ AuditUnread \/ (DrainOver /\ op.does # "setup")
    <2>1. op.does # "none" /\ op.does # "setup"
        BY <1>0, <1>5 DEF Audit, AuditUnread, DrainOver, TypeOK, SetupShape
    <2>2. ~Before
        BY <1>0, <2>1 DEF Before, SetupShape, Idle
    <2>3. op'.does # "setup" /\ op'.at # "clear"
        BY <1>0, <1>5, <2>1, GoesOn, Released DEF Audit, AuditUnread, DrainOver, Places
    <2>4. queue' = queue /\ stored' = stored /\ link' = link /\ again' = again
        BY <1>5 DEF Audit, AuditUnread, DrainOver
    <2>5. QED
        BY <2>2, <2>3, <2>4 DEF Apart
<1>6. CASE SyncStep /\ op.does # "setup"
    <2>1. op.does # "none" /\ SyncAction
        BY <1>0, <1>6
        DEF SyncStep, SyncAction, SyncRead, SyncUnread, SyncClear, SyncNotCleared,
            SetupTimesOut, TypeOK
    <2>2. ~Before
        BY <1>0, <1>6, <2>1 DEF Before, SetupShape, Idle
    <2>3. op'.does # "setup"
        BY <1>0, <1>6, <2>1, SyncActionOp
    <2>4. op.slot \in Slots
        BY <1>0, <2>1, SyncActionOp DEF TypeOK
    <2>5. ASSUME op'.at = "clear" PROVE pend'[op'.slot] = chan'[op'.slot]
        <3>1. ~NextSlot
            BY <1>0, <2>1, <2>5, SyncActionOp, NextSlotType
        <3>2. SyncRead /\ op' = [op EXCEPT !.at = "clear"]
            <4>1. ~SyncUnread
                BY <2>5, <3>1, Released, Holds DEF SyncUnread
            <4>2. QED
                BY <2>1, <3>1, <4>1 DEF SyncAction, SyncRead, SyncClear, SyncNotCleared
        <3>3. op'.slot = op.slot
            BY <1>0, <3>2, GoesOn DEF Places
        <3>4. pend' = [pend EXCEPT ![op.slot] = chan[op.slot]] /\ chan' = chan
            BY <3>1, <3>2 DEF SyncRead
        <3>5. QED
            BY <1>0, <2>4, <3>3, <3>4 DEF TypeOK
    <2>6. queue' = queue /\ stored' = stored /\ link' = link /\ again' = again
        BY <2>1 DEF SyncAction, SyncRead, SyncUnread, SyncClear, SyncNotCleared
    <2>7. QED
        BY <2>2, <2>3, <2>5, <2>6 DEF Apart
<1>7. QED
    BY <1>1, <1>2, <1>3, <1>4, <1>5, <1>6

\* Before a slot is cleared its channel is remembered, and the setup forgets nothing.
LEMMA SetupScans ==
    ASSUME IInv, OfflineInv, [Next]_vars, Undisturbed', SyncStep, op.does = "setup"
    PROVE  OfflineInv'
<1> USE DEF radioVars, linkVars, cacheVars
<1>0. TypeOK /\ SetupShape /\ AllFileable /\ FiledRight
    BY DEF IInv, OfflineInv
<1>1. op.at \in {"read", "clear"} \/ SetupTimesOut
    BY DEF SyncStep, SyncRead, SyncUnread, SyncClear, SyncNotCleared
<1>2. link = "up"
    BY <1>0 DEF SetupShape, Idle, TypeOK
<1>3. ~Spend("error") /\ (CommandFails => link # "up")
    BY <1>0, UndisturbedBefore
<1>4. SyncRead \/ SyncClear
    BY <1>2, <1>3 DEF SyncStep, SyncUnread, SyncNotCleared, SetupTimesOut
<1>5. op.at \in {"read", "clear"} /\ op.slot \in Slots
    BY <1>0, <1>4 DEF SyncRead, SyncClear, TypeOK
<1>6. NextSlot \/ op' = [op EXCEPT !.at = "clear"]
    BY <1>4 DEF SyncRead, SyncClear
<1>7. op'.does = "setup" /\ (op'.at = "clear" => op'.slot = op.slot)
    BY <1>0, <1>5, <1>6, SetupGoesOn
<1>8. /\ queue' = queue /\ stored' = stored /\ link' = link /\ again' = again
      /\ fetching' = fetching /\ slotOf' = slotOf
    BY <1>4 DEF SyncRead, SyncClear
<1>9. op'.at \notin {"audit", "transmit"}
    BY <1>0, <1>5, <1>6, NextSlotType, GoesOn DEF Places
<1>10. op'.at = "clear" => pend'[op'.slot] = chan'[op'.slot]
    <2> SUFFICES ASSUME op'.at = "clear" PROVE pend'[op'.slot] = chan'[op'.slot]
        OBVIOUS
    <2>1. ~NextSlot
        BY <1>0, <1>5, NextSlotType
    <2>2. pend' = [pend EXCEPT ![op.slot] = chan[op.slot]] /\ chan' = chan
        BY <1>4, <2>1 DEF SyncRead, SyncClear
    <2>3. QED
        BY <1>0, <1>5, <1>7, <2>2 DEF TypeOK
<1>11. SetupShape'
    BY <1>0, <1>2, <1>7, <1>8, <1>9, <1>10 DEF SetupShape, Before, Cached
<1>12. ASSUME NEW s \in Slots, NEW k \in Keys, Remembered(s, k) PROVE Remembered(s, k)'
    <2>1. CASE SyncRead
        <3>1. chan' = chan /\ (pend' = pend \/ pend' = [pend EXCEPT ![op.slot] = chan[op.slot]])
              /\ (chan[op.slot] = NoKey => pend' = pend)
            BY <2>1 DEF SyncRead
        <3>2. QED
            BY <1>0, <1>5, <1>12, <3>1, KeysAssumption DEF Remembered, TypeOK
    <2>2. CASE SyncClear
        <3>1. chan' = [chan EXCEPT ![op.slot] = NoKey] /\ pend' = pend /\ pend[op.slot] = chan[op.slot]
            BY <1>0, <2>2 DEF SyncClear, SetupShape
        <3>2. QED
            BY <1>0, <1>5, <1>12, <3>1, KeysAssumption DEF Remembered, TypeOK
    <2>3. QED
        BY <1>4, <2>1, <2>2
<1>13. AllFileable'
    <2> SUFFICES ASSUME NEW i \in 1 .. Len(queue), queue[i].offline
                 PROVE  Remembered(queue[i].slot, queue[i].key)'
        BY <1>7, <1>8 DEF AllFileable, Fileable, Before
    <2>1. queue[i] \in Frame
        BY <1>0 DEF TypeOK
    <2>2. Remembered(queue[i].slot, queue[i].key)
        BY <1>0 DEF AllFileable, Fileable
    <2> DEFINE s == queue[i].slot
               k == queue[i].key
    <2>3. s \in Slots /\ k \in Keys /\ Remembered(s, k)
        BY <2>1, <2>2 DEF Frame
    <2> HIDE DEF s, k
    <2>4. Remembered(s, k)'
        BY <1>8, <1>12, <2>3 DEF s, k
    <2>5. QED
        BY <1>8, <2>4 DEF s, k
<1>14. QED
    BY <1>0, <1>8, <1>11, <1>13 DEF OfflineInv, FiledRight

\* Outside of a setup every frame that is queued has been heard over an open link.
LEMMA QueueOnline ==
    ASSUME OfflineInv, ~Before
    PROVE  \A i \in 1 .. Len(queue) : ~queue[i].offline
BY DEF OfflineInv, AllFileable, Fileable

\* Taking the first frame leaves the others as they were.
LEMMA TakeKeeps ==
    ASSUME TypeOK, AllFileable, queue # <<>>, NEW key, Take(key), Before => Before',
           \A s \in Slots, k \in Keys : Remembered(s, k) => Remembered(s, k)'
    PROVE  AllFileable'
<1>1. queue' = Tail(queue)
    BY DEF Take
<1>2. ASSUME NEW i \in 1 .. Len(queue)', queue[i]'.offline
      PROVE  Before' /\ Remembered(queue[i].slot, queue[i].key)'
    <2>1. i + 1 \in 1 .. Len(queue) /\ queue[i]' = queue[i + 1]
        BY <1>1, QueueParts
    <2>2. PICK f \in Frame : f = queue[i + 1]
        BY <2>1 DEF TypeOK
    <2>3. Before /\ Remembered(f.slot, f.key)
        BY <1>2, <2>1, <2>2 DEF AllFileable, Fileable
    <2>4. f.slot \in Slots /\ f.key \in Keys
        BY DEF Frame
    <2>5. Remembered(f.slot, f.key)'
        BY <2>3, <2>4
    <2>6. QED
        BY <2>1, <2>2, <2>3, <2>5 DEF Remembered
<1>3. QED
    BY <1>2 DEF AllFileable, Fileable

\* A frame is heard, fetched or taken out of the queue.
LEMMA FrameSteps ==
    ASSUME IInv, OfflineInv, [Next]_vars, Undisturbed',
           DrainFrame \/ Fetch \/ \E s \in Slots : Hear(s)
    PROVE  OfflineInv'
<1> USE DEF radioVars, linkVars, cacheVars
<1>0. TypeOK /\ CacheIsOneToOne /\ SetupShape /\ AllFileable /\ FiledRight
    BY DEF IInv, OfflineInv
<1>1. CASE Fetch
    <2>1. queue # <<>> /\ Take(KeyForSlot(Head(queue).slot)) /\ ~Before
        BY <1>0, <1>1 DEF Fetch, SetupShape
    <2>2. ~Before' /\ SetupShape'
        BY <1>0, <1>1, <2>1 DEF Fetch, SetupShape, Before, Idle, Cached
    <2>3. \A i \in 1 .. Len(queue) : ~queue[i].offline
        BY <2>1, QueueOnline
    <2>4. AllFileable'
        <3>1. queue' = Tail(queue)
            BY <2>1 DEF Take
        <3>2. \A i \in 1 .. Len(queue') : ~queue'[i].offline
            BY <1>0, <2>1, <2>3, <3>1, QueueParts
        <3>3. QED
            BY <3>2 DEF AllFileable, Fileable
    <2>5. FiledRight'
        BY <1>0, <2>1, <2>3, QueueParts DEF Take, FiledRight
    <2>6. QED
        BY <2>2, <2>4, <2>5 DEF OfflineInv
<1>2. CASE DrainFrame
    <2> DEFINE f == Head(queue)
    <2>1. /\ op.at = "drain" /\ link = "up" /\ queue # <<>> /\ chan' = chan /\ op' = op
          /\ link' = link /\ fetching' = fetching /\ again' = again /\ slotOf' = slotOf
        BY <1>2 DEF DrainFrame
    <2>2. /\ Take(IF chan[f.slot] # NoKey THEN chan[f.slot] ELSE KeyForSlot(f.slot))
          /\ pend' = IF chan[f.slot] # NoKey THEN [pend EXCEPT ![f.slot] = chan[f.slot]] ELSE pend
        BY <1>0, <1>2, <2>1, UndisturbedBefore DEF DrainFrame
    <2>3. f \in Frame /\ f.slot \in Slots /\ f.key \in Keys /\ Fileable(f)
        BY <1>0, <2>1, QueueParts DEF AllFileable, Frame
    <2>4. SetupShape'
        BY <1>0, <2>1 DEF SetupShape, Before, Idle, Cached
    <2>5. ASSUME NEW s \in Slots, NEW k \in Keys, Remembered(s, k) PROVE Remembered(s, k)'
        BY <1>0, <2>1, <2>2, <2>3, <2>5, KeysAssumption DEF Remembered, TypeOK
    <2>6. Before => Before'
        BY <2>1 DEF Before
    <2>7. AllFileable'
        BY <1>0, <2>1, <2>2, <2>5, <2>6, TakeKeeps
    <2>8. ASSUME f.offline
          PROVE  (IF chan[f.slot] # NoKey THEN chan[f.slot] ELSE KeyForSlot(f.slot)) = f.key
        <3>1. Remembered(f.slot, f.key) /\ op.does = "setup"
            BY <2>1, <2>3, <2>8 DEF Fileable, Before
        <3>2. \A k \in Keys : slotOf[k] = NoSlot
            BY <1>0, <3>1 DEF SetupShape, Cached
        <3> HIDE DEF f
        <3>3. keyAt[f.slot] \in Keys => slotOf[keyAt[f.slot]] = f.slot
            BY <1>0, <2>3, KeysAssumption DEF CacheIsOneToOne
        <3>4. keyAt[f.slot] = NoKey
            BY <1>0, <2>3, <3>2, <3>3, SlotsAssumption DEF TypeOK, MaybeKey, Slots, NoSlot
        <3>5. QED
            BY <2>3, <3>1, <3>4, KeysAssumption DEF Remembered, KeyForSlot
    <2>9. FiledRight'
        BY <2>2, <2>8 DEF Take, FiledRight
    <2>10. QED
        BY <2>4, <2>7, <2>9 DEF OfflineInv
<1>3. ASSUME NEW s \in Slots, Hear(s) PROVE OfflineInv'
    <2> DEFINE f == [slot |-> s, key |-> chan[s], offline |-> link # "up"]
    <2>1. queue' = Append(queue, f) /\ UNCHANGED <<chan, pend, link, fetching, again, op, slotOf, stored>>
        BY <1>3 DEF Hear
    <2>2. f.offline => link = "gone"
        BY <1>0 DEF SetupShape, TypeOK
    <2>3. f.slot = s /\ f.key = chan[s]
        OBVIOUS
    <2> HIDE DEF f
    <2>4. SetupShape'
        BY <1>0, <2>1 DEF SetupShape, Before, Idle, Cached
    <2>5. Len(queue') = Len(queue) + 1 /\ queue'[Len(queue) + 1] = f
          /\ \A i \in 1 .. Len(queue) : queue'[i] = queue[i]
        BY <1>0, <2>1, AppendProperties DEF TypeOK
    <2>6. Fileable(f)
        BY <2>2, <2>3 DEF Fileable, Before, Remembered
    <2>7. \A i \in 1 .. Len(queue') : Fileable(queue'[i])
        <3> SUFFICES ASSUME NEW i \in 1 .. Len(queue') PROVE Fileable(queue'[i])
            OBVIOUS
        <3>1. Len(queue) \in Nat
            BY <1>0, LenProperties DEF TypeOK
        <3>2. CASE i = Len(queue) + 1
            BY <2>5, <2>6, <3>2
        <3>3. CASE i # Len(queue) + 1
            <4>1. i \in 1 .. Len(queue)
                BY <2>5, <3>1, <3>3
            <4>2. QED
                BY <1>0, <2>5, <4>1 DEF AllFileable
        <3>4. QED
            BY <3>2, <3>3
    <2>8. AllFileable'
        BY <2>1, <2>7 DEF AllFileable, Fileable, Before, Remembered
    <2>9. FiledRight'
        BY <1>0, <2>1 DEF FiledRight
    <2>10. QED
        BY <2>4, <2>8, <2>9 DEF OfflineInv
<1>4. QED
    BY <1>1, <1>2, <1>3

\* A setup drains all there is before it forgets what it remembered, and the link goes
\* only when no such frame is left.
LEMMA OfflineStep ==
    ASSUME IInv, OfflineInv, [Next]_vars, Undisturbed'
    PROVE  OfflineInv'
<1> USE DEF radioVars, linkVars, cacheVars
<1>0. TypeOK /\ OpShape /\ SetupShape /\ AllFileable /\ FiledRight
    BY DEF IInv, OfflineInv
<1>n. ~Spend("error") /\ ~Spend("drop") /\ (CommandFails => link # "up")
    BY <1>0, UndisturbedBefore
<1>1. CASE \/ SendStep \/ ApplyStep \/ RequestStep \/ PollStart \/ Audit \/ AuditUnread
           \/ DrainOver /\ op.does # "setup"
           \/ SyncStep /\ op.does # "setup"
    BY <1>0, <1>1, ApartSteps, ApartStep
<1>2. CASE SyncStep /\ op.does = "setup"
    BY <1>2, SetupScans
<1>3. CASE DrainFrame \/ Fetch \/ \E s \in Slots : Hear(s)
    BY <1>3, FrameSteps
<1>4. CASE DrainOver /\ op.does = "setup"
    <2>1. link = "up"
        BY <1>0, <1>4 DEF SetupShape, Idle, TypeOK
    <2>2. queue = <<>> /\ op' = NoOp /\ UNCHANGED <<queue, stored, link, again>>
        BY <1>4, <1>n, <2>1 DEF DrainOver
    <2>3. op'.does = "none" /\ op'.at = "idle"
        BY <2>2, Released
    <2>4. SetupShape'
        BY <1>0, <2>1, <2>2, <2>3 DEF SetupShape, Before
    <2>5. AllFileable' /\ FiledRight'
        BY <1>0, <2>2 DEF AllFileable, FiledRight
    <2>6. QED
        BY <2>4, <2>5 DEF OfflineInv
<1>5. CASE SyncStart("setup")
    BY <1>0, <1>5 DEF SyncStart, SetupShape
<1>6. CASE Connect
    <2>1. op'.does = "setup" /\ op'.at = "read" /\ Cached' = {}
        BY <1>6, Syncs, EmptyCacheCache DEF Connect
    <2>2. UNCHANGED <<chan, pend, queue, stored, fetching>> /\ link = "gone" /\ link' = "up" /\ ~again'
        BY <1>6 DEF Connect
    <2>3. SetupShape'
        BY <1>0, <2>1, <2>2 DEF SetupShape, Before
    <2>4. Before' /\ \A s, k : Remembered(s, k)' <=> Remembered(s, k)
        BY <2>1, <2>2 DEF Before, Remembered
    <2>5. AllFileable'
        BY <1>0, <2>2, <2>4 DEF AllFileable, Fileable, Before, Remembered
    <2>6. QED
        BY <1>0, <2>2, <2>3, <2>5 DEF OfflineInv, FiledRight
<1>7. CASE Disconnect
    <2>1. op' = op /\ op.does = "none" /\ op.at = "idle" /\ ~Before
        BY <1>0, <1>7 DEF Disconnect, Idle, TypeOK, Before
    <2>2. /\ queue' = queue /\ stored' = stored /\ link' = "gone" /\ ~fetching' /\ ~again'
        BY <1>7 DEF Disconnect
    <2>3. SetupShape'
        BY <2>1, <2>2 DEF SetupShape, Idle
    <2>4. AllFileable'
        BY <2>1, <2>2, QueueOnline DEF AllFileable, Fileable
    <2>5. QED
        BY <1>0, <2>2, <2>3, <2>4 DEF OfflineInv, FiledRight
<1>8. CASE LinkDropped \/ LinkReopened
    BY <1>0, <1>8, <1>n DEF LinkDropped, LinkReopened, SetupShape
<1>9. CASE UNCHANGED vars
    <2>1. UNCHANGED <<chan, pend, queue, stored, fetching, link, again, op, slotOf>>
        BY <1>9 DEF vars
    <2>2. SetupShape'
        BY <1>0, <2>1 DEF SetupShape, Before, Idle, Cached
    <2>3. AllFileable' /\ FiledRight'
        BY <1>0, <2>1 DEF AllFileable, Fileable, Before, Remembered, FiledRight
    <2>4. QED
        BY <2>2, <2>3 DEF OfflineInv
<1>10. QED
    BY <1>1, <1>2, <1>3, <1>4, <1>5, <1>6, <1>7, <1>8, <1>9 DEF Next, DrainStep, LinkStep

\* While no command fails and the library drops no link, drain_pending_messages files a
\* frame the radio queued while no link was up, which no raw packet corrects, under the
\* channel it came in on: after any number of connections, syncs, sends and loadouts.
THEOREM OfflineFramesFiled == Spec => []OfflineFrameFiled
<1>1. Init => (Undisturbed => OfflineInv)
    <2> SUFFICES ASSUME Init PROVE OfflineInv
        OBVIOUS
    <2>1. /\ queue = <<>> /\ link = "gone" /\ ~fetching /\ ~again /\ ~stored.offline
          /\ op.does = "none" /\ op.at = "idle"
        BY DEF Init, NoOp
    <2>2. SetupShape
        BY <2>1 DEF SetupShape, Idle
    <2>3. QED
        BY <2>1, <2>2 DEF OfflineInv, AllFileable, FiledRight
<1>2. IInv /\ (Undisturbed => OfflineInv) /\ [Next]_vars => (Undisturbed => OfflineInv)'
    BY OfflineStep, UndisturbedBefore DEF IInv
<1>3. (Undisturbed => OfflineInv) => OfflineFrameFiled
    BY DEF Undisturbed, OfflineInv, FiledRight, OfflineFrameFiled
<1>4. QED
    BY <1>1, <1>2, <1>3, Structure, PTL DEF Spec
=============================================================================
