------------------------- MODULE MessageLists_proofs -------------------------
(***************************************************************************)
(* What the operators of MessageLists keep: their types, which messages a  *)
(* list shows afterwards, and where each copy of the result comes from.    *)
(***************************************************************************)
EXTENDS MessageLists, TLAPS, SequenceTheorems, FiniteSetTheorems, WellFoundedInduction

----------------------------------------------------------------------------
(* Types *)

\* A list gives each message a sequence of marks.
LEMMA CopiesOf ==
    ASSUME NEW list \in Lists, NEW m \in Msgs
    PROVE  list[m] \in Seq(Marks) /\ DOMAIN list = Msgs
BY DEF Lists

\* The higher of two marks is a mark.
LEMMA HigherType ==
    ASSUME NEW x \in Marks, NEW y \in Marks
    PROVE  Higher(x, y) \in Marks /\ x <= Higher(x, y) /\ y <= Higher(x, y)
BY NAssumption DEF Higher, Marks

\* A list without messages.
LEMMA NothingType == Nothing \in Lists /\ Shown(Nothing) = {}
BY DEF Nothing, Lists, Shown

\* A message is shown if the list has a copy of it.
LEMMA ShownIs ==
    ASSUME NEW list, NEW m \in Msgs
    PROVE  m \in Shown(list) <=> list[m] # <<>>
BY DEF Shown

\* One copy.
LEMMA OneCopy ==
    ASSUME NEW x \in Marks
    PROVE  <<x>> \in Seq(Marks) /\ <<x>> # <<>> /\ Len(<<x>>) = 1 /\ <<x>>[1] = x
OBVIOUS

\* A copy there is has a first mark.
LEMMA FirstMark ==
    ASSUME NEW list \in Lists, NEW m \in Shown(list)
    PROVE  /\ m \in Msgs /\ Len(list[m]) \in Nat \ {0}
           /\ 1 \in DOMAIN list[m] /\ list[m][1] \in Marks
<1>1. m \in Msgs /\ list[m] \in Seq(Marks) /\ list[m] # <<>>
    BY DEF Lists, Shown
<1>2. Len(list[m]) \in Nat \ {0}
    BY <1>1, EmptySeq
<1>3. DOMAIN list[m] = 1 .. Len(list[m])
    BY <1>1, LenProperties
<1>4. 1 \in 1 .. Len(list[m])
    BY <1>2
<1>5. list[m][1] \in Marks
    BY <1>1, <1>4, ElementOfSeq
<1>6. QED
    BY <1>1, <1>2, <1>3, <1>4, <1>5

----------------------------------------------------------------------------
(* Pages and acknowledgements *)

\* A page has one copy of each of its messages.
LEMMA CopiesType ==
    ASSUME NEW S \in SUBSET Msgs, NEW mark \in [Msgs -> Marks]
    PROVE  /\ Copies(S, mark) \in Lists
           /\ Shown(Copies(S, mark)) = S
           /\ \A m \in Msgs : Len(Copies(S, mark)[m]) \in {0, 1}
<1>1. \A m \in Msgs : Copies(S, mark)[m] = IF m \in S THEN <<mark[m]>> ELSE <<>>
    BY DEF Copies
<1>2. \A m \in Msgs : mark[m] \in Marks
    OBVIOUS
<1>3. Copies(S, mark) \in Lists
    BY <1>2 DEF Copies, Lists
<1>4. \A m \in Msgs : <<mark[m]>> # <<>> /\ Len(<<mark[m]>>) = 1 /\ Len(<<>>) = 0
    BY <1>2, OneCopy
<1>5. Shown(Copies(S, mark)) = S
    BY <1>1, <1>4 DEF Shown
<1>6. ASSUME NEW m \in Msgs PROVE Len(Copies(S, mark)[m]) \in {0, 1}
    <2>1. Copies(S, mark)[m] = <<mark[m]>> \/ Copies(S, mark)[m] = <<>>
        BY <1>1
    <2>2. mark[m] \in Marks
        BY <1>2
    <2>3. Len(<<mark[m]>>) = 1
        BY <2>2, OneCopy
    <2>4. Len(<<>>) = 0
        OBVIOUS
    <2> DEFINE copy == Copies(S, mark)[m]
               single == <<mark[m]>>
    <2>5. copy = single \/ copy = <<>>
        BY <2>1
    <2>6. Len(single) = 1
        BY <2>3
    <2> HIDE DEF copy, single
    <2>7. Len(copy) = 1 \/ Len(copy) = 0
        BY <2>4, <2>5, <2>6, Zenon
    <2>8. Len(copy) \in {0, 1}
        BY <2>7, Zenon
    <2>9. QED
        BY <2>8, Zenon DEF copy
<1>7. QED
    BY <1>3, <1>5, <1>6

\* Buffered ACKs change marks only.
LEMMA WithAcksType ==
    ASSUME NEW list \in Lists, NEW acks \in [Msgs -> Marks]
    PROVE  /\ WithAcks(list, acks) \in Lists
           /\ Shown(WithAcks(list, acks)) = Shown(list)
           /\ \A m \in Msgs : Len(WithAcks(list, acks)[m]) = Len(list[m])
<1> DEFINE new == WithAcks(list, acks)
<1>1. ASSUME NEW m \in Msgs
      PROVE  new[m] \in Seq(Marks) /\ Len(new[m]) = Len(list[m])
    <2>1. list[m] \in Seq(Marks) /\ acks[m] \in Marks
        BY CopiesOf
    <2>2. Len(list[m]) \in Nat /\ DOMAIN list[m] = 1 .. Len(list[m])
        BY <2>1, LenProperties
    <2>3. new[m] = [i \in 1 .. Len(list[m]) |-> Higher(list[m][i], acks[m])]
        BY <2>2 DEF WithAcks
    <2>4. \A i \in 1 .. Len(list[m]) : Higher(list[m][i], acks[m]) \in Marks
        BY <2>1, ElementOfSeq, HigherType
    <2>5. new[m] \in Seq(Marks) /\ Len(new[m]) = Len(list[m])
        BY <2>2, <2>3, <2>4
    <2>6. QED
        BY <2>5
<1>2. new \in Lists
    <2>1. new = [m \in Msgs |-> new[m]]
        BY DEF WithAcks
    <2>2. QED
        BY <1>1, <2>1 DEF Lists
<1>3. \A m \in Msgs : new[m] # <<>> <=> list[m] # <<>>
    <2>1. \A m \in Msgs : list[m] \in Seq(Marks)
        BY CopiesOf
    <2>2. \A m \in Msgs : /\ new[m] = <<>> <=> Len(new[m]) = 0
                          /\ list[m] = <<>> <=> Len(list[m]) = 0
        BY <1>1, <2>1, EmptySeq
    <2>3. QED
        BY <1>1, <2>2
<1>4. Shown(new) = Shown(list)
    BY <1>3 DEF Shown
<1>5. QED
    BY <1>1, <1>2, <1>4

\* A mark that comes alone is put on the first copy, and takes no mark back.
LEMMA MarkFirstType ==
    ASSUME NEW list \in Lists, NEW m \in Msgs, NEW mark \in Marks
    PROVE  /\ MarkFirst(list, m, mark) \in Lists
           /\ Shown(MarkFirst(list, m, mark)) = Shown(list)
           /\ \A k \in Msgs : Len(MarkFirst(list, m, mark)[k]) = Len(list[k])
           /\ \A k \in Shown(list) : list[k][1] <= MarkFirst(list, m, mark)[k][1]
           /\ m \in Shown(list) => mark <= MarkFirst(list, m, mark)[m][1]
<1> DEFINE new == MarkFirst(list, m, mark)
           marked == [list[m] EXCEPT ![1] = Higher(list[m][1], mark)]
<1>0. \A k \in Shown(list) : list[k][1] \in Marks /\ list[k][1] <= list[k][1]
    BY FirstMark, NAssumption DEF Marks
<1>1. CASE list[m] = <<>>
    <2>1. new = list /\ m \notin Shown(list)
        BY <1>1 DEF MarkFirst, Shown
    <2>2. QED
        BY <1>0, <2>1
<1>2. CASE list[m] # <<>>
    <2>1. m \in Shown(list)
        BY <1>2 DEF Shown
    <2>2. list[m] \in Seq(Marks) /\ 1 \in 1 .. Len(list[m]) /\ list[m][1] \in Marks
        BY <2>1, FirstMark, CopiesOf, LenProperties
    <2>3. /\ Higher(list[m][1], mark) \in Marks
          /\ list[m][1] <= Higher(list[m][1], mark) /\ mark <= Higher(list[m][1], mark)
        BY <2>2, HigherType
    <2>4. /\ marked \in Seq(Marks) /\ Len(marked) = Len(list[m])
          /\ marked[1] = Higher(list[m][1], mark)
        BY <2>2, <2>3, ExceptSeq
    <2>5. marked # <<>>
        BY <2>2, <2>4, EmptySeq
    <2>6. new = [list EXCEPT ![m] = marked]
        BY <1>2 DEF MarkFirst
    <2> HIDE DEF marked
    <2>7. new \in Lists
        BY <2>4, <2>6 DEF Lists
    <2>8. \A k \in Msgs : new[k] = IF k = m THEN marked ELSE list[k]
        BY <2>6 DEF Lists
    <2>9. Shown(new) = Shown(list)
        BY <1>2, <2>5, <2>8 DEF Shown
    <2>10. \A k \in Msgs : Len(new[k]) = Len(list[k])
        BY <2>4, <2>8
    <2>11. \A k \in Shown(list) : list[k][1] <= new[k][1]
        BY <1>0, <2>3, <2>4, <2>8 DEF Shown
    <2>12. mark <= new[m][1]
        BY <2>3, <2>4, <2>8
    <2>13. QED
        BY <2>7, <2>9, <2>10, <2>11, <2>12
<1>3. QED
    BY <1>1, <1>2

\* A deleted message is gone from the list, and nothing else is.
LEMMA WithoutType ==
    ASSUME NEW list \in Lists, NEW m \in Msgs
    PROVE  /\ Without(list, m) \in Lists
           /\ Shown(Without(list, m)) = Shown(list) \ {m}
           /\ \A k \in Msgs : Without(list, m)[k] = IF k = m THEN <<>> ELSE list[k]
<1>1. \A k \in Msgs : Without(list, m)[k] = IF k = m THEN <<>> ELSE list[k]
    BY DEF Without, Lists
<1>2. <<>> \in Seq(Marks)
    BY EmptySeq
<1>3. Without(list, m) \in Lists
    BY <1>2 DEF Without, Lists
<1>4. QED
    BY <1>1, <1>3 DEF Shown

\* A message that comes alone is added once, if it is not there.
LEMMA AddIfAbsentType ==
    ASSUME NEW list \in Lists, NEW m \in Msgs, NEW mark \in Marks
    PROVE  /\ AddIfAbsent(list, m, mark) \in Lists
           /\ Shown(AddIfAbsent(list, m, mark)) = Shown(list) \cup {m}
           /\ \A k \in Msgs : AddIfAbsent(list, m, mark)[k] =
                 IF k = m /\ list[m] = <<>> THEN <<mark>> ELSE list[k]
<1>1. \A k \in Msgs : AddIfAbsent(list, m, mark)[k] =
          IF k = m /\ list[m] = <<>> THEN <<mark>> ELSE list[k]
    BY DEF AddIfAbsent, Lists
<1>2. <<mark>> \in Seq(Marks) /\ <<mark>> # <<>>
    BY OneCopy
<1>3. AddIfAbsent(list, m, mark) \in Lists
    BY <1>2 DEF AddIfAbsent, Lists
<1>4. QED
    BY <1>1, <1>2, <1>3 DEF Shown

\* An older page adds the messages the list has not.
LEMMA AppendUniqueType ==
    ASSUME NEW list \in Lists, NEW page \in Lists
    PROVE  /\ AppendUnique(list, page) \in Lists
           /\ Shown(AppendUnique(list, page)) = Shown(list) \cup Shown(page)
           /\ \A k \in Msgs : AppendUnique(list, page)[k] =
                 IF list[k] = <<>> THEN page[k] ELSE list[k]
<1>1. \A k \in Msgs : AppendUnique(list, page)[k] = IF list[k] = <<>> THEN page[k] ELSE list[k]
    BY DEF AppendUnique
<1>2. AppendUnique(list, page) \in Lists
    BY DEF AppendUnique, Lists
<1>3. QED
    BY <1>1, <1>2 DEF Shown

\* A newer page adds the messages that were not seen, whether the list has them or not.
LEMMA AppendUnseenType ==
    ASSUME NEW list \in Lists, NEW page \in Lists, NEW seen \in SUBSET Msgs
    PROVE  /\ AppendUnseen(list, page, seen) \in Lists
           /\ Shown(AppendUnseen(list, page, seen)) = Shown(list) \cup (Shown(page) \ seen)
           /\ \A k \in Msgs :
                 \/ AppendUnseen(list, page, seen)[k] = list[k]
                 \/ /\ k \in Shown(page) \ seen
                    /\ list[k] = <<>> => AppendUnseen(list, page, seen)[k] = page[k]
<1> DEFINE new == AppendUnseen(list, page, seen)
<1>1. \A k \in Msgs : /\ list[k] \in Seq(Marks) /\ page[k] \in Seq(Marks)
                      /\ list[k] \o page[k] \in Seq(Marks)
    BY CopiesOf, ConcatProperties
<1>2. \A k \in Msgs : new[k] = IF k \in seen THEN list[k] ELSE list[k] \o page[k]
    BY DEF AppendUnseen
<1>3. ASSUME NEW k \in Msgs
      PROVE  /\ page[k] = <<>> => list[k] \o page[k] = list[k]
             /\ list[k] = <<>> => list[k] \o page[k] = page[k]
             /\ list[k] \o page[k] = <<>> <=> list[k] = <<>> /\ page[k] = <<>>
    <2>1. list[k] \in Seq(Marks) /\ page[k] \in Seq(Marks)
        BY <1>1
    <2>a. list[k] \o <<>> = list[k] /\ <<>> \o page[k] = page[k]
        BY <2>1, ConcatEmptySeq
    <2>2. page[k] = <<>> => list[k] \o page[k] = list[k]
        BY <2>a, Zenon
    <2>3. list[k] = <<>> => list[k] \o page[k] = page[k]
        BY <2>a, Zenon
    <2>4. list[k] \o page[k] = <<>> <=> list[k] = <<>> /\ page[k] = <<>>
        BY <2>1, ConcatEqualIffEmpty
    <2>5. QED
        BY <2>2, <2>3, <2>4
<1>4. new \in Lists
    BY <1>1 DEF AppendUnseen, Lists
<1>5. Shown(new) = Shown(list) \cup (Shown(page) \ seen)
    BY <1>2, <1>3 DEF Shown
<1>6. \A k \in Msgs : \/ new[k] = list[k]
                      \/ /\ k \in Shown(page) \ seen
                         /\ list[k] = <<>> => new[k] = page[k]
    BY <1>2, <1>3 DEF Shown
<1>7. QED
    BY <1>4, <1>5, <1>6

\* A newest page replaces the copies of its messages, and drops those that were deleted.
LEMMA ReconciledType ==
    ASSUME NEW current \in Lists, NEW page \in Lists, NEW full, NEW atStart
    PROVE  /\ Reconciled(current, page, full, atStart) \in Lists
           /\ Shown(Reconciled(current, page, full, atStart)) =
                 Shown(page) \cup (Shown(current) \ Deleted(current, page, full, atStart))
           /\ \A k \in Msgs : Reconciled(current, page, full, atStart)[k] \in
                 {page[k], current[k], <<>>}
           /\ \A k \in Msgs \ Shown(page) : Reconciled(current, page, full, atStart)[k] \in
                 {current[k], <<>>}
<1> DEFINE new == Reconciled(current, page, full, atStart)
<1>1. \A k \in Msgs : new[k] = IF k \in Shown(page) THEN page[k]
                               ELSE IF k \in Deleted(current, page, full, atStart) THEN <<>>
                               ELSE current[k]
    BY DEF Reconciled
<1>2. <<>> \in Seq(Marks)
    BY EmptySeq
<1>3. new \in Lists
    BY <1>2 DEF Reconciled, Lists
<1>4. QED
    BY <1>1, <1>3 DEF Shown

----------------------------------------------------------------------------
(* The newest messages *)

\* Messages are finitely many.
LEMMA FiniteMsgs ==
    ASSUME NEW S \in SUBSET Msgs
    PROVE  IsFiniteSet(S) /\ Cardinality(S) \in Nat
<1>1. IsFiniteSet(Msgs)
    BY FS_Interval, NAssumption DEF Msgs
<1>2. QED
    BY <1>1, FS_Subset, FS_CardinalityType

\* A set of messages has a newest one.
LEMMA NewestOfSome ==
    ASSUME NEW S \in SUBSET Msgs, S # {}
    PROVE  \E top \in S : \A m \in S : m <= top
<1> DEFINE Below == {n \in 0 .. N : \E m \in S : m = N - n}
<1>1. \A m \in S : m \in 1 .. N
    BY DEF Msgs
<1>2. Below \subseteq Nat /\ Below # {}
    <2>1. PICK m \in S : TRUE
        OBVIOUS
    <2>2. N - m \in 0 .. N /\ m = N - (N - m)
        BY <1>1, <2>1, NAssumption
    <2>3. QED
        BY <2>2
<1>3. PICK least \in Below : \A t \in Below : ~(<<t, least>> \in OpToRel(<, Nat))
    BY <1>2, NatLessThanWellFounded, WFMin
<1>4. PICK top \in S : top = N - least
    BY <1>3
<1>5. ASSUME NEW m \in S PROVE m <= top
    <2>1. N - m \in Below
        BY <1>1, NAssumption
    <2>2. <<N - m, least>> \in Nat \X Nat /\ <<N - m, least>>[1] = N - m
          /\ <<N - m, least>>[2] = least
        BY <1>2, <1>3, <2>1
    <2>3. N - m < least => <<N - m, least>> \in OpToRel(<, Nat)
        BY <2>2, Zenon DEF OpToRel
    <2>4. ~(N - m < least)
        BY <1>3, <2>1, <2>3, Zenon
    <2>5. least \in Nat /\ m \in Nat /\ N \in Nat
        <3>1. m \in 1 .. N /\ N \in Nat
            BY <1>1, NAssumption
        <3> HIDE DEF Below
        <3>2. least \in Nat
            BY <1>2
        <3>3. QED
            BY <3>1, <3>2
    <2>6. QED
        BY <1>4, <2>4, <2>5
<1>6. QED
    BY <1>4, <1>5

\* A message newer than one of the newest n is one of them.
LEMMA NewestUpward ==
    ASSUME NEW S \in SUBSET Msgs, NEW n \in Nat,
           NEW low \in Newest(S, n), NEW m \in S, low <= m
    PROVE  m \in Newest(S, n)
<1> DEFINE over == {k \in S : k > m}
           overLow == {k \in S : k > low}
<1>1. \A k \in S : k \in Nat
    BY NAssumption DEF Msgs
<1>2. low \in S /\ Cardinality(overLow) < n
    BY DEF Newest
<1>3. over \subseteq overLow
    BY <1>1, <1>2
<1>4. overLow \in SUBSET Msgs /\ over \in SUBSET Msgs
    OBVIOUS
<1>5. IsFiniteSet(overLow) /\ Cardinality(overLow) \in Nat /\ Cardinality(over) \in Nat
    BY <1>4, FiniteMsgs
<1>6. Cardinality(over) <= Cardinality(overLow)
    BY <1>3, <1>5, FS_Subset
<1>7. Cardinality(over) < n
    BY <1>2, <1>5, <1>6
<1>8. QED
    BY <1>7 DEF Newest

\* When there are fewer than n newest ones, they are all there are.
LEMMA NewestAll ==
    ASSUME NEW S \in SUBSET Msgs, NEW n \in Nat, Cardinality(Newest(S, n)) < n
    PROVE  Newest(S, n) = S
<1>1. Newest(S, n) \subseteq S
    BY DEF Newest
<1>2. SUFFICES ASSUME S \ Newest(S, n) # {} PROVE FALSE
    BY <1>1
<1> DEFINE rest == S \ Newest(S, n)
<1>3. PICK top \in rest : \A m \in rest : m <= top
    <2>1. rest \in SUBSET Msgs /\ rest # {}
        BY <1>2
    <2>2. QED
        BY <2>1, NewestOfSome
<1> DEFINE over == {k \in S : k > top}
<1>4. \A k \in S : k \in Nat
    BY NAssumption DEF Msgs
<1>5. over \subseteq Newest(S, n)
    BY <1>3, <1>4
<1>6. over \in SUBSET Msgs /\ Newest(S, n) \in SUBSET Msgs
    BY <1>1
<1>7. Cardinality(over) \in Nat /\ IsFiniteSet(Newest(S, n)) /\ Cardinality(Newest(S, n)) \in Nat
    BY <1>6, FiniteMsgs
<1>8. Cardinality(over) <= Cardinality(Newest(S, n))
    BY <1>5, <1>7, FS_Subset
<1>9. ~(Cardinality(over) < n)
    BY <1>3 DEF Newest
<1>10. QED
    BY <1>7, <1>8, <1>9

----------------------------------------------------------------------------
(* The cache *)

\* A cached conversation keeps the copies of its newest messages.
LEMMA NormalizedType ==
    ASSUME NEW list \in Lists, NEW older \in BOOLEAN
    PROVE  /\ Normalized(list, older) \in Entry
           /\ \A k \in Msgs : Normalized(list, older).msgs[k] \in {list[k], <<>>}
<1> DEFINE newest == Newest(Shown(list), EntrySize)
           msgs == [m \in Msgs |-> IF m \in newest THEN list[m] ELSE <<>>]
<1>1. <<>> \in Seq(Marks)
    BY EmptySeq
<1>2. msgs \in Lists
    BY <1>1 DEF Lists
<1>3. Normalized(list, older) = [kept |-> TRUE, msgs |-> msgs,
                                 older |-> older \/ Shown(list) # newest]
    BY DEF Normalized
<1>4. (older \/ Shown(list) # newest) \in BOOLEAN
    OBVIOUS
<1> HIDE DEF newest
<1>5. \A k \in Msgs : msgs[k] \in {list[k], <<>>}
    OBVIOUS
<1> HIDE DEF msgs
<1>6. Normalized(list, older) \in Entry
    BY <1>2, <1>3, <1>4 DEF Entry
<1>7. Normalized(list, older).msgs = msgs
    BY <1>3
<1>8. QED
    BY <1>5, <1>6, <1>7

\* An empty entry.
LEMMA NoEntryType == NoEntry \in Entry /\ \A k \in Msgs : NoEntry.msgs[k] = <<>>
BY NothingType DEF NoEntry, Entry, Nothing

\* Caching a conversation replaces its entry, and empties at most others.
LEMMA PutType ==
    ASSUME NEW C, NEW cache \in [C -> Entry], NEW c \in C, NEW entry \in Entry, NEW size,
           NEW new \in Put(cache, c, entry, size)
    PROVE  /\ new \in [C -> Entry]
           /\ \A d \in C : new[d] = cache[d] \/ new[d] = NoEntry \/ (d = c /\ new[d] = entry)
<1>1. \/ new = [cache EXCEPT ![c] = entry]
      \/ \E e \in Kept(cache) \ {c} : new = [cache EXCEPT ![c] = entry, ![e] = NoEntry]
    BY DEF Put
<1>2. CASE new = [cache EXCEPT ![c] = entry]
    BY <1>2
<1>3. ASSUME NEW e \in Kept(cache) \ {c}, new = [cache EXCEPT ![c] = entry, ![e] = NoEntry]
      PROVE  /\ new \in [C -> Entry]
             /\ \A d \in C : new[d] = cache[d] \/ new[d] = NoEntry \/ (d = c /\ new[d] = entry)
    <2>1. e \in C /\ e # c
        BY DEF Kept
    <2>2. QED
        BY <1>3, <2>1, NoEntryType
<1>4. QED
    BY <1>1, <1>2, <1>3

\* A message of another conversation adds one copy of itself to the cache at most.
LEMMA AddedToType ==
    ASSUME NEW C, NEW cache \in [C -> Entry], NEW c \in C, NEW m \in Msgs, NEW mark \in Marks,
           NEW size, NEW new \in AddedTo(cache, c, m, mark, size)
    PROVE  /\ new \in [C -> Entry]
           /\ \A d \in C, k \in Msgs :
                 \/ new[d].msgs[k] \in {cache[d].msgs[k], <<>>}
                 \/ d = c /\ k = m /\ new[d].msgs[k] = <<mark>>
<1>1. \A d \in C : cache[d] \in Entry
    OBVIOUS
<1>2. cache[c].msgs \in Lists /\ cache[c].older \in BOOLEAN
    BY <1>1 DEF Entry
<1>3. CASE ~cache[c].kept
    <2> DEFINE fresh == AddIfAbsent(Nothing, m, mark)
               entry == [kept |-> TRUE, msgs |-> fresh, older |-> TRUE]
    <2>1. /\ fresh \in Lists
          /\ \A k \in Msgs : fresh[k] = IF k = m /\ Nothing[m] = <<>> THEN <<mark>> ELSE Nothing[k]
        BY NothingType, AddIfAbsentType
    <2>2. \A k \in Msgs : fresh[k] = <<>> \/ (k = m /\ fresh[k] = <<mark>>)
        BY <2>1 DEF Nothing
    <2>3. new \in Put(cache, c, entry, size)
        BY <1>3 DEF AddedTo
    <2> HIDE DEF fresh
    <2>4. entry \in Entry /\ entry.msgs = fresh
        BY <2>1 DEF Entry
    <2> HIDE DEF entry
    <2>5. /\ new \in [C -> Entry]
          /\ \A d \in C : new[d] = cache[d] \/ new[d] = NoEntry \/ (d = c /\ new[d] = entry)
        BY <2>3, <2>4, PutType
    <2>6. QED
        BY <2>2, <2>4, <2>5, NoEntryType
<1>4. CASE cache[c].kept /\ m \in Shown(cache[c].msgs)
    <2>1. new = cache
        BY <1>4 DEF AddedTo
    <2>2. QED
        BY <2>1
<1>5. CASE cache[c].kept /\ m \notin Shown(cache[c].msgs)
    <2> DEFINE added == AddIfAbsent(cache[c].msgs, m, mark)
               entry == Normalized(added, cache[c].older)
    <2>1. /\ added \in Lists
          /\ \A k \in Msgs : added[k] = IF k = m /\ cache[c].msgs[m] = <<>> THEN <<mark>>
                                        ELSE cache[c].msgs[k]
        BY <1>2, AddIfAbsentType
    <2>2. new = [cache EXCEPT ![c] = entry]
        BY <1>5 DEF AddedTo
    <2>3. entry \in Entry /\ \A k \in Msgs : entry.msgs[k] \in {added[k], <<>>}
        BY <1>2, <2>1, NormalizedType
    <2> HIDE DEF added, entry
    <2>4. QED
        BY <2>1, <2>2, <2>3
<1>6. QED
    BY <1>3, <1>4, <1>5

\* A mark that comes alone is put on the first cached copies.
LEMMA MarkedType ==
    ASSUME NEW C, NEW cache \in [C -> Entry], NEW m \in Msgs, NEW mark \in Marks
    PROVE  /\ Marked(cache, m, mark) \in [C -> Entry]
           /\ \A d \in C : Marked(cache, m, mark)[d].msgs = MarkFirst(cache[d].msgs, m, mark)
<1>1. ASSUME NEW d \in C
      PROVE  /\ [cache[d] EXCEPT !.msgs = MarkFirst(cache[d].msgs, m, mark)] \in Entry
             /\ Marked(cache, m, mark)[d].msgs = MarkFirst(cache[d].msgs, m, mark)
    <2>1. cache[d] \in Entry /\ cache[d].msgs \in Lists
        BY DEF Entry
    <2>2. MarkFirst(cache[d].msgs, m, mark) \in Lists
        BY <2>1, MarkFirstType
    <2>3. Marked(cache, m, mark)[d] = [cache[d] EXCEPT !.msgs = MarkFirst(cache[d].msgs, m, mark)]
        BY DEF Marked
    <2> DEFINE list == MarkFirst(cache[d].msgs, m, mark)
    <2> HIDE DEF list
    <2>4. QED
        BY <2>1, <2>2, <2>3 DEF Entry, list
<1>2. Marked(cache, m, mark) \in [C -> Entry]
    BY <1>1 DEF Marked
<1>3. QED
    BY <1>1, <1>2

\* A deleted message leaves every cached conversation.
LEMMA PurgedType ==
    ASSUME NEW C, NEW cache \in [C -> Entry], NEW m \in Msgs
    PROVE  /\ Purged(cache, m) \in [C -> Entry]
           /\ \A d \in C : Purged(cache, m)[d].msgs = Without(cache[d].msgs, m)
<1>1. ASSUME NEW d \in C
      PROVE  /\ [cache[d] EXCEPT !.msgs = Without(cache[d].msgs, m)] \in Entry
             /\ Purged(cache, m)[d].msgs = Without(cache[d].msgs, m)
    <2>1. cache[d] \in Entry /\ cache[d].msgs \in Lists
        BY DEF Entry
    <2>2. Without(cache[d].msgs, m) \in Lists
        BY <2>1, WithoutType
    <2>3. Purged(cache, m)[d] = [cache[d] EXCEPT !.msgs = Without(cache[d].msgs, m)]
        BY DEF Purged
    <2> DEFINE list == Without(cache[d].msgs, m)
    <2> HIDE DEF list
    <2>4. QED
        BY <2>1, <2>2, <2>3 DEF Entry, list
<1>2. Purged(cache, m) \in [C -> Entry]
    BY <1>1 DEF Purged
<1>3. QED
    BY <1>1, <1>2
=============================================================================
