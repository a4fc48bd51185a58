------------------------- MODULE UnreadCounts_proofs -------------------------
(***************************************************************************)
(* Proofs about UnreadCounts for any conversations, any number of messages *)
(* and of requests, and all bounds: the open conversation has no count,    *)
(* what the user marked unread stays unread, and no unread message is      *)
(* hidden.                                                                 *)
(***************************************************************************)
EXTENDS UnreadCounts, TLAPS, FiniteSetTheorems, WellFoundedInduction

\* A request to mark a message unread is about the message's conversation.
PostsMatch ==
    \A s \in 1 .. MaxPosts :
        posts[s].does \in {"unread", "marked"} =>
            posts[s].msg \in Msgs /\ ConvOf[posts[s].msg] = posts[s].conv

\* None of the POSTs ps reads conversation c, or is about it at all.
Apart(ps, c) == \A s \in 1 .. MaxPosts : ps[s].does \notin {"all", "channels"} /\ ps[s].conv # c

\* While a mark stands, the conversation is left alone if it is open, and nothing that would
\* read it is on its way or waits for its timer.
MarkHolds ==
    kept # 0 =>
        LET c == ConvOf[kept]
        IN  /\ readTo[c] < kept
            /\ active = c => hushed = c
            /\ boundary # 0 => ConvOf[boundary] # c
            /\ Apart(posts, c)

IInv == TypeOK /\ OpenIsRead /\ PostsMatch /\ MarkHolds

-----------------------------------------------------------------------------
(* Helpers *)

\* Lowest chooses an element of its set.
LEMMA LowestIn ==
    ASSUME NEW S \in SUBSET Nat, S # {}
    PROVE  Lowest(S) \in S
<1>1. PICK s \in S : \A t \in S : ~(<<t, s>> \in OpToRel(<, Nat))
    BY NatLessThanWellFounded, WFMin
<1>2. ASSUME NEW t \in S PROVE s <= t
    <2>1. <<t, s>> \in Nat \X Nat /\ <<t, s>>[1] = t /\ <<t, s>>[2] = s
        OBVIOUS
    <2>2. t < s => <<t, s>> \in OpToRel(<, Nat)
        BY <2>1, Zenon DEF OpToRel
    <2>3. ~(t < s)
        BY <1>1, <2>2, Zenon
    <2>4. QED
        BY <2>3
<1>3. QED
    BY <1>2 DEF Lowest

\* The newest message of a conversation is one of its messages, and no other is newer.
LEMMA NewestTops ==
    ASSUME TypeOK, NEW c, Rows(c) # {}
    PROVE  Newest(c) \in Rows(c) /\ \A k \in Rows(c) : k <= Newest(c)
<1> DEFINE Below == {n \in 0 .. stored : \E m \in Rows(c) : m = stored - n}
<1>1. Rows(c) \subseteq 1 .. stored /\ stored \in Nat
    BY ConvsAssumption DEF TypeOK, Rows
<1>2. PICK r \in Rows(c) : TRUE
    OBVIOUS
<1>3. stored - r \in Below /\ Below \subseteq Nat
    BY <1>1, <1>2
<1>4. PICK n \in Below : \A t \in Below : ~(<<t, n>> \in OpToRel(<, Nat))
    BY <1>3, NatLessThanWellFounded, WFMin
<1>5. PICK m \in Rows(c) : m = stored - n
    BY <1>4
<1>6. ASSUME NEW k \in Rows(c) PROVE k <= m
    <2>0. k \in 1 .. stored /\ n \in 0 .. stored
        BY <1>1, <1>4, <1>6
    <2>1. stored - k \in Below
        BY <1>1, <1>6, <2>0
    <2>2. stored - k < n => <<stored - k, n>> \in OpToRel(<, Nat)
        <3>1. <<stored - k, n>> \in Nat \X Nat /\ <<stored - k, n>>[1] = stored - k
              /\ <<stored - k, n>>[2] = n
            BY <1>3, <2>1, <2>0
        <3>2. QED
            BY <3>1, Zenon DEF OpToRel
    <2>3. ~(stored - k < n)
        BY <1>4, <2>1, <2>2, Zenon
    <2>4. QED
        BY <1>1, <1>5, <2>0, <2>3
<1>7. QED
    BY <1>5, <1>6 DEF Newest

\* The newest message of a conversation is a message, or there is none.
LEMMA NewestIn ==
    ASSUME TypeOK, NEW c \in Convs
    PROVE  Newest(c) \in 0 .. N
<1>1. Rows(c) \subseteq 1 .. stored /\ stored \in Nat /\ stored <= N
    BY ConvsAssumption DEF TypeOK, Rows
<1>2. CASE Rows(c) = {}
    BY <1>2, ConvsAssumption DEF Newest
<1>3. CASE Rows(c) # {}
    BY <1>1, <1>3, NewestTops, ConvsAssumption
<1>4. QED
    BY <1>2, <1>3

\* A snapshot gives counts and first unread messages.
LEMMA SnapshotTypes ==
    ASSUME NEW S \in SUBSET Msgs
    PROVE  Counted(S) \in [Convs -> Nat] /\ FirstOf(S) \in [Convs -> 0 .. N]
<1>1. ASSUME NEW c \in Convs PROVE Cardinality({m \in S : ConvOf[m] = c}) \in Nat
    <2>1. IsFiniteSet(1 .. N)
        BY ConvsAssumption, FS_Interval
    <2>2. {m \in S : ConvOf[m] = c} \subseteq 1 .. N
        BY DEF Msgs
    <2>3. QED
        BY <2>1, <2>2, FS_Subset, FS_CardinalityType
<1>2. ASSUME NEW own \in SUBSET S, own # {} PROVE Lowest(own) \in 0 .. N
    <2>1. own \in SUBSET Nat
        BY <1>2, ConvsAssumption DEF Msgs
    <2>2. Lowest(own) \in own
        BY <1>2, <2>1, LowestIn
    <2>3. \A m \in own : m \in 0 .. N
        BY ConvsAssumption DEF Msgs
    <2>4. QED
        BY <2>2, <2>3, Zenon
<1>3. Counted(S) \in [Convs -> Nat]
    BY <1>1 DEF Counted
<1>4. FirstOf(S) \in [Convs -> 0 .. N]
    BY <1>2, ConvsAssumption DEF FirstOf
<1>5. QED
    BY <1>3, <1>4

LoadTable == [1 .. MaxLoads -> Load]
PostTable == [1 .. MaxPosts -> Post]

\* What becomes of a POST that was answered.
LEMMA AnsweredType ==
    ASSUME NEW p \in Post
    PROVE  Answered(p) \in Post
BY ConvsAssumption DEF Answered, NoPost, Post

\* Sending a POST keeps the table of POSTs one.
LEMMA SentType ==
    ASSUME NEW ps \in PostTable, NEW does \in {"read", "through", "unread", "all"},
           NEW c \in Convs \cup {NoConv}, NEW m \in 0 .. N
    PROVE  Sent(ps, does, c, m) \in PostTable
BY DEF Sent, PostTable, Post

\* Every POST of the table after sending one is an old one or the new one.
LEMMA SentIs ==
    ASSUME NEW ps \in PostTable, NEW does, NEW c, NEW m, NEW s \in 1 .. MaxPosts
    PROVE  \/ Sent(ps, does, c, m)[s] = ps[s]
           \/ Sent(ps, does, c, m)[s] = [does |-> does, conv |-> c, msg |-> m]
BY DEF Sent, PostTable

\* The same of the POST of a pending boundary.
LEMMA FlushedType ==
    ASSUME TypeOK
    PROVE  /\ Flushed(posts) \in PostTable
           /\ \A s \in 1 .. MaxPosts :
                \/ Flushed(posts)[s] = posts[s]
                \/ /\ boundary # 0
                   /\ Flushed(posts)[s] = [does |-> "through", conv |-> ConvOf[boundary],
                                           msg |-> boundary]
<1>1. posts \in PostTable /\ boundary \in 0 .. N
    BY DEF TypeOK, PostTable
<1>2. CASE boundary = 0
    BY <1>1, <1>2 DEF Flushed
<1>3. CASE boundary # 0
    <2>1. ConvOf[boundary] \in Convs \cup {NoConv}
        BY <1>1, <1>3, ConvsAssumption DEF Msgs
    <2>2. Flushed(posts) = Sent(posts, "through", ConvOf[boundary], boundary)
        BY <1>3 DEF Flushed
    <2>3. QED
        BY <1>1, <1>3, <2>1, <2>2, SentType, SentIs
<1>4. QED
    BY <1>2, <1>3

\* Starting a snapshot, or making those under way stale, keeps the table of GETs one.
LEMMA LoadTypes ==
    ASSUME NEW ls \in LoadTable, NEW b \in BOOLEAN
    PROVE  Started(ls, b) \in LoadTable /\ Staled(ls) \in LoadTable
<1>1. NoLoad \in Load
    BY AttemptsAssumption DEF NoLoad, Load
<1>2. Staled(ls) \in LoadTable
    BY DEF Staled, LoadTable, Load
<1>3. Started(ls, b) \in LoadTable
    <2>1. \A l \in Load : [NoLoad EXCEPT !.on = l.on, !.marks = l.marks, !.served = l.served] \in Load
        BY <1>1 DEF Load
    <2>2. [NoLoad EXCEPT !.on = TRUE, !.marks = b, !.newest = TRUE] \in Load
        BY <1>1 DEF Load
    <2>3. QED
        BY <2>1, <2>2 DEF Started, LoadTable
<1>4. QED
    BY <1>2, <1>3

\* What an answered or failed snapshot leaves behind.
LEMMA FinishTypes ==
    ASSUME TypeOK, NEW s \in 1 .. MaxLoads, FinishLoad(s)
    PROVE  loads' \in LoadTable /\ posts' \in PostTable
<1>1. NoLoad \in Load
    BY AttemptsAssumption DEF NoLoad, Load
<1>2. loads' \in LoadTable
    BY <1>1 DEF FinishLoad, TypeOK, LoadTable
<1>3. CASE MarksActive(loads[s])
    <2>1. posts' = Sent(posts, "read", active, 0) /\ active \in Convs \cup {NoConv}
        BY <1>3 DEF FinishLoad, TypeOK
    <2>2. posts \in PostTable /\ 0 \in 0 .. N
        BY ConvsAssumption DEF TypeOK, PostTable
    <2>3. QED
        BY <1>2, <2>1, <2>2, SentType
<1>4. CASE ~MarksActive(loads[s])
    BY <1>2, <1>4 DEF FinishLoad, TypeOK, PostTable
<1>5. QED
    BY <1>2, <1>3, <1>4

\* What the effect of a page leaves behind.
LEMMA ViewTypes ==
    ASSUME TypeOK, NEW c \in Convs \cup {NoConv}, View(c, Flushed(posts))
    PROVE  /\ boundary' \in 0 .. N /\ counts' \in [Convs -> Nat] /\ posts' \in PostTable
<1>1. Flushed(posts) \in PostTable /\ 0 \in 0 .. N
    BY FlushedType, ConvsAssumption
<1>2. Sent(Flushed(posts), "read", c, 0) \in PostTable
    BY <1>1, SentType
<1>3. QED
    BY <1>1, <1>2 DEF View, TypeOK

\* What scheduling a read boundary leaves behind.
LEMMA ScheduleTypes ==
    ASSUME TypeOK, NEW m \in Msgs, Schedule(m)
    PROVE  boundary' \in 0 .. N /\ posts' \in PostTable
<1>1. Flushed(posts) \in PostTable /\ posts \in PostTable
    BY FlushedType DEF TypeOK, PostTable
<1>2. m \in 0 .. N /\ Later(m) \in 0 .. N
    BY ConvsAssumption DEF Later, Higher, Msgs, TypeOK
<1>3. QED
    BY <1>1, <1>2 DEF Schedule

\* Spending keeps the budgets numbers.
LEMMA SpendType ==
    ASSUME TypeOK, \E kind \in Kinds : Spend(kind)
    PROVE  left' \in [Kinds -> Nat]
BY DEF Spend, TypeOK

\* The event that comes next, and what is left after it.
LEMMA EventTypes ==
    ASSUME TypeOK, events # <<>>
    PROVE  Coming \in Msgs /\ ConvOf[Coming] \in Convs /\ Tail(events) \in Seq(Msgs)
<1>1. events \in Seq(Msgs)
    BY DEF TypeOK
<1>2. Head(events) \in Msgs /\ Tail(events) \in Seq(Msgs)
    BY <1>1
<1>3. QED
    BY <1>2, ConvsAssumption DEF Coming

-----------------------------------------------------------------------------
(* Types *)

\* Initially the first snapshot has been asked for, and nothing else is under way.
LEMMA TypeInit == Init => TypeOK
<1> SUFFICES ASSUME Init PROVE TypeOK
    OBVIOUS
<1>1. NoLoad \in Load /\ NoPost \in Post
    BY AttemptsAssumption, ConvsAssumption DEF NoLoad, Load, NoPost, Post
<1>2. [s \in 1 .. MaxLoads |-> NoLoad] \in LoadTable
    BY <1>1 DEF LoadTable
<1>3. loads \in LoadTable
    BY <1>2, LoadTypes DEF Init
<1>4. posts \in PostTable
    BY <1>1 DEF Init, PostTable
<1>5. left \in [Kinds -> Nat]
    BY BoundsAssumption DEF Init
<1>6. events \in Seq(Msgs) /\ 0 \in 0 .. N /\ 0 \in Nat
    BY ConvsAssumption DEF Init
<1>7. QED
    BY <1>3, <1>4, <1>5, <1>6 DEF Init, TypeOK, LoadTable, PostTable

\* Steps of the server, the socket and the network.
LEMMA WorldTypes ==
    ASSUME TypeOK, PostsMatch, World
    PROVE  TypeOK'
<1> USE DEF LoadTable, PostTable, server, wire, page, badges, history
<1>1. CASE Arrive
    <2>1. stored' \in 0 .. N /\ stored' \in Msgs
        BY <1>1, ConvsAssumption DEF Arrive, TypeOK, Msgs
    <2>2. events' \in Seq(Msgs)
        BY <1>1, <2>1 DEF Arrive, TypeOK
    <2>3. QED
        BY <1>1, <2>1, <2>2 DEF Arrive, TypeOK
<1>2. CASE PageShows
    <2>1. Rows(active) \subseteq Msgs
        BY ConvsAssumption DEF Rows, Msgs, TypeOK
    <2>2. QED
        BY <1>2, <2>1 DEF PageShows, TypeOK
<1>9. CASE AroundShows
    <2>1. Rows(active) \subseteq Msgs
        BY ConvsAssumption DEF Rows, Msgs, TypeOK
    <2>2. shown' \subseteq Msgs
        BY <1>9, <2>1 DEF AroundShows, TypeOK
    <2>3. middle' \in BOOLEAN
        BY <1>9 DEF AroundShows
    <2>4. left' \in [Kinds -> Nat]
        BY <1>9, SpendType DEF AroundShows, Kinds
    <2>5. QED
        BY <1>9, <2>2, <2>3, <2>4 DEF AroundShows, TypeOK
<1>3. CASE Close
    <2>1. trust' \in {"none", "full", "lost"}
        BY <1>3 DEF Close, Trusted
    <2>2. left' \in [Kinds -> Nat]
        BY <1>3, SpendType DEF Close, Kinds
    <2>3. events' \in Seq(Msgs)
        BY <1>3 DEF Close
    <2>4. QED
        BY <1>3, <2>1, <2>2, <2>3 DEF Close, TypeOK
<1>4. ASSUME NEW s \in 1 .. MaxLoads, ServeLoad(s) PROVE TypeOK'
    <2> DEFINE unread == {m \in Msgs : loads[s].newest /\ m \in Unread(ConvOf[m])}
    <2>1. loads' \in LoadTable
        <3>1. unread \in SUBSET Msgs
            OBVIOUS
        <3>2. loads' = [loads EXCEPT ![s].served = TRUE, ![s].unread = unread]
            BY <1>4 DEF ServeLoad
        <3>3. loads \in LoadTable
            BY DEF TypeOK
        <3> HIDE DEF unread
        <3>4. QED
            BY <3>1, <3>2, <3>3 DEF Load
    <2>2. QED
        BY <1>4, <2>1 DEF ServeLoad, TypeOK
<1>5. ASSUME NEW s \in 1 .. MaxLoads, LoadFails(s) PROVE TypeOK'
    <2>1. loads' \in LoadTable /\ posts' \in PostTable
        BY <1>5, FinishTypes DEF LoadFails
    <2>2. left' \in [Kinds -> Nat]
        BY <1>5, SpendType DEF LoadFails, Kinds
    <2>3. QED
        BY <1>5, <2>1, <2>2 DEF LoadFails, TypeOK
<1>6. ASSUME NEW s \in 1 .. MaxPosts, ServePost(s) PROVE TypeOK'
    <2>1. posts[s] \in Post
        BY DEF TypeOK
    <2>2. Answered(posts[s]) \in Post
        BY <2>1, AnsweredType
    <2>3. posts' \in PostTable
        BY <1>6, <2>2 DEF ServePost, TypeOK
    <2>4. ASSUME NEW c \in Convs PROVE readTo'[c] \in 0 .. N
        <3>1. Newest(c) \in 0 .. N /\ readTo[c] \in 0 .. N
            BY NewestIn DEF TypeOK
        <3>2. Higher(readTo[c], posts[s].msg) \in 0 .. N
            BY <2>1, <3>1 DEF Higher, Post
        <3>3. posts[s].does = "unread" => posts[s].msg - 1 \in 0 .. N
            BY ConvsAssumption DEF PostsMatch, Msgs
        <3>4. QED
            BY <1>6, <3>1, <3>2, <3>3 DEF ServePost
    <2>5. readTo' \in [Convs -> 0 .. N]
        BY <1>6, <2>4 DEF ServePost
    <2>6. owed' \subseteq Msgs
        BY <1>6 DEF ServePost, TypeOK
    <2>7. QED
        BY <1>6, <2>3, <2>5, <2>6 DEF ServePost, TypeOK
<1>7. ASSUME NEW s \in 1 .. MaxPosts, PostFails(s) PROVE TypeOK'
    <2>1. NoPost \in Post
        BY ConvsAssumption DEF NoPost, Post
    <2>2. posts' \in PostTable
        BY <1>7, <2>1 DEF PostFails, TypeOK
    <2>3. left' \in [Kinds -> Nat]
        BY <1>7, SpendType DEF PostFails, Kinds
    <2>4. QED
        BY <1>7, <2>2, <2>3 DEF PostFails, TypeOK
<1>8. QED
    BY <1>1, <1>2, <1>3, <1>4, <1>5, <1>6, <1>7, <1>9 DEF World

\* Steps of the client.
LEMMA ClientTypes ==
    ASSUME TypeOK, Client
    PROVE  TypeOK'
<1> USE DEF LoadTable, PostTable, server, wire, page, badges, history
<1>1. CASE Refresh
    <2>1. left' \in [Kinds -> Nat]
        BY <1>1, SpendType DEF Refresh, Kinds, TypeOK
    <2>2. loads' \in LoadTable
        BY <1>1, LoadTypes DEF Refresh, TypeOK
    <2>3. QED
        BY <1>1, <2>1, <2>2 DEF Refresh, TypeOK
<1>2. CASE DeliverOpen
    <2>1. Coming \in Msgs /\ Tail(events) \in Seq(Msgs)
        BY <1>2, EventTypes DEF DeliverOpen
    <2>2. boundary' \in 0 .. N /\ posts' \in PostTable /\ owed' \subseteq Msgs
        BY <1>2, <2>1, ScheduleTypes DEF DeliverOpen, TypeOK
    <2>3. shown' \subseteq Msgs /\ passed' \subseteq Msgs
        BY <1>2, <2>1 DEF DeliverOpen, TypeOK
    <2>4. QED
        BY <1>2, <2>1, <2>2, <2>3 DEF DeliverOpen, TypeOK
<1>3. CASE DeliverOther
    <2>1. Coming \in Msgs /\ ConvOf[Coming] \in Convs /\ Tail(events) \in Seq(Msgs)
        BY <1>3, EventTypes DEF DeliverOther
    <2>2. Seeded(ConvOf[Coming], Coming) \in 0 .. N
        BY <2>1, ConvsAssumption DEF Seeded, TypeOK, Msgs
    <2>3. counts' \in [Convs -> Nat]
        <3>1. \/ counts' = [counts EXCEPT ![ConvOf[Coming]] = @ + 1]
              \/ counts' = counts
            BY <1>3 DEF DeliverOther
        <3>2. counts \in [Convs -> Nat]
            BY DEF TypeOK
        <3>3. QED
            BY <2>1, <3>1, <3>2
    <2>4. first' \in [Convs -> 0 .. N]
        BY <1>3, <2>1, <2>2 DEF DeliverOther, TypeOK
    <2>5. loads' \in LoadTable
        BY <1>3, LoadTypes DEF DeliverOther, TypeOK
    <2>6. QED
        BY <1>3, <2>1, <2>3, <2>4, <2>5 DEF DeliverOther, TypeOK
<1>4. CASE Flush
    <2>1. posts' \in PostTable /\ boundary' \in 0 .. N
        BY <1>4, FlushedType, ConvsAssumption DEF Flush
    <2>2. QED
        BY <1>4, <2>1 DEF Flush, TypeOK
<1>5. CASE Rerender
    <2>1. boundary' \in 0 .. N /\ counts' \in [Convs -> Nat] /\ posts' \in PostTable
        BY <1>5, ViewTypes DEF Rerender, TypeOK
    <2>2. left' \in [Kinds -> Nat]
        BY <1>5, SpendType DEF Rerender, Kinds
    <2>3. QED
        BY <1>5, <2>1, <2>2 DEF Rerender, TypeOK
<1>6. ASSUME NEW s \in 1 .. MaxLoads, Superseded(s) PROVE TypeOK'
    <2>1. loads' \in LoadTable /\ posts' \in PostTable
        BY <1>6, FinishTypes DEF Superseded
    <2>2. QED
        BY <1>6, <2>1 DEF Superseded, TypeOK
<1>7. ASSUME NEW s \in 1 .. MaxLoads, Retry(s) PROVE TypeOK'
    <2>1. loads[s] \in Load /\ loads[s].attempt + 1 \in 1 .. Attempts
        BY <1>7, AttemptsAssumption DEF Retry, MustRetry, TypeOK, Load
    <2>2. loads' \in LoadTable
        BY <1>7, <2>1 DEF Retry, TypeOK, Load
    <2>3. QED
        BY <1>7, <2>2 DEF Retry, TypeOK
<1>8. ASSUME NEW s \in 1 .. MaxLoads, Apply(s) PROVE TypeOK'
    <2>1. loads' \in LoadTable /\ posts' \in PostTable
        BY <1>8, FinishTypes DEF Apply
    <2>2. loads[s].unread \in SUBSET Msgs
        BY DEF TypeOK, Load
    <2>3. counts' \in [Convs -> Nat] /\ first' \in [Convs -> 0 .. N]
        BY <1>8, <2>2, SnapshotTypes DEF Apply
    <2>4. trust' \in {"none", "full", "lost"}
        BY <1>8 DEF Apply, Trusted
    <2>5. passed' \subseteq Msgs
        BY <1>8 DEF Apply, TypeOK
    <2>6. QED
        BY <1>8, <2>1, <2>3, <2>4, <2>5 DEF Apply, TypeOK
<1>9. ASSUME NEW s \in 1 .. MaxPosts, UnreadMarked(s) PROVE TypeOK'
    <2>1. NoPost \in Post /\ posts[s] \in Post
        <3>1. NoPost \in Post
            BY ConvsAssumption DEF NoPost, Post
        <3>2. QED
            BY <3>1 DEF TypeOK
    <2>2. posts' \in PostTable
        BY <1>9, <2>1 DEF UnreadMarked, TypeOK
    <2>3. loads' \in LoadTable
        BY <1>9, LoadTypes DEF UnreadMarked, TypeOK
    <2>4. hushed' \in Convs \cup {NoConv} /\ kept' \in 0 .. N
        BY <1>9, <2>1 DEF UnreadMarked, TypeOK, Post
    <2>5. trust' \in {"none", "full", "lost"}
        BY <1>9 DEF UnreadMarked, Trusted
    <2>6. QED
        BY <1>9, <2>2, <2>3, <2>4, <2>5 DEF UnreadMarked, TypeOK
<1>10. QED
    BY <1>1, <1>2, <1>3, <1>4, <1>5, <1>6, <1>7, <1>8, <1>9 DEF Client

\* Steps of the user.
LEMMA UserTypes ==
    ASSUME TypeOK, User
    PROVE  TypeOK'
<1> USE DEF LoadTable, PostTable, server, wire, page, badges, history
<1>0. 0 \in 0 .. N /\ posts \in PostTable /\ Staled(loads) \in LoadTable
    <2>1. loads \in LoadTable /\ posts \in PostTable
        BY DEF TypeOK
    <2>2. Staled(loads) \in LoadTable
        <3>1. \A b \in BOOLEAN : Staled(loads) \in LoadTable
            BY <2>1, LoadTypes
        <3>2. QED
            BY <3>1
    <2>3. QED
        BY <2>1, <2>2, ConvsAssumption
<1>1. ASSUME NEW c \in Convs \cup {NoConv}, Open(c) PROVE TypeOK'
    <2>1. boundary' \in 0 .. N /\ counts' \in [Convs -> Nat] /\ posts' \in PostTable
        BY <1>1, ViewTypes DEF Open
    <2>2. left' \in [Kinds -> Nat]
        BY <1>1, SpendType DEF Open, Kinds
    <2>3. hushed' \in Convs \cup {NoConv} /\ kept' \in 0 .. N
        BY <1>0, <1>1 DEF Open, TypeOK
    <2>4. QED
        BY <1>0, <1>1, <2>1, <2>2, <2>3 DEF Open, TypeOK
<1>2. CASE MarkAllRead
    <2>1. posts' \in PostTable
        BY <1>0, <1>2, SentType DEF MarkAllRead
    <2>2. left' \in [Kinds -> Nat]
        BY <1>2, SpendType DEF MarkAllRead, Kinds
    <2>3. counts' \in [Convs -> Nat] /\ first' \in [Convs -> 0 .. N]
        BY <1>0, <1>2 DEF MarkAllRead
    <2>4. QED
        BY <1>0, <1>2, <2>1, <2>2, <2>3 DEF MarkAllRead, TypeOK
<1>3. ASSUME NEW c \in Convs, MarkRead(c) PROVE TypeOK'
    <2>1. posts' \in PostTable
        BY <1>0, <1>3, SentType DEF MarkRead
    <2>2. left' \in [Kinds -> Nat]
        BY <1>3, SpendType DEF MarkRead, Kinds
    <2>3. counts' \in [Convs -> Nat] /\ first' \in [Convs -> 0 .. N] /\ kept' \in 0 .. N
        BY <1>0, <1>3 DEF MarkRead, TypeOK
    <2>4. QED
        BY <1>0, <1>3, <2>1, <2>2, <2>3 DEF MarkRead, TypeOK
<1>4. ASSUME NEW m \in Msgs, MarkUnread(m) PROVE TypeOK'
    <2>1. m \in 0 .. N /\ active \in Convs \cup {NoConv}
        BY ConvsAssumption DEF Msgs, TypeOK
    <2>2. posts' \in PostTable
        BY <1>0, <1>4, <2>1, SentType DEF MarkUnread
    <2>3. left' \in [Kinds -> Nat]
        BY <1>4, SpendType DEF MarkUnread, Kinds
    <2>4. QED
        BY <1>0, <1>4, <2>2, <2>3 DEF MarkUnread, TypeOK
<1>5. CASE JumpToBottom
    BY <1>5 DEF JumpToBottom, TypeOK
<1>6. QED
    BY <1>1, <1>2, <1>3, <1>4, <1>5 DEF User

\* Types are not inductive alone: that the cursor stays a number when a message is marked
\* unread needs PostsMatch.
LEMMA TypeStep ==
    ASSUME TypeOK, PostsMatch, [Next]_vars
    PROVE  TypeOK'
<1>1. CASE Next
    BY <1>1, WorldTypes, ClientTypes, UserTypes DEF Next
<1>2. CASE UNCHANGED vars
    BY <1>2 DEF TypeOK, vars, server, wire, page, badges, history
<1>3. QED
    BY <1>1, <1>2

-----------------------------------------------------------------------------
(* The open conversation has no count. *)

\* Only a snapshot, a message of another conversation and the user's reading change counts,
\* and only the user changes what is open.
LEMMA OpenStep ==
    ASSUME TypeOK, OpenIsRead, [Next]_vars
    PROVE  OpenIsRead'
<1> USE DEF OpenIsRead, server, wire, page, badges, history
<1>1. ASSUME counts' = counts, active' = active PROVE OpenIsRead'
    BY <1>1
<1>2. CASE World
    BY <1>1, <1>2 DEF World, Arrive, PageShows, AroundShows, Close, ServeLoad, LoadFails,
        ServePost, PostFails
<1>3. CASE DeliverOther
    <2>1. ConvOf[Coming] \in Convs /\ ConvOf[Coming] # active /\ active' = active
        BY <1>3, EventTypes DEF DeliverOther
    <2>2. counts' = [counts EXCEPT ![ConvOf[Coming]] = @ + 1] \/ counts' = counts
        BY <1>3 DEF DeliverOther
    <2>3. counts \in [Convs -> Nat] /\ active \in Convs \cup {NoConv}
        BY DEF TypeOK
    <2>4. QED
        BY <2>1, <2>2, <2>3
<1>4. ASSUME NEW s \in 1 .. MaxLoads, Apply(s) PROVE OpenIsRead'
    BY <1>4 DEF Apply, Counted, TypeOK
<1>5. ASSUME NEW c \in Convs \cup {NoConv}, Open(c) \/ (Rerender /\ c = active)
      PROVE  OpenIsRead'
    <2>1. View(c, Flushed(posts)) /\ active' = c /\ (c # NoConv => c \in Convs)
        BY <1>5 DEF Open, Rerender
    <2>2. counts \in [Convs -> Nat]
        BY DEF TypeOK
    <2>3. QED
        BY <2>1, <2>2 DEF View
<1>6. CASE MarkAllRead
    BY <1>6 DEF MarkAllRead, TypeOK
<1>7. ASSUME NEW c \in Convs, MarkRead(c) PROVE OpenIsRead'
    BY <1>7 DEF MarkRead, TypeOK
<1>8. ASSUME NEW m \in Msgs, MarkUnread(m) PROVE OpenIsRead'
    BY <1>1, <1>8 DEF MarkUnread
<1>9. CASE Refresh \/ DeliverOpen \/ Flush
    BY <1>1, <1>9 DEF Refresh, DeliverOpen, Flush
<1>10. CASE \E s \in 1 .. MaxLoads : Superseded(s) \/ Retry(s)
    BY <1>1, <1>10 DEF Superseded, Retry
<1>11. CASE \E s \in 1 .. MaxPosts : UnreadMarked(s)
    BY <1>1, <1>11 DEF UnreadMarked
<1>12. CASE UNCHANGED vars
    BY <1>1, <1>12 DEF vars
<1>13. CASE Client
    <2>1. CASE Rerender
        BY <1>5, <2>1 DEF TypeOK
    <2>2. QED
        BY <1>3, <1>4, <1>9, <1>10, <1>11, <1>13, <2>1 DEF Client
<1>14. CASE User
    <2>1. CASE JumpToBottom
        BY <1>1, <2>1 DEF JumpToBottom
    <2>2. QED
        BY <1>5, <1>6, <1>7, <1>8, <1>14, <2>1 DEF User
<1>15. QED
    BY <1>2, <1>12, <1>13, <1>14 DEF Next

-----------------------------------------------------------------------------
(* What was marked unread stays unread. *)

\* A POST that matches: one to mark a message unread is about its conversation.
Matches(p) == p.does \in {"unread", "marked"} => p.msg \in Msgs /\ ConvOf[p.msg] = p.conv

\* Sending a matching POST keeps a table of matching ones.
LEMMA SentMatches ==
    ASSUME NEW ps \in PostTable, \A s \in 1 .. MaxPosts : Matches(ps[s]),
           NEW does, NEW c, NEW m, Matches([does |-> does, conv |-> c, msg |-> m])
    PROVE  \A s \in 1 .. MaxPosts : Matches(Sent(ps, does, c, m)[s])
<1>1. TAKE s \in 1 .. MaxPosts
<1>2. \/ Sent(ps, does, c, m)[s] = ps[s]
      \/ Sent(ps, does, c, m)[s] = [does |-> does, conv |-> c, msg |-> m]
    BY SentIs
<1>3. QED
    BY <1>2, Zenon

\* Reading needs no message.
LEMMA ReadMatches ==
    ASSUME NEW does \in {"read", "through", "all"}, NEW c, NEW m
    PROVE  Matches([does |-> does, conv |-> c, msg |-> m])
BY DEF Matches

\* The POST of a pending boundary matches.
LEMMA FlushedMatches ==
    ASSUME TypeOK, PostsMatch
    PROVE  \A s \in 1 .. MaxPosts : Matches(Flushed(posts)[s])
<1>1. TAKE s \in 1 .. MaxPosts
<1>2. Matches(posts[s])
    BY DEF PostsMatch, Matches
<1>3. Matches([does |-> "through", conv |-> ConvOf[boundary], msg |-> boundary])
    BY ReadMatches
<1>4. QED
    BY <1>2, <1>3, FlushedType, Zenon

\* Only MarkUnread asks to mark a message, and the answer is about the same.
LEMMA PostsMatchStep ==
    ASSUME TypeOK, PostsMatch, [Next]_vars
    PROVE  PostsMatch'
<1> USE DEF server, wire, page, badges, history
<1> DEFINE All(ps) == \A s \in 1 .. MaxPosts : Matches(ps[s])
<1>1. posts \in PostTable /\ All(posts) /\ Flushed(posts) \in PostTable /\ All(Flushed(posts))
    BY FlushedType, FlushedMatches DEF TypeOK, PostTable, PostsMatch, Matches
<1>2. Matches(NoPost)
    BY DEF Matches, NoPost
<1>3. SUFFICES All(posts')
    BY DEF PostsMatch, Matches
<1>4. ASSUME NEW ps, ps \in PostTable, All(ps), NEW does \in {"read", "through", "all"},
             NEW c, NEW m, posts' = Sent(ps, does, c, m)
      PROVE  All(posts')
    BY <1>4, ReadMatches, SentMatches
<1>5. CASE posts' = posts \/ posts' = Flushed(posts)
    BY <1>1, <1>5
<1>6. ASSUME NEW s \in 1 .. MaxLoads, FinishLoad(s) PROVE All(posts')
    <2>1. posts' = posts \/ posts' = Sent(posts, "read", active, 0)
        BY <1>6 DEF FinishLoad
    <2>2. QED
        BY <1>1, <1>4, <1>5, <2>1
<1>7. ASSUME NEW c, View(c, Flushed(posts)) PROVE All(posts')
    <2>1. posts' = Flushed(posts) \/ posts' = Sent(Flushed(posts), "read", c, 0)
        BY <1>7 DEF View
    <2>2. QED
        BY <1>1, <1>4, <1>5, <2>1
<1>8. CASE World
    <2>1. CASE Arrive \/ PageShows \/ AroundShows \/ Close \/ \E s \in 1 .. MaxLoads : ServeLoad(s)
        BY <1>5, <2>1 DEF Arrive, PageShows, AroundShows, Close, ServeLoad
    <2>2. ASSUME NEW s \in 1 .. MaxLoads, LoadFails(s) PROVE All(posts')
        BY <1>6, <2>2 DEF LoadFails
    <2>3. ASSUME NEW s \in 1 .. MaxPosts, ServePost(s) PROVE All(posts')
        <3> DEFINE p == Answered(posts[s])
        <3>1. posts' = [posts EXCEPT ![s] = p] /\ posts[s] \in Post
            BY <2>3 DEF ServePost, TypeOK
        <3>2. Matches(p)
            BY <1>1, <1>2, <3>1 DEF Answered, Matches, Post
        <3> HIDE DEF p
        <3>3. QED
            BY <1>1, <3>1, <3>2 DEF PostTable
    <2>4. ASSUME NEW s \in 1 .. MaxPosts, PostFails(s) PROVE All(posts')
        BY <1>1, <1>2, <2>4 DEF PostFails, PostTable
    <2>5. QED
        BY <1>8, <2>1, <2>2, <2>3, <2>4 DEF World
<1>9. CASE Client
    <2>1. CASE Refresh \/ DeliverOther \/ \E s \in 1 .. MaxLoads : Retry(s)
        BY <1>5, <2>1 DEF Refresh, DeliverOther, Retry
    <2>2. CASE DeliverOpen \/ Flush
        BY <1>5, <2>2 DEF DeliverOpen, Schedule, Flush
    <2>3. CASE Rerender
        BY <1>7, <2>3 DEF Rerender
    <2>4. CASE \E s \in 1 .. MaxLoads : Superseded(s) \/ Apply(s)
        BY <1>6, <2>4 DEF Superseded, Apply
    <2>5. ASSUME NEW s \in 1 .. MaxPosts, UnreadMarked(s) PROVE All(posts')
        BY <1>1, <1>2, <2>5 DEF UnreadMarked, PostTable
    <2>6. QED
        BY <1>9, <2>1, <2>2, <2>3, <2>4, <2>5 DEF Client
<1>10. CASE User
    <2>1. ASSUME NEW c \in Convs \cup {NoConv}, Open(c) PROVE All(posts')
        BY <1>7, <2>1 DEF Open
    <2>2. CASE MarkAllRead \/ \E c \in Convs : MarkRead(c)
        BY <1>1, <1>4, <2>2 DEF MarkAllRead, MarkRead
    <2>3. ASSUME NEW m \in Msgs, MarkUnread(m) PROVE All(posts')
        <3>1. posts' = Sent(posts, "unread", active, m) /\ ConvOf[m] = active
            BY <2>3 DEF MarkUnread
        <3>2. Matches([does |-> "unread", conv |-> active, msg |-> m])
            BY <3>1 DEF Matches
        <3>3. QED
            BY <1>1, <3>1, <3>2, SentMatches
    <2>4. CASE JumpToBottom
        BY <1>5, <2>4 DEF JumpToBottom
    <2>5. QED
        BY <1>10, <2>1, <2>2, <2>3, <2>4 DEF User
<1>11. CASE UNCHANGED vars
    BY <1>5, <1>11 DEF vars
<1>12. QED
    BY <1>8, <1>9, <1>10, <1>11 DEF Next

\* A POST that is about another conversation keeps what is under way apart from c.
LEMMA SentApart ==
    ASSUME NEW ps \in PostTable, NEW c, Apart(ps, c),
           NEW does, does \notin {"all", "channels"}, NEW d, d # c, NEW m
    PROVE  Apart(Sent(ps, does, d, m), c)
<1>1. ASSUME NEW s \in 1 .. MaxPosts
      PROVE  /\ Sent(ps, does, d, m)[s].does \notin {"all", "channels"}
             /\ Sent(ps, does, d, m)[s].conv # c
    <2>1. ps[s].does \notin {"all", "channels"} /\ ps[s].conv # c
        BY DEF Apart
    <2>2. \/ Sent(ps, does, d, m)[s] = ps[s]
          \/ Sent(ps, does, d, m)[s] = [does |-> does, conv |-> d, msg |-> m]
        BY SentIs
    <2>3. QED
        BY <2>1, <2>2
<1>2. QED
    BY <1>1 DEF Apart

\* So does the POST of a boundary of another conversation.
LEMMA FlushedApart ==
    ASSUME TypeOK, NEW c, Apart(posts, c), boundary # 0 => ConvOf[boundary] # c
    PROVE  Apart(Flushed(posts), c)
BY FlushedType DEF Apart

\* A mark stands as long as a step leaves its conversation alone.
LEMMA MarkStays ==
    ASSUME MarkHolds, kept' = kept, kept' # 0,
           readTo'[ConvOf[kept]] = readTo[ConvOf[kept]],
           active' = ConvOf[kept] => hushed' = ConvOf[kept],
           boundary' # 0 => ConvOf[boundary'] # ConvOf[kept],
           Apart(posts', ConvOf[kept])
    PROVE  MarkHolds'
BY DEF MarkHolds, Apart

\* Without a mark there is nothing to keep; otherwise each step is about another conversation,
\* or finds the marked one open and left alone.
LEMMA MarkStep ==
    ASSUME TypeOK, PostsMatch, MarkHolds, [Next]_vars
    PROVE  MarkHolds'
<1> USE DEF server, wire, page, badges, history
<1> SUFFICES ASSUME kept' # 0 PROVE MarkHolds'
    BY DEF MarkHolds
<1> DEFINE c == ConvOf[kept]
<1>1. ASSUME kept' = kept
      PROVE  /\ c \in Convs /\ c # NoConv /\ readTo[c] < kept
             /\ active = c => hushed = c
             /\ boundary # 0 => ConvOf[boundary] # c
             /\ Apart(posts, c) /\ Apart(Flushed(posts), c)
             /\ posts \in PostTable /\ Flushed(posts) \in PostTable
    <2>1. kept \in Msgs /\ posts \in PostTable
        BY <1>1 DEF TypeOK, Msgs, PostTable
    <2>2. c \in Convs /\ c # NoConv
        BY <2>1, ConvsAssumption
    <2>3. /\ readTo[c] < kept
          /\ active = c => hushed = c
          /\ boundary # 0 => ConvOf[boundary] # c
          /\ Apart(posts, c)
        BY <1>1 DEF MarkHolds
    <2>4. Apart(Flushed(posts), c)
        BY <2>3, FlushedApart
    <2>5. Flushed(posts) \in PostTable
        BY FlushedType
    <2>6. QED
        BY <2>1, <2>2, <2>3, <2>4, <2>5
<1>2. ASSUME kept' = kept, readTo' = readTo, active' = active, hushed' = hushed,
             boundary' \in {0, boundary}, Apart(posts', c)
      PROVE  MarkHolds'
    BY <1>1, <1>2, MarkStays
<1>3. ASSUME NEW s \in 1 .. MaxLoads, FinishLoad(s), kept' = kept PROVE Apart(posts', c)
    <2>1. CASE MarksActive(loads[s])
        <3>1. posts' = Sent(posts, "read", active, 0) /\ hushed # active
            BY <1>3, <2>1 DEF FinishLoad, MarksActive
        <3>2. active # c
            BY <1>1, <1>3, <3>1
        <3>3. QED
            BY <1>1, <1>3, <3>1, <3>2, SentApart
    <2>2. CASE ~MarksActive(loads[s])
        BY <1>1, <1>3, <2>2 DEF FinishLoad
    <2>3. QED
        BY <2>1, <2>2
<1>4. ASSUME NEW d, View(d, Flushed(posts)), kept' = kept, d = c => d = active
      PROVE  boundary' = 0 /\ Apart(posts', c)
    <2>1. boundary' = 0
        BY <1>4 DEF View
    <2>2. CASE posts' = Flushed(posts)
        BY <1>1, <1>4, <2>1, <2>2
    <2>3. CASE posts' # Flushed(posts)
        <3>1. posts' = Sent(Flushed(posts), "read", d, 0) /\ ~(d = active /\ hushed = d)
            BY <1>4, <2>3 DEF View
        <3>2. d # c
            BY <1>1, <1>4, <3>1
        <3>3. QED
            BY <1>1, <1>4, <2>1, <3>1, <3>2, SentApart
    <2>4. QED
        BY <2>2, <2>3
<1>5. CASE World
    <2>1. CASE Arrive \/ PageShows \/ AroundShows \/ Close \/ \E s \in 1 .. MaxLoads : ServeLoad(s)
        BY <1>1, <1>2, <2>1 DEF Arrive, PageShows, AroundShows, Close, ServeLoad
    <2>2. ASSUME NEW s \in 1 .. MaxLoads, LoadFails(s) PROVE MarkHolds'
        BY <1>2, <1>3, <2>2 DEF LoadFails
    <2>3. ASSUME NEW s \in 1 .. MaxPosts, ServePost(s) PROVE MarkHolds'
        <3>1. kept' = kept /\ active' = active /\ hushed' = hushed /\ boundary' = boundary
            BY <2>3 DEF ServePost
        <3>2. posts[s].does \notin {"all", "channels"} /\ posts[s].conv # c /\ c \in Convs
            BY <1>1, <3>1 DEF Apart
        <3>3. readTo'[c] = readTo[c]
            BY <2>3, <3>2 DEF ServePost, Reads
        <3>4. Apart(posts', c)
            <4>1. posts[s] \in Post
                BY DEF TypeOK
            <4> DEFINE p == Answered(posts[s])
            <4>2. posts' = [posts EXCEPT ![s] = p]
                BY <2>3 DEF ServePost
            <4>3. p.does \notin {"all", "channels"} /\ p.conv # c
                BY <1>1, <3>1, <3>2, <4>1 DEF Answered, NoPost, Post
            <4> HIDE DEF p
            <4>4. QED
                BY <1>1, <3>1, <4>2, <4>3 DEF Apart, PostTable
        <3>5. QED
            BY <1>1, <3>1, <3>3, <3>4, MarkStays
    <2>4. ASSUME NEW s \in 1 .. MaxPosts, PostFails(s) PROVE MarkHolds'
        <3>1. kept' = kept /\ posts' = [posts EXCEPT ![s] = NoPost]
            BY <2>4 DEF PostFails
        <3>2. Apart(posts', c)
            BY <1>1, <3>1 DEF Apart, PostTable, NoPost
        <3>3. QED
            BY <1>2, <2>4, <3>1, <3>2 DEF PostFails
    <2>5. QED
        BY <1>5, <2>1, <2>2, <2>3, <2>4 DEF World
<1>6. CASE Client
    <2>1. CASE Refresh \/ DeliverOther \/ \E s \in 1 .. MaxLoads : Retry(s)
        BY <1>1, <1>2, <2>1 DEF Refresh, DeliverOther, Retry
    <2>2. CASE Flush
        BY <1>1, <1>2, <2>2 DEF Flush
    <2>3. CASE DeliverOpen
        <3>1. /\ kept' = kept /\ readTo' = readTo /\ active' = active /\ hushed' = hushed
              /\ ConvOf[Coming] = active
            BY <2>3 DEF DeliverOpen
        <3>2. CASE boundary' = boundary /\ posts' = posts
            BY <1>1, <1>2, <3>1, <3>2
        <3>3. CASE ~(boundary' = boundary /\ posts' = posts)
            <4>1. Schedule(Coming) /\ hushed # active
                BY <2>3, <3>3 DEF DeliverOpen
            <4>2. active # c
                BY <1>1, <3>1, <4>1
            <4>3. posts' = posts \/ posts' = Flushed(posts)
                BY <4>1 DEF Schedule
            <4>4. boundary' = Coming \/ boundary' = boundary
                BY <4>1 DEF Schedule, Later, Higher
            <4>5. boundary' # 0 => ConvOf[boundary'] # c
                BY <1>1, <3>1, <4>2, <4>4
            <4>6. QED
                BY <1>1, <3>1, <4>3, <4>5, MarkStays
        <3>4. QED
            BY <3>2, <3>3
    <2>4. CASE Rerender
        <3>1. /\ kept' = kept /\ readTo' = readTo /\ active' = active /\ hushed' = hushed
              /\ View(active, Flushed(posts))
            BY <2>4 DEF Rerender
        <3>2. QED
            BY <1>2, <1>4, <3>1
    <2>5. CASE \E s \in 1 .. MaxLoads : Superseded(s) \/ Apply(s)
        BY <1>2, <1>3, <2>5 DEF Superseded, Apply
    <2>6. ASSUME NEW s \in 1 .. MaxPosts, UnreadMarked(s) PROVE MarkHolds'
        <3>1. /\ posts' = [posts EXCEPT ![s] = NoPost] /\ posts[s].does = "marked"
              /\ readTo' = readTo /\ active' = active /\ boundary' = boundary
              /\ hushed' = IF active = posts[s].conv THEN posts[s].conv ELSE hushed
            BY <2>6 DEF UnreadMarked
        <3>2. CASE kept' = kept
            <4>1. Apart(posts', c)
                BY <1>1, <3>1, <3>2 DEF Apart, PostTable, NoPost
            <4>2. QED
                BY <1>1, <3>1, <3>2, <4>1, MarkStays
        <3>3. CASE kept' # kept
            <4>1. /\ active = posts[s].conv /\ readTo[posts[s].conv] < posts[s].msg
                  /\ Undisturbed(posts[s].conv, s) /\ kept' = posts[s].msg
                BY <2>6, <3>3 DEF UnreadMarked
            <4>2. posts[s].msg \in Msgs /\ ConvOf[posts[s].msg] = posts[s].conv
                BY <3>1 DEF PostsMatch
            <4>3. posts[s].conv \in Convs /\ posts \in PostTable
                BY <4>2, ConvsAssumption DEF TypeOK, PostTable
            <4>4. Apart(posts', posts[s].conv)
                BY <3>1, <4>1, <4>3, ConvsAssumption DEF Undisturbed, Apart, PostTable, NoPost
            <4>5. QED
                BY <3>1, <4>1, <4>2, <4>4 DEF MarkHolds, Undisturbed, Apart
        <3>4. QED
            BY <3>2, <3>3
    <2>7. QED
        BY <1>6, <2>1, <2>2, <2>3, <2>4, <2>5, <2>6 DEF Client
<1>7. CASE User
    <2>1. ASSUME NEW d \in Convs \cup {NoConv}, Open(d) PROVE MarkHolds'
        <3>1. /\ kept' = kept /\ c # d /\ readTo' = readTo /\ active' = d
              /\ View(d, Flushed(posts))
            BY <2>1 DEF Open
        <3>2. boundary' = 0 /\ Apart(posts', c)
            BY <1>4, <3>1
        <3>3. QED
            BY <1>1, <3>1, <3>2, MarkStays
    <2>2. ASSUME NEW d \in Convs, MarkRead(d) PROVE MarkHolds'
        <3>1. kept' = kept /\ c # d /\ posts' = Sent(posts, "read", d, 0)
            BY <2>2 DEF MarkRead
        <3>2. Apart(posts', c)
            BY <1>1, <3>1, SentApart
        <3>3. QED
            BY <1>2, <2>2, <3>1, <3>2 DEF MarkRead
    <2>3. CASE JumpToBottom
        BY <1>1, <1>2, <2>3 DEF JumpToBottom
    <2>4. QED
        BY <1>7, <2>1, <2>2, <2>3 DEF User, MarkAllRead, MarkUnread
<1>8. CASE UNCHANGED vars
    BY <1>1, <1>2, <1>8 DEF vars
<1>9. QED
    BY <1>5, <1>6, <1>7, <1>8 DEF Next

-----------------------------------------------------------------------------
(* The theorems *)

\* Initially nothing is open, counted or marked.
LEMMA InvInit == Init => IInv
<1>1. Init => TypeOK
    BY TypeInit
<1>2. Init => OpenIsRead
    BY DEF Init, OpenIsRead
<1>3. Init => PostsMatch
    BY DEF Init, PostsMatch, NoPost
<1>4. Init => MarkHolds
    BY DEF Init, MarkHolds
<1>5. QED
    BY <1>1, <1>2, <1>3, <1>4 DEF IInv

\* Each part of the invariant is kept by every step that finds the others.
LEMMA InvStep == IInv /\ [Next]_vars => IInv'
BY TypeStep, OpenStep, PostsMatchStep, MarkStep DEF IInv

\* The invariant holds always.
LEMMA Invariance == Spec => []IInv
<1>1. Init => IInv
    BY InvInit
<1>2. IInv /\ [Next]_vars => IInv'
    BY InvStep
<1>3. QED
    BY <1>1, <1>2, PTL DEF Spec

\* Counts, cursors, requests and the boundary keep their types.
THEOREM UnreadTypes == Spec => []TypeOK
<1>1. IInv => TypeOK
    BY DEF IInv
<1>2. QED
    BY <1>1, Invariance, PTL

\* The conversation the user is looking at has no count, however snapshots, events and
\* navigation overtake each other (useUnreadCounts.ts:145-161, 279-287).
THEOREM OpenHasNoCount == Spec => []OpenIsRead
<1>1. IInv => OpenIsRead
    BY DEF IInv
<1>2. QED
    BY <1>1, Invariance, PTL

\* A conversation that was marked unread while it is open, with nothing about it under way,
\* stays unread until the user reads it again (useUnreadCounts.ts:130-138, 370-372).
THEOREM MarkedStaysUnread == Spec => []UnreadMarkStays
<1>1. IInv => UnreadMarkStays
    BY DEF IInv, MarkHolds, UnreadMarkStays
<1>2. QED
    BY <1>1, Invariance, PTL

-----------------------------------------------------------------------------
(* What the counts know of. *)

\* A message is on its way as an event; the POSTs ps will read conversation c, or mark
\* something in it unread.
OnWay(m) == \E i \in 1 .. Len(events) : events[i] = m
Tells(ps, c) ==
    \E s \in 1 .. MaxPosts :
        \/ ps[s].does = "all" \/ (ps[s].does = "channels" /\ c \in Channels)
        \/ ps[s].does \in {"read", "unread", "marked"} /\ ps[s].conv = c

\* Unread messages that never were on screen, did not come to the middle of their
\* conversation, and that no event will announce.
Missed(c) == {m \in Unread(c) : m \notin shown \cup passed /\ ~OnWay(m)}
Known(c) == Missed(c) = {} \/ Tells(posts, c)

\* After a full snapshot a conversation without a count misses nothing, or is about to be
\* read.
CountsKnow ==
    trust = "full" => socket = "up" /\ \A c \in Convs : counts[c] = 0 => Known(c)

\* So it is with what the newest snapshot was answered, until something changes here; and
\* with the open conversation while the first snapshot, which reads nothing, is awaited.
LoadKnows(s) ==
    loads[s].newest /\ socket = "up" /\ trust # "lost" =>
        /\ loads[s].served /\ ~loads[s].stale =>
              \A c \in Convs : Missed(c) \subseteq loads[s].unread \/ Tells(posts, c)
        /\ ~loads[s].marks => \A c \in Convs : c = active => Known(c)

OneNewest == \A s, t \in 1 .. MaxLoads : loads[s].newest /\ loads[t].newest => s = t

KnownInv == CountsKnow /\ OneNewest /\ \A s \in 1 .. MaxLoads : LoadKnows(s)

\* A POST that is sent takes a free place, so that the others stay.
LEMMA SentTells ==
    ASSUME NEW ps \in PostTable, FreePosts(ps) # {}, NEW does, NEW d, NEW m, NEW c
    PROVE  /\ Tells(ps, c) => Tells(Sent(ps, does, d, m), c)
           /\ does = "all" \/ (does = "read" /\ d = c) => Tells(Sent(ps, does, d, m), c)
<1> DEFINE t == Lowest(FreePosts(ps))
<1> DEFINE qs == Sent(ps, does, d, m)
<1>1. t \in 1 .. MaxPosts /\ ps[t].does = "none"
    <2>1. FreePosts(ps) \in SUBSET Nat
        BY BoundsAssumption DEF FreePosts
    <2>2. t \in FreePosts(ps)
        BY <2>1, LowestIn
    <2>3. QED
        BY <2>2 DEF FreePosts
<1>2. qs = [ps EXCEPT ![t] = [does |-> does, conv |-> d, msg |-> m]]
    BY DEF Sent
<1>3. qs[t] = [does |-> does, conv |-> d, msg |-> m]
      /\ \A s \in 1 .. MaxPosts : s # t => qs[s] = ps[s]
    BY <1>1, <1>2 DEF PostTable
<1>4. ASSUME Tells(ps, c) PROVE Tells(qs, c)
    <2>1. PICK s \in 1 .. MaxPosts :
              \/ ps[s].does = "all" \/ (ps[s].does = "channels" /\ c \in Channels)
              \/ ps[s].does \in {"read", "unread", "marked"} /\ ps[s].conv = c
        BY <1>4 DEF Tells
    <2>2. s # t
        BY <1>1, <2>1
    <2>3. qs[s] = ps[s]
        BY <1>3, <2>2
    <2>4. QED
        BY <2>1, <2>3, Zenon DEF Tells
<1>5. ASSUME does = "all" \/ (does = "read" /\ d = c) PROVE Tells(qs, c)
    <2>1. qs[t].does = does /\ qs[t].conv = d
        BY <1>3
    <2>2. QED
        BY <1>1, <1>5, <2>1 DEF Tells
<1>6. QED
    BY <1>4, <1>5

\* The POST of a boundary leaves the others.
LEMMA FlushedTells ==
    ASSUME TypeOK, NEW c, Tells(posts, c), boundary # 0 => FreePosts(posts) # {}
    PROVE  Tells(Flushed(posts), c)
BY SentTells DEF Flushed, TypeOK, PostTable

\* An answered, superseded or failed snapshot leaves the POSTs, and reads what is open.
LEMMA FinishTells ==
    ASSUME TypeOK, NEW s \in 1 .. MaxLoads, FinishLoad(s), NEW c
    PROVE  /\ Tells(posts, c) => Tells(posts', c)
           /\ MarksActive(loads[s]) /\ c = active => Tells(posts', c)
<1>1. CASE MarksActive(loads[s])
    <2>1. FreePosts(posts) # {} /\ posts' = Sent(posts, "read", active, 0) /\ posts \in PostTable
        BY <1>1 DEF FinishLoad, TypeOK, PostTable
    <2>2. QED
        BY <2>1, SentTells
<1>2. CASE ~MarksActive(loads[s])
    BY <1>2 DEF FinishLoad
<1>3. QED
    BY <1>1, <1>2

\* The effect of a page leaves the POSTs, and reads what it opens.
LEMMA ViewTells ==
    ASSUME TypeOK, NEW d \in Convs \cup {NoConv}, View(d, Flushed(posts)),
           boundary # 0 => FreePosts(posts) # {}, NEW c
    PROVE  /\ Tells(posts, c) => Tells(posts', c)
           /\ c = d /\ d # NoConv /\ ~(d = active /\ hushed = d) => Tells(posts', c)
<1>1. Flushed(posts) \in PostTable /\ (Tells(posts, c) => Tells(Flushed(posts), c))
    BY FlushedType, FlushedTells
<1>2. CASE d = NoConv \/ (d = active /\ hushed = d)
    BY <1>1, <1>2 DEF View
<1>3. CASE ~(d = NoConv \/ (d = active /\ hushed = d))
    <2>1. FreePosts(Flushed(posts)) # {} /\ posts' = Sent(Flushed(posts), "read", d, 0)
        BY <1>3 DEF View
    <2>2. QED
        BY <1>1, <2>1, SentTells
<1>4. QED
    BY <1>2, <1>3

\* Nothing is missed that was not before, as long as cursors go forward and events arrive.
LEMMA MissedShrinks ==
    ASSUME TypeOK, NEW c \in Convs, stored' = stored, readTo' \in [Convs -> 0 .. N],
           readTo'[c] >= readTo[c],
           shown \cup passed \subseteq shown' \cup passed',
           \A m \in Rows(c) : OnWay(m) => OnWay(m)' \/ m \in shown' \cup passed'
    PROVE  Missed(c)' \subseteq Missed(c)
<1> SUFFICES ASSUME NEW m \in Missed(c)' PROVE m \in Missed(c)
    OBVIOUS
<1>1. m \in Rows(c) /\ m > readTo'[c] /\ m \notin shown' \cup passed' /\ ~OnWay(m)'
    BY DEF Missed, Unread, Rows
<1>2. m \in Nat /\ readTo[c] \in Nat /\ readTo'[c] \in Nat
    BY <1>1, ConvsAssumption DEF Rows, TypeOK
<1>3. m > readTo[c]
    BY <1>1, <1>2
<1>4. QED
    BY <1>1, <1>3 DEF Missed, Unread

\* An event of another conversation counts its message.
CountsNow(c) ==
    /\ DeliverOther /\ ConvOf[Coming] = c
    /\ counts' = [counts EXCEPT ![c] = @ + 1] /\ loads' = Staled(loads)

\* What a step does to what is known of a conversation: it is told to the server, or nothing
\* is missed, or no more is missed than before, or the message is counted.
Follows(c) ==
    \/ Tells(posts', c)
    \/ Missed(c)' = {}
    \/ ~Tells(posts, c) /\ Missed(c)' \subseteq Missed(c)
    \/ CountsNow(c)

\* The event at the head of the queue is gone, the others stay on their way.
LEMMA TailOnWay ==
    ASSUME TypeOK, events # <<>>, events' = Tail(events), NEW m, OnWay(m), m # Coming
    PROVE  OnWay(m)'
<1>1. PICK i \in 1 .. Len(events) : events[i] = m
    BY DEF OnWay
<1>2. events \in Seq(Msgs) /\ i # 1
    BY <1>1 DEF TypeOK, Coming
<1>3. i - 1 \in 1 .. Len(Tail(events)) /\ Tail(events)[i - 1] = m
    BY <1>1, <1>2
<1>4. QED
    BY <1>3 DEF OnWay

\* Steps that neither store, read nor mark.
LEMMA FollowsQuiet ==
    ASSUME TypeOK, NEW c \in Convs, Tells(posts, c) => Tells(posts', c),
           stored' = stored, readTo' = readTo, shown \cup passed \subseteq shown' \cup passed',
           \A m \in Rows(c) : OnWay(m) => OnWay(m)' \/ m \in shown' \cup passed'
    PROVE  Follows(c)
<1>1. readTo' \in [Convs -> 0 .. N] /\ readTo'[c] >= readTo[c]
    BY ConvsAssumption DEF TypeOK
<1>2. Missed(c)' \subseteq Missed(c)
    BY <1>1, MissedShrinks
<1>3. QED
    BY <1>2 DEF Follows

\* Steps of the server, the socket and the network.
LEMMA FollowsWorld ==
    ASSUME TypeOK, TypeOK', World, NEW c \in Convs, socket' = "up", trust' # "lost"
    PROVE  Follows(c)
<1> USE DEF server, wire, page, badges, history
<1>1. CASE Arrive
    <2>1. posts' = posts /\ shown' = shown /\ passed' = passed /\ readTo' = readTo
          /\ stored' = stored + 1
          /\ events' = Append(events, stored + 1) /\ events \in Seq(Msgs) /\ stored \in Nat
        BY <1>1, ConvsAssumption DEF Arrive, TypeOK
    <2>2. ASSUME NEW m \in Missed(c)' PROVE m \in Missed(c)
        <3>1. m \in 1 .. stored' /\ ConvOf[m] = c /\ m > readTo[c] /\ m \notin shown \cup passed
              /\ ~OnWay(m)'
            BY <2>1, <2>2 DEF Missed, Unread, Rows
        <3>2. Len(events') = Len(events) + 1 /\ events'[Len(events) + 1] = stored + 1
              /\ \A i \in 1 .. Len(events) : events'[i] = events[i]
            BY <2>1, ConvsAssumption DEF TypeOK, Msgs
        <3>3. m # stored + 1
            BY <2>1, <3>1, <3>2 DEF OnWay
        <3>4. ~OnWay(m)
            BY <2>1, <3>1, <3>2 DEF OnWay
        <3>5. m \in 1 .. stored
            BY <2>1, <3>1, <3>3
        <3>6. QED
            BY <3>1, <3>4, <3>5 DEF Missed, Unread, Rows
    <2>3. QED
        BY <2>1, <2>2 DEF Follows
<1>2. CASE PageShows \/ AroundShows
    BY <1>2, FollowsQuiet DEF PageShows, AroundShows, OnWay
<1>3. CASE Close
    BY <1>3 DEF Close
<1>4. ASSUME NEW s \in 1 .. MaxLoads, ServeLoad(s) PROVE Follows(c)
    BY <1>4, FollowsQuiet DEF ServeLoad, OnWay
<1>5. ASSUME NEW s \in 1 .. MaxLoads, LoadFails(s) PROVE Follows(c)
    <2>1. Tells(posts, c) => Tells(posts', c)
        BY <1>5, FinishTells DEF LoadFails
    <2>2. QED
        BY <1>5, <2>1, FollowsQuiet DEF LoadFails, OnWay
<1>6. ASSUME NEW s \in 1 .. MaxPosts, PostFails(s) PROVE FALSE
    BY <1>6 DEF PostFails
<1>7. ASSUME NEW s \in 1 .. MaxPosts, ServePost(s) PROVE Follows(c)
    <2> DEFINE p == posts[s]
    <2>1. /\ p.does \notin {"none", "marked"} /\ p \in Post
          /\ posts' = [posts EXCEPT ![s] = Answered(p)]
          /\ UNCHANGED <<stored, shown, passed, events>>
        BY <1>7 DEF ServePost, TypeOK
    <2>2. /\ Reads(p, c) => readTo'[c] = Newest(c)
          /\ ~Reads(p, c) /\ ~(p.does = "unread" /\ p.conv = c) => readTo'[c] >= readTo[c]
        <3>1. readTo'[c] =
                  CASE Reads(p, c) -> Newest(c)
                    [] p.does = "through" /\ p.conv = c -> Higher(readTo[c], p.msg)
                    [] p.does = "unread" /\ p.conv = c -> p.msg - 1
                    [] OTHER -> readTo[c]
            BY <1>7 DEF ServePost
        <3>2. readTo[c] \in Nat /\ p.msg \in Nat
            BY <2>1, ConvsAssumption DEF TypeOK, Post
        <3>3. Higher(readTo[c], p.msg) >= readTo[c]
            BY <3>2 DEF Higher
        <3>4. Reads(p, c) => p.does # "unread" /\ p.does # "through"
            BY DEF Reads
        <3> HIDE DEF p
        <3>5. QED
            BY <3>1, <3>2, <3>3, <3>4
    <2>3. CASE p.does = "unread" /\ p.conv = c
        <3>1. posts'[s].does = "marked" /\ posts'[s].conv = c
            BY <2>1, <2>3 DEF Answered, TypeOK, Post
        <3>2. QED
            BY <3>1 DEF Follows, Tells
    <2>4. CASE Reads(p, c)
        <3>1. ASSUME NEW m \in Missed(c)' PROVE FALSE
            <4>1. m \in Rows(c) /\ m > Newest(c)
                BY <2>1, <2>2, <2>4, <3>1 DEF Missed, Unread, Rows
            <4>2. m <= Newest(c) /\ m \in Nat /\ Newest(c) \in Nat
                BY <4>1, NewestTops DEF Rows
            <4>3. QED
                BY <4>1, <4>2
        <3>2. QED
            BY <3>1 DEF Follows
    <2>5. CASE ~Reads(p, c) /\ ~(p.does = "unread" /\ p.conv = c)
        <3>1. Tells(posts, c) => Tells(posts', c)
            <4>1. SUFFICES ASSUME NEW t \in 1 .. MaxPosts,
                                  \/ posts[t].does = "all"
                                  \/ posts[t].does = "channels" /\ c \in Channels
                                  \/ /\ posts[t].does \in {"read", "unread", "marked"}
                                     /\ posts[t].conv = c
                           PROVE  Tells(posts', c)
                BY Zenon DEF Tells
            <4>2. CASE t # s
                <5>1. posts'[t] = posts[t]
                    BY <2>1, <4>2 DEF TypeOK
                <5>2. QED
                    BY <4>1, <5>1 DEF Tells
            <4>3. CASE t = s
                <5>1. p.does = "all" /\ c \in Channels
                    BY <2>1, <2>5, <4>1, <4>3 DEF Reads
                <5>2. posts'[s].does = "channels"
                    BY <2>1, <5>1 DEF Answered, TypeOK, Post
                <5>3. QED
                    BY <5>1, <5>2 DEF Tells
            <4>4. QED
                BY <4>2, <4>3
        <3>2. readTo'[c] >= readTo[c] /\ readTo' \in [Convs -> 0 .. N]
            BY <2>2, <2>5, ConvsAssumption DEF TypeOK
        <3>3. Missed(c)' \subseteq Missed(c)
            BY <2>1, <3>2, MissedShrinks DEF OnWay
        <3>4. QED
            BY <3>1, <3>3 DEF Follows
    <2>6. QED
        BY <2>1, <2>3, <2>4, <2>5 DEF Post
<1>8. QED
    BY <1>1, <1>2, <1>3, <1>4, <1>5, <1>6, <1>7 DEF World

\* Steps of the client, but for the same two.
LEMMA FollowsClient ==
    ASSUME TypeOK, Client, NEW c \in Convs, \A s \in 1 .. MaxPosts : ~UnreadMarked(s),
           \A s \in 1 .. MaxLoads : ~Apply(s)
    PROVE  Follows(c)
<1> USE DEF server, wire, page, badges, history
<1>1. CASE Refresh
    BY <1>1, FollowsQuiet DEF Refresh, OnWay
<1>2. CASE DeliverOpen
    <2>1. Tells(posts, c) => Tells(posts', c)
        <3>1. CASE posts' = posts
            BY <3>1
        <3>2. CASE posts' # posts
            <4>1. FreePosts(posts) # {} /\ posts' = Flushed(posts)
                BY <1>2, <3>2 DEF DeliverOpen, Schedule
            <4>2. QED
                BY <4>1, FlushedTells
        <3>3. QED
            BY <3>1, <3>2
    <2>2. Coming \in shown' \cup passed' /\ shown \cup passed \subseteq shown' \cup passed'
        BY <1>2 DEF DeliverOpen
    <2>3. \A m \in Rows(c) : OnWay(m) => OnWay(m)' \/ m \in shown' \cup passed'
        BY <1>2, <2>2, TailOnWay DEF DeliverOpen
    <2>4. QED
        BY <1>2, <2>1, <2>2, <2>3, FollowsQuiet DEF DeliverOpen
<1>3. CASE DeliverOther
    <2>1. \A m \in Rows(c) : m # Coming => (OnWay(m) => OnWay(m)')
        BY <1>3, TailOnWay DEF DeliverOther
    <2>2. CASE ConvOf[Coming] = c /\ ~(Coming \in shown)
        BY <1>3, <2>2 DEF DeliverOther, Follows, CountsNow
    <2>3. CASE ConvOf[Coming] # c \/ Coming \in shown
        <3>1. \A m \in Rows(c) : OnWay(m) => OnWay(m)' \/ m \in shown' \cup passed'
            BY <1>3, <2>1, <2>3 DEF Rows, DeliverOther
        <3>2. QED
            BY <1>3, <3>1, FollowsQuiet DEF DeliverOther
    <2>4. QED
        BY <2>2, <2>3
<1>4. CASE Flush
    <2>1. Tells(posts, c) => Tells(posts', c)
        BY <1>4, FlushedTells DEF Flush
    <2>2. QED
        BY <1>4, <2>1, FollowsQuiet DEF Flush, OnWay
<1>5. CASE Rerender
    <2>1. Tells(posts, c) => Tells(posts', c)
        BY <1>5, ViewTells DEF Rerender, TypeOK
    <2>2. QED
        BY <1>5, <2>1, FollowsQuiet DEF Rerender, OnWay
<1>6. ASSUME NEW s \in 1 .. MaxLoads, Superseded(s) PROVE Follows(c)
    <2>1. Tells(posts, c) => Tells(posts', c)
        BY <1>6, FinishTells DEF Superseded
    <2>2. QED
        BY <1>6, <2>1, FollowsQuiet DEF Superseded, OnWay
<1>7. ASSUME NEW s \in 1 .. MaxLoads, Retry(s) PROVE Follows(c)
    BY <1>7, FollowsQuiet DEF Retry, OnWay
<1>8. QED
    BY <1>1, <1>2, <1>3, <1>4, <1>5, <1>6, <1>7 DEF Client

\* Steps of the user.
LEMMA FollowsUser ==
    ASSUME TypeOK, User, NEW c \in Convs
    PROVE  Follows(c)
<1> USE DEF server, wire, page, badges, history
<1>1. ASSUME NEW d \in Convs \cup {NoConv}, Open(d) PROVE Follows(c)
    <2>1. Tells(posts, c) => Tells(posts', c)
        BY <1>1, ViewTells DEF Open
    <2>2. QED
        BY <1>1, <2>1, FollowsQuiet DEF Open, OnWay
<1>2. ASSUME FreePosts(posts) # {}, NEW does, NEW d, NEW m, posts' = Sent(posts, does, d, m),
             UNCHANGED <<stored, readTo, shown, passed, events>>
      PROVE  Follows(c)
    <2>1. Tells(posts, c) => Tells(posts', c)
        BY <1>2, SentTells DEF TypeOK, PostTable
    <2>2. QED
        BY <1>2, <2>1, FollowsQuiet DEF OnWay
<1>3. CASE MarkAllRead
    BY <1>2, <1>3 DEF MarkAllRead
<1>4. ASSUME NEW d \in Convs, MarkRead(d) PROVE Follows(c)
    BY <1>2, <1>4 DEF MarkRead
<1>5. ASSUME NEW m \in Msgs, MarkUnread(m) PROVE Follows(c)
    BY <1>2, <1>5 DEF MarkUnread
<1>6. CASE JumpToBottom
    BY <1>6, FollowsQuiet DEF JumpToBottom, OnWay
<1>7. QED
    BY <1>1, <1>3, <1>4, <1>5, <1>6 DEF User

\* Every step, but for a snapshot that is applied and the answer to a request to mark a
\* message unread.
LEMMA FollowsStep ==
    ASSUME TypeOK, TypeOK', [Next]_vars, NEW c \in Convs, socket' = "up", trust' # "lost",
           \A s \in 1 .. MaxPosts : ~UnreadMarked(s), \A s \in 1 .. MaxLoads : ~Apply(s)
    PROVE  Follows(c)
<1>1. CASE Next
    BY <1>1, FollowsWorld, FollowsClient, FollowsUser DEF Next
<1>2. CASE UNCHANGED vars
    BY <1>2, FollowsQuiet DEF vars, server, wire, page, history, OnWay
<1>3. QED
    BY <1>1, <1>2

\* A snapshot that was asked for goes on; when it is answered, it has what is unread.
LoadGoesOn(s) ==
    /\ loads[s].newest /\ loads'[s].marks = loads[s].marks
    /\ loads'[s].served /\ ~loads'[s].stale =>
          \/ loads[s].served /\ ~loads[s].stale /\ loads'[s].unread = loads[s].unread
          \/ \A c \in Convs : Unread(c)' \subseteq loads'[s].unread

\* A new snapshot is the newest, and reads what is open in the end.
LEMMA StartedLoads ==
    ASSUME NEW ls \in LoadTable, NEW s \in 1 .. MaxLoads, Started(ls, TRUE)[s].newest
    PROVE  Started(ls, TRUE)[s].marks /\ ~Started(ls, TRUE)[s].served
BY DEF Started, NoLoad, LoadTable

\* Making the snapshots under way stale changes nothing else of the newest one.
LEMMA StaledLoads ==
    ASSUME NEW ls \in LoadTable, NEW s \in 1 .. MaxLoads, Staled(ls)[s].newest
    PROVE  ls[s].newest /\ Staled(ls)[s].marks = ls[s].marks /\ Staled(ls)[s].stale
BY DEF Staled, LoadTable, Load

\* The newest snapshot after a step was the newest before, or has just been asked for.
LEMMA LoadComes ==
    ASSUME TypeOK, [Next]_vars, NEW s \in 1 .. MaxLoads, loads'[s].newest
    PROVE  \/ loads'[s].marks /\ ~loads'[s].served
           \/ /\ ~Refresh /\ \A t \in 1 .. MaxPosts : ~UnreadMarked(t)
              /\ LoadGoesOn(s)
<1> USE DEF server, wire, page, badges, history
<1>0. loads \in LoadTable
    BY DEF TypeOK, LoadTable
<1>1. CASE loads' = Started(loads, TRUE)
    BY <1>0, <1>1, StartedLoads
<1>2. CASE Refresh \/ \E t \in 1 .. MaxPosts : UnreadMarked(t)
    BY <1>1, <1>2 DEF Refresh, UnreadMarked
<1>3. SUFFICES ASSUME ~Refresh, \A t \in 1 .. MaxPosts : ~UnreadMarked(t) PROVE LoadGoesOn(s)
    BY <1>2, <1>3
<1>4. CASE loads'[s] = loads[s]
    BY <1>4 DEF LoadGoesOn
<1>5. CASE loads' = Staled(loads)
    BY <1>0, <1>5, StaledLoads DEF LoadGoesOn
<1>6. ASSUME NEW t \in 1 .. MaxLoads, FinishLoad(t) PROVE LoadGoesOn(s)
    <2>1. loads' = [loads EXCEPT ![t] = NoLoad]
        BY <1>6 DEF FinishLoad
    <2>2. s # t
        BY <1>0, <2>1 DEF NoLoad, LoadTable
    <2>3. loads'[s] = loads[s]
        BY <1>0, <2>1, <2>2 DEF LoadTable
    <2>4. QED
        BY <1>4, <2>3
<1>7. ASSUME NEW t \in 1 .. MaxLoads, ServeLoad(t) PROVE LoadGoesOn(s)
    <2> DEFINE unread == {m \in Msgs : loads[t].newest /\ m \in Unread(ConvOf[m])}
    <2>1. loads' = [loads EXCEPT ![t].served = TRUE, ![t].unread = unread]
          /\ stored' = stored /\ readTo' = readTo
        BY <1>7 DEF ServeLoad
    <2>2. CASE s # t
        <3>1. loads'[s] = loads[s]
            BY <1>0, <2>1, <2>2 DEF LoadTable
        <3>2. QED
            BY <1>4, <3>1
    <2>3. CASE s = t
        <3>1. loads'[s].newest = loads[s].newest /\ loads'[s].marks = loads[s].marks
              /\ loads'[s].unread = unread
            <4> HIDE DEF unread
            <4>1. QED
                BY <1>0, <2>1, <2>3 DEF LoadTable, Load
        <3>2. ASSUME NEW c \in Convs PROVE Unread(c)' \subseteq unread
            <4>1. SUFFICES ASSUME NEW m \in Unread(c)' PROVE m \in unread
                OBVIOUS
            <4>2. m \in Unread(c)
                BY <2>1, <4>1 DEF Unread, Rows
            <4>3. m \in Msgs /\ ConvOf[m] = c
                BY <4>2, ConvsAssumption DEF Unread, Rows, TypeOK, Msgs
            <4>4. QED
                BY <2>3, <3>1, <4>2, <4>3
        <3>3. QED
            BY <3>1, <3>2 DEF LoadGoesOn
    <2>4. QED
        BY <2>2, <2>3
<1>8. ASSUME NEW t \in 1 .. MaxLoads, Retry(t) PROVE LoadGoesOn(s)
    <2>1. loads' = [loads EXCEPT ![t].stale = FALSE, ![t].attempt = @ + 1,
                                 ![t].served = FALSE, ![t].unread = {}]
        BY <1>8 DEF Retry
    <2>2. CASE s # t
        <3>1. loads'[s] = loads[s]
            BY <1>0, <2>1, <2>2 DEF LoadTable
        <3>2. QED
            BY <1>4, <3>1
    <2>3. CASE s = t
        <3>1. loads'[s].newest = loads[s].newest /\ loads'[s].marks = loads[s].marks
              /\ ~loads'[s].served
            BY <1>0, <2>1, <2>3 DEF LoadTable, Load
        <3>2. QED
            BY <3>1 DEF LoadGoesOn
    <2>4. QED
        BY <2>2, <2>3
<1>9. CASE World
    <2>1. CASE loads' = loads
        BY <1>4, <2>1
    <2>2. QED
        BY <1>6, <1>7, <1>9, <2>1
        DEF World, Arrive, PageShows, AroundShows, Close, ServePost, PostFails, LoadFails
<1>10. CASE Client
    <2>1. CASE loads' = loads
        BY <1>4, <2>1
    <2>2. QED
        BY <1>3, <1>5, <1>6, <1>8, <1>10, <2>1
        DEF Client, DeliverOpen, DeliverOther, Flush, Rerender, Superseded, Apply
<1>11. CASE User
    <2>1. CASE loads' = loads
        BY <1>4, <2>1
    <2>2. QED
        BY <1>5, <1>11, <2>1 DEF User, Open, JumpToBottom, MarkAllRead, MarkRead, MarkUnread
<1>12. CASE UNCHANGED vars
    BY <1>4, <1>12 DEF vars
<1>13. QED
    BY <1>9, <1>10, <1>11, <1>12 DEF Next

\* The socket opens with a refresh only, and lost trust is not regained.
LEMMA SocketComes ==
    ASSUME [Next]_vars, socket' = "up", ~Refresh
    PROVE  socket = "up"
BY DEF Next, World, Client, User, Arrive, PageShows, AroundShows, Close, ServeLoad, LoadFails,
    ServePost, PostFails,
       DeliverOpen, DeliverOther, Flush, Rerender, Superseded, Retry, Apply, UnreadMarked,
       Open, JumpToBottom, MarkAllRead, MarkRead, MarkUnread, vars, wire

\* A POST that did not reach the server spoils the counts for good.
LEMMA TrustStays ==
    ASSUME [Next]_vars, trust = "lost"
    PROVE  trust' = "lost"
BY DEF Next, World, Client, User, Arrive, PageShows, AroundShows, Close, ServeLoad, LoadFails,
    ServePost, PostFails,
       Refresh, DeliverOpen, DeliverOther, Flush, Rerender, Superseded, Retry, Apply, UnreadMarked,
       Open, JumpToBottom, MarkAllRead, MarkRead, MarkUnread, vars, history, Trusted

\* What is open changes only when the user opens it, and then it is told to the server.
LEMMA OpenTells ==
    ASSUME TypeOK, [Next]_vars, NEW c \in Convs, c = active'
    PROVE  c = active \/ Tells(posts', c)
<1>1. ASSUME NEW d \in Convs \cup {NoConv}, Open(d) PROVE Tells(posts', c)
    <2>1. c = d /\ d # active /\ View(d, Flushed(posts)) /\ (boundary # 0 => FreePosts(posts) # {})
        BY <1>1 DEF Open
    <2>2. c # NoConv
        BY ConvsAssumption
    <2>3. QED
        BY <2>1, <2>2, ViewTells
<1>2. CASE active' = active
    BY <1>2
<1>3. QED
    BY <1>1, <1>2
    DEF Next, World, Client, User, Arrive, PageShows, AroundShows, Close, ServeLoad, LoadFails,
        ServePost,
        PostFails, Refresh, DeliverOpen, DeliverOther, Flush, Rerender, Superseded, Retry, Apply,
        UnreadMarked, JumpToBottom, MarkAllRead, MarkRead, MarkUnread, vars, page

\* There is one newest snapshot at most: only starting one makes one the newest.
LEMMA OneNewestStep ==
    ASSUME TypeOK, OneNewest, [Next]_vars
    PROVE  OneNewest'
<1>0. loads \in LoadTable
    BY DEF TypeOK, LoadTable
<1>1. CASE loads' = Started(loads, TRUE)
    <2>1. \A s \in 1 .. MaxLoads :
              loads'[s].newest => s = Lowest({t \in DOMAIN loads : ~loads[t].on})
        BY <1>0, <1>1 DEF Started, NoLoad, LoadTable
    <2>2. QED
        BY <2>1 DEF OneNewest
<1>2. CASE \A s \in 1 .. MaxLoads : loads'[s].newest => loads[s].newest
    BY <1>2 DEF OneNewest
<1>3. CASE loads' = Staled(loads)
    BY <1>0, <1>2, <1>3, StaledLoads
<1>4. ASSUME NEW t \in 1 .. MaxLoads, FinishLoad(t) \/ ServeLoad(t) \/ Retry(t)
      PROVE  OneNewest'
    <2>1. \A s \in 1 .. MaxLoads : s # t => loads'[s] = loads[s]
        BY <1>0, <1>4 DEF FinishLoad, ServeLoad, Retry, LoadTable
    <2>2. loads'[t].newest => loads[t].newest
        <3>1. CASE FinishLoad(t)
            BY <1>0, <3>1 DEF FinishLoad, NoLoad, LoadTable
        <3>2. CASE Retry(t)
            BY <1>0, <3>2 DEF Retry, LoadTable, Load
        <3>3. CASE ServeLoad(t)
            <4> DEFINE unread == {m \in Msgs : loads[t].newest /\ m \in Unread(ConvOf[m])}
            <4>1. loads' = [loads EXCEPT ![t].served = TRUE, ![t].unread = unread]
                BY <3>3 DEF ServeLoad
            <4> HIDE DEF unread
            <4>2. QED
                BY <1>0, <4>1 DEF LoadTable, Load
        <3>4. QED
            BY <1>4, <3>1, <3>2, <3>3
    <2>3. QED
        BY <1>2, <2>1, <2>2
<1>5. CASE loads' = loads
    BY <1>2, <1>5
<1>6. CASE World
    BY <1>4, <1>5, <1>6
    DEF World, Arrive, PageShows, AroundShows, Close, ServePost, PostFails, LoadFails
<1>7. CASE Client
    BY <1>1, <1>3, <1>4, <1>5, <1>7
    DEF Client, Refresh, DeliverOpen, DeliverOther, Flush, Rerender, Superseded, Apply,
        UnreadMarked
<1>8. CASE User
    BY <1>3, <1>5, <1>8 DEF User, Open, JumpToBottom, MarkAllRead, MarkRead, MarkUnread
<1>9. QED
    BY <1>5, <1>6, <1>7, <1>8 DEF Next, vars

\* The newest snapshot keeps what it needs, or what it lacks is on its way.
LEMMA LoadKnowsStep ==
    ASSUME TypeOK, TypeOK', KnownInv, [Next]_vars, NEW s \in 1 .. MaxLoads
    PROVE  LoadKnows(s)'
<1> SUFFICES ASSUME loads'[s].newest, socket' = "up", trust' # "lost"
             PROVE  /\ loads'[s].served /\ ~loads'[s].stale =>
                          \A c \in Convs : Missed(c)' \subseteq loads'[s].unread \/ Tells(posts', c)
                    /\ ~loads'[s].marks => \A c \in Convs : c = active' => Known(c)'
    BY DEF LoadKnows, Tells
<1>1. CASE loads'[s].marks /\ ~loads'[s].served
    BY <1>1
<1>2. CASE ~(loads'[s].marks /\ ~loads'[s].served)
    <2>1. ~Refresh /\ (\A t \in 1 .. MaxPosts : ~UnreadMarked(t)) /\ LoadGoesOn(s)
        BY <1>2, LoadComes
    <2>2. socket = "up" /\ trust # "lost" /\ loads[s].newest
        BY <2>1, SocketComes, TrustStays DEF LoadGoesOn
    <2>3. /\ loads[s].served /\ ~loads[s].stale =>
                \A c \in Convs : Missed(c) \subseteq loads[s].unread \/ Tells(posts, c)
          /\ ~loads[s].marks => \A c \in Convs : c = active => Known(c)
        BY <2>2 DEF KnownInv, LoadKnows
    <2>4. \A c \in Convs : Follows(c)
        <3>1. ASSUME NEW t \in 1 .. MaxLoads, Apply(t) PROVE FALSE
            <4>1. loads[t].newest /\ loads' = [loads EXCEPT ![t] = NoLoad]
                BY <3>1 DEF Apply, FinishLoad
            <4>2. s = t
                BY <2>2, <4>1 DEF KnownInv, OneNewest
            <4>3. QED
                BY <4>1, <4>2 DEF TypeOK, NoLoad
        <3>2. QED
            BY <2>1, <3>1, FollowsStep
    <2>5. ASSUME loads'[s].served, ~loads'[s].stale, NEW c \in Convs
          PROVE  Missed(c)' \subseteq loads'[s].unread \/ Tells(posts', c)
        <3>1. CASE Unread(c)' \subseteq loads'[s].unread
            BY <3>1 DEF Missed
        <3>2. CASE loads[s].served /\ ~loads[s].stale /\ loads'[s].unread = loads[s].unread
            <4>1. ~CountsNow(c)
                <5>1. loads' = Staled(loads) => loads'[s].stale
                    BY StaledLoads DEF TypeOK, LoadTable
                <5>2. QED
                    BY <2>5, <5>1 DEF CountsNow
            <4>2. Missed(c) \subseteq loads[s].unread \/ Tells(posts, c)
                BY <2>3, <3>2
            <4>3. QED
                BY <2>4, <3>2, <4>1, <4>2 DEF Follows
        <3>3. QED
            BY <2>1, <2>5, <3>1, <3>2 DEF LoadGoesOn
    <2>6. ASSUME ~loads'[s].marks, NEW c \in Convs, c = active'
          PROVE  Missed(c)' = {} \/ Tells(posts', c)
        <3>1. CASE c = active
            <4>1. Known(c) /\ Follows(c)
                BY <2>1, <2>3, <2>4, <2>6, <3>1 DEF LoadGoesOn
            <4>2. ~CountsNow(c)
                BY <3>1 DEF CountsNow, DeliverOther
            <4>3. QED
                BY <4>1, <4>2 DEF Known, Follows
        <3>2. CASE c # active
            BY <2>6, <3>2, OpenTells
        <3>3. QED
            BY <3>1, <3>2
    <2>7. QED
        BY <2>5, <2>6 DEF Known, Tells
<1>3. QED
    BY <1>1, <1>2

\* A conversation that a snapshot counts has messages in it.
LEMMA CountedPositive ==
    ASSUME NEW S \in SUBSET Msgs, NEW c \in Convs, c # active, Counted(S)[c] = 0, NEW m \in S
    PROVE  ConvOf[m] # c
<1> DEFINE own == {k \in S : ConvOf[k] = c}
<1>1. IsFiniteSet(own)
    <2>1. IsFiniteSet(1 .. N)
        BY ConvsAssumption, FS_Interval
    <2>2. own \subseteq 1 .. N
        BY DEF Msgs
    <2>3. QED
        BY <2>1, <2>2, FS_Subset
<1>2. Cardinality(own) = 0
    BY DEF Counted
<1>3. own = {}
    BY <1>1, <1>2, FS_EmptySet
<1>4. QED
    BY <1>3

\* A count that goes away other than by a snapshot is read on the server.
LEMMA ResetTells ==
    ASSUME TypeOK, [Next]_vars, NEW c \in Convs, counts[c] # 0, counts'[c] = 0,
           \A s \in 1 .. MaxLoads : ~Apply(s)
    PROVE  Tells(posts', c)
<1> USE DEF badges
<1>1. ASSUME NEW d \in Convs \cup {NoConv}, View(d, Flushed(posts)),
             boundary # 0 => FreePosts(posts) # {}
      PROVE  Tells(posts', c)
    <2>1. c = d /\ d # NoConv /\ ~(d = active /\ hushed = d)
        BY <1>1, ConvsAssumption DEF View, TypeOK
    <2>2. QED
        BY <1>1, <2>1, ViewTells
<1>2. CASE counts' = counts
    BY <1>2
<1>3. CASE DeliverOther
    <2>1. ConvOf[Coming] \in Convs
        BY <1>3, EventTypes DEF DeliverOther
    <2>2. counts' = [counts EXCEPT ![ConvOf[Coming]] = @ + 1]
        BY <1>2, <1>3 DEF DeliverOther
    <2>3. counts[c] \in Nat /\ (counts'[c] = counts[c] \/ counts'[c] = counts[c] + 1)
        BY <2>1, <2>2 DEF TypeOK
    <2>4. QED
        BY <2>3
<1>4. CASE Rerender
    BY <1>1, <1>4 DEF Rerender, TypeOK
<1>5. ASSUME NEW d \in Convs \cup {NoConv}, Open(d) PROVE Tells(posts', c)
    BY <1>1, <1>5 DEF Open
<1>6. CASE MarkAllRead
    <2>1. FreePosts(posts) # {} /\ posts' = Sent(posts, "all", NoConv, 0) /\ posts \in PostTable
        BY <1>6 DEF MarkAllRead, TypeOK, PostTable
    <2>2. QED
        BY <2>1, SentTells
<1>7. ASSUME NEW d \in Convs, MarkRead(d) PROVE Tells(posts', c)
    <2>1. FreePosts(posts) # {} /\ posts' = Sent(posts, "read", d, 0) /\ posts \in PostTable
        BY <1>7 DEF MarkRead, TypeOK, PostTable
    <2>2. c = d
        BY <1>7 DEF MarkRead, TypeOK
    <2>3. QED
        BY <2>1, <2>2, SentTells
<1>8. QED
    BY <1>2, <1>3, <1>4, <1>5, <1>6, <1>7
    DEF Next, World, Client, User, Arrive, PageShows, AroundShows, Close, ServeLoad, LoadFails,
        ServePost,
        PostFails, Refresh, DeliverOpen, Flush, Superseded, Retry, UnreadMarked, JumpToBottom,
        MarkUnread, vars

\* Trust comes with a snapshot only, and goes with the socket and with an unread mark.
LEMMA TrustComes ==
    ASSUME [Next]_vars, trust' = "full", \A s \in 1 .. MaxLoads : ~Apply(s)
    PROVE  /\ trust = "full"
           /\ \A s \in 1 .. MaxPosts : ~UnreadMarked(s)
           /\ socket' = socket \/ socket' = "up"
<1>1. ~Close /\ \A s \in 1 .. MaxPosts : ~UnreadMarked(s)
    BY DEF Close, UnreadMarked, Trusted
<1>2. trust = "full" /\ (socket' = socket \/ socket' = "up")
    BY <1>1
    DEF Next, World, Client, User, Arrive, PageShows, AroundShows, ServeLoad, LoadFails,
        ServePost, PostFails,
        Refresh, DeliverOpen, DeliverOther, Flush, Rerender, Superseded, Retry, Open, JumpToBottom,
        MarkAllRead, MarkRead, MarkUnread, vars, history, wire
<1>3. QED
    BY <1>1, <1>2

\* After a full snapshot, what has no count misses nothing, or is about to be read.
LEMMA CountsKnowStep ==
    ASSUME TypeOK, TypeOK', KnownInv, [Next]_vars
    PROVE  CountsKnow'
<1> SUFFICES ASSUME trust' = "full"
             PROVE  socket' = "up" /\ \A c \in Convs : counts'[c] = 0 => Missed(c)' = {} \/ Tells(posts', c)
    BY DEF CountsKnow, Known, Tells
<1>1. ASSUME NEW s \in 1 .. MaxLoads, Apply(s)
      PROVE  socket' = "up" /\ \A c \in Convs : counts'[c] = 0 => Missed(c)' = {} \/ Tells(posts', c)
    <2>1. /\ socket = "up" /\ ~(loads[s].stale /\ loads[s].attempt = Attempts)
          /\ active = NoConv \/ hushed # active
          /\ trust # "lost"
        BY <1>1 DEF Apply, Trusted
    <2>2. /\ loads[s].served /\ loads[s].newest /\ ~MustRetry(loads[s]) /\ FinishLoad(s)
          /\ counts' = Counted(loads[s].unread)
          /\ passed' = passed \ {m \in loads[s].unread : ConvOf[m] # active}
          /\ UNCHANGED <<stored, readTo, socket, events, shown>>
        BY <1>1 DEF Apply, server, wire, page
    <2>3. ~loads[s].stale
        <3>1. loads[s].attempt \in 1 .. Attempts
            BY DEF TypeOK, Load
        <3>2. QED
            BY <2>1, <2>2, <3>1, AttemptsAssumption DEF MustRetry
    <2>4. /\ \A c \in Convs : Missed(c) \subseteq loads[s].unread \/ Tells(posts, c)
          /\ ~loads[s].marks => \A c \in Convs : c = active => Known(c)
        BY <2>1, <2>2, <2>3 DEF KnownInv, LoadKnows
    <2>5. ASSUME NEW c \in Convs, counts'[c] = 0, ~Tells(posts', c) PROVE Missed(c)' = {}
        <3>1. ~Tells(posts, c) /\ ~(MarksActive(loads[s]) /\ c = active)
            BY <2>2, <2>5, FinishTells
        <3>2. ASSUME c = active \/ \A m \in loads[s].unread : ConvOf[m] # c
              PROVE  Missed(c)' \subseteq Missed(c)
            <4>1. SUFFICES ASSUME NEW m \in Missed(c)' PROVE m \in Missed(c)
                OBVIOUS
            <4>2. m \in Unread(c) /\ ConvOf[m] = c /\ m \notin shown \cup passed' /\ ~OnWay(m)
                BY <2>2, <4>1 DEF Missed, Unread, Rows, OnWay
            <4>3. m \notin passed
                BY <2>2, <3>2, <4>2
            <4>4. QED
                BY <4>2, <4>3 DEF Missed
        <3>3. CASE c = active
            <4>1. ~loads[s].marks
                BY <2>1, <3>1, <3>3, ConvsAssumption DEF MarksActive
            <4>2. QED
                BY <2>4, <3>1, <3>2, <3>3, <4>1 DEF Known
        <3>4. CASE c # active
            <4>1. loads[s].unread \in SUBSET Msgs /\ Counted(loads[s].unread)[c] = 0
                BY <2>2, <2>5 DEF TypeOK, Load
            <4>2. \A m \in loads[s].unread : ConvOf[m] # c
                BY <3>4, <4>1, CountedPositive
            <4>3. \A m \in Missed(c) : ConvOf[m] = c
                BY DEF Missed, Unread, Rows
            <4>4. Missed(c)' \subseteq Missed(c)
                BY <3>2, <4>2
            <4>5. QED
                BY <2>4, <3>1, <4>2, <4>3, <4>4
        <3>5. QED
            BY <3>3, <3>4
    <2>6. QED
        BY <2>1, <2>2, <2>5
<1>2. CASE \A s \in 1 .. MaxLoads : ~Apply(s)
    <2>1. /\ trust = "full" /\ \A s \in 1 .. MaxPosts : ~UnreadMarked(s)
          /\ socket' = "up"
        BY <1>2, TrustComes DEF KnownInv, CountsKnow
    <2>2. ASSUME NEW c \in Convs, counts'[c] = 0 PROVE Missed(c)' = {} \/ Tells(posts', c)
        <3>1. CASE counts[c] = 0
            <4>1. Known(c) /\ Follows(c)
                BY <1>2, <2>1, <3>1, FollowsStep DEF KnownInv, CountsKnow
            <4>2. ~CountsNow(c)
                BY <2>2, <3>1 DEF CountsNow, TypeOK
            <4>3. QED
                BY <4>1, <4>2 DEF Known, Follows
        <3>2. CASE counts[c] # 0
            BY <1>2, <2>2, <3>2, ResetTells
        <3>3. QED
            BY <3>1, <3>2
    <2>3. QED
        BY <2>1, <2>2
<1>3. QED
    BY <1>1, <1>2

\* When everything has settled, a message that the server has as unread and that never was
\* on screen is announced by a count (useUnreadCounts.ts:145-161, 181-203), except for one that
\* came to the middle of its open conversation and that no snapshot counted since.
THEOREM NothingIsHidden == Spec => []NothingHidden
<1>1. Init => KnownInv
    <2> SUFFICES ASSUME Init PROVE KnownInv
        OBVIOUS
    <2>1. active = NoConv /\ trust = "none"
        BY DEF Init
    <2>2. loads = Started([s \in 1 .. MaxLoads |-> NoLoad], FALSE)
        BY DEF Init
    <2>3. \A s \in 1 .. MaxLoads : ~loads[s].served
        BY <2>2 DEF Started, NoLoad
    <2>4. OneNewest
        BY <2>2 DEF OneNewest, Started, NoLoad
    <2>5. QED
        BY <2>1, <2>3, <2>4, ConvsAssumption DEF KnownInv, CountsKnow, LoadKnows
<1>2. TypeOK /\ TypeOK' /\ KnownInv /\ [Next]_vars => KnownInv'
    BY LoadKnowsStep, CountsKnowStep, OneNewestStep DEF KnownInv
<1>3. TypeOK /\ KnownInv => NothingHidden
    <2> SUFFICES ASSUME TypeOK, KnownInv, Quiet, trust = "full", NEW c \in Convs, counts[c] = 0
                 PROVE  Unread(c) \subseteq shown \cup passed
        BY DEF NothingHidden, TypeOK
    <2>1. ~Tells(posts, c)
        BY DEF Tells, Quiet
    <2>2. Missed(c) = {}
        BY <2>1 DEF KnownInv, CountsKnow, Known
    <2>3. \A m \in Msgs : ~OnWay(m)
        BY DEF Quiet, OnWay
    <2>4. Unread(c) \subseteq Msgs
        BY ConvsAssumption DEF Unread, Rows, Msgs, TypeOK
    <2>5. QED
        BY <2>2, <2>3, <2>4 DEF Missed
<1>4. QED
    BY <1>1, <1>2, <1>3, UnreadTypes, PTL DEF Spec
=============================================================================
