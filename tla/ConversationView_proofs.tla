----------------------- MODULE ConversationView_proofs -----------------------
(***************************************************************************)
(* Proofs about ConversationView for any conversations, any number of      *)
(* messages, any sizes of pages and of the cache, and all bounds.          *)
(***************************************************************************)
EXTENDS ConversationView, MessageLists_proofs

\* The answer of a send is about a message of its conversation.
SentIsOwn ==
    \A s \in Slots : fetches[s].kind = "sent" =>
        /\ fetches[s].served /\ fetches[s].anchor \in Msgs
        /\ ConvOf[fetches[s].anchor] = fetches[s].conv

TypeInv == TypeOK /\ SentIsOwn

\* A request that has just been sent.
Begun(f) ==
    /\ f \in Fetch /\ f.page = Nothing
    /\ f.atStart \subseteq Shown(view) \cup Shown(onScreen)
    /\ f.kind # "sent" => ~f.served
    /\ f.kind = "sent" =>
         f.served /\ f.anchor \in Msgs /\ f.anchor \in stored' /\ ConvOf[f.anchor] = f.conv

----------------------------------------------------------------------------
(* Helpers *)

\* The budgets stay numbers.
LEMMA SpendType ==
    ASSUME TypeOK, NEW kind \in Kinds, Spend(kind)
    PROVE  left' \in [Kinds -> Nat]
<1>1. left \in [Kinds -> Nat] /\ left[kind] > 0 /\ left[kind] \in Nat
    BY DEF TypeOK, Spend
<1>2. left[kind] - 1 \in Nat
    BY <1>1
<1>3. left' = [left EXCEPT ![kind] = left[kind] - 1]
    BY DEF Spend
<1>4. QED
    BY <1>1, <1>2, <1>3

\* What the bounds count.
LEMMA KindsAre == {"user", "send", "change", "drop", "fail"} \subseteq Kinds
BY DEF Kinds

\* Events stay events.
LEMMA PushType ==
    ASSUME TypeOK, mark' \in [Msgs -> Marks], NEW does \in {"stored", "marked", "deleted"},
           NEW m \in Msgs, Push(does, m)
    PROVE  events' \in Seq(Event)
<1> DEFINE e == [does |-> does, msg |-> m, mark |-> mark'[m]]
<1>1. e \in Event
    BY DEF Event
<1>2. events' = events \/ events' = Append(events, e)
    BY DEF Push
<1>3. events \in Seq(Event)
    BY DEF TypeOK
<1> HIDE DEF e
<1>4. Append(events, e) \in Seq(Event)
    BY <1>1, <1>3, AppendProperties
<1>5. QED
    BY <1>2, <1>3, <1>4

\* A free place.
LEMMA NoFetchType == NoFetch \in Fetch /\ NoFetch.kind = "none" /\ ~NoFetch.served
                     /\ NoFetch.page = Nothing /\ NoFetch.atStart = {}
<1>1. 0 \in 0 .. N /\ {} \in SUBSET Msgs
    BY NAssumption
<1>2. QED
    BY <1>1, NothingType DEF NoFetch, Fetch

\* A request is changed in one of three ways before it is sent: the messages on screen are
\* noted, it gets a number as well, or its answer is under way at once.
LEMMA FetchFrom ==
    ASSUME NEW g \in Fetch, NEW S \in SUBSET Msgs, NEW f, f = [g EXCEPT !.atStart = S]
    PROVE  /\ f \in Fetch /\ f.kind = g.kind /\ f.conv = g.conv /\ f.page = g.page
           /\ f.anchor = g.anchor /\ f.atStart = S /\ f.served = g.served
<1>1. f \in Fetch
    BY DEF Fetch
<1>2. QED
    BY <1>1 DEF Fetch

\* See FetchFrom.
LEMMA FetchServed ==
    ASSUME NEW g \in Fetch, NEW f, f = [g EXCEPT !.served = TRUE]
    PROVE  /\ f \in Fetch /\ f.kind = g.kind /\ f.conv = g.conv /\ f.page = g.page
           /\ f.anchor = g.anchor /\ f.atStart = g.atStart /\ f.served
<1>1. f \in Fetch
    BY DEF Fetch
<1>2. QED
    BY <1>1 DEF Fetch

\* A new request takes one place and leaves the others.
LEMMA IssueIs ==
    ASSUME NEW fs \in [Slots -> Fetch], NEW f \in Fetch
    PROVE  /\ Issue(fs, f) \in [Slots -> Fetch]
           /\ \A s \in Slots : Issue(fs, f)[s] = fs[s] \/ Issue(fs, f)[s] = f
BY DEF Issue

----------------------------------------------------------------------------
(* What a step does to the requests *)

\* The rows of an answer are rows of its conversation.
LEMMA PageOfIn ==
    ASSUME TypeOK, NEW f \in Fetch, f.kind \notin {"none", "sent"}
    PROVE  PageOf(f) \subseteq Rows(f.conv) /\ PageOf(f) \subseteq Msgs
<1>1. Rows(f.conv) \subseteq Msgs
    BY DEF Rows, TypeOK
<1>2. f.kind \in {"latest", "reconcile", "older", "newer", "around"}
    BY DEF Fetch
<1>3. \A S, n : Newest(S, n) \subseteq S /\ Oldest(S, n) \subseteq S
    BY DEF Newest, Oldest
<1>4. CASE f.kind \in {"latest", "reconcile"}
    <2>1. PageOf(f) = Newest(Rows(f.conv), PageSize)
        BY <1>4 DEF PageOf
    <2>2. QED
        BY <1>1, <1>3, <2>1
<1>5. CASE f.kind = "older"
    <2>1. PageOf(f) = Newest({m \in Rows(f.conv) : m < f.anchor}, PageSize)
        BY <1>5 DEF PageOf
    <2>2. QED
        BY <1>1, <1>3, <2>1
<1>6. CASE f.kind = "newer"
    <2>1. PageOf(f) = Oldest({m \in Rows(f.conv) : m > f.anchor}, PageSize)
        BY <1>6 DEF PageOf
    <2>2. QED
        BY <1>1, <1>3, <2>1
<1>7. CASE f.kind = "around"
    <2> DEFINE below == {m \in Rows(f.conv) : m < f.anchor}
               above == {m \in Rows(f.conv) : m > f.anchor}
    <2>1. PageOf(f) = IF f.anchor \in Rows(f.conv)
                     THEN {f.anchor} \cup Newest(below, PageSize - 1)
                                     \cup Oldest(above, PageSize - 1)
                     ELSE {}
        BY <1>7 DEF PageOf
    <2>2. Newest(below, PageSize - 1) \subseteq Rows(f.conv)
        BY <1>3
    <2>3. Oldest(above, PageSize - 1) \subseteq Rows(f.conv)
        BY <1>3
    <2>4. QED
        BY <1>1, <2>1, <2>2, <2>3
<1>8. QED
    BY <1>2, <1>4, <1>5, <1>6, <1>7

\* An answer holds one copy of each of its rows, as the server has them.
LEMMA AnsweredIs ==
    ASSUME TypeOK, NEW f \in Fetch, f.kind \notin {"none", "sent"}
    PROVE  LET g == Answered(f)
           IN  /\ g \in Fetch /\ g.served
               /\ g.kind = f.kind /\ g.conv = f.conv /\ g.anchor = f.anchor
               /\ g.atStart = f.atStart
               /\ g.page = Copies(PageOf(f), mark)
               /\ f.kind # "around" => g.older = (Cardinality(PageOf(f)) >= PageSize)
<1> DEFINE page == Copies(PageOf(f), mark)
           full == Cardinality(PageOf(f)) >= PageSize
           around == f.kind = "around"
           olderLeft == \E m \in Rows(f.conv) : \E k \in PageOf(f) :
                            m < k /\ \A j \in PageOf(f) : m < j
           newerLeft == \E m \in Rows(f.conv) : \E k \in PageOf(f) :
                            m > k /\ \A j \in PageOf(f) : m > j
           theOlder == IF around THEN olderLeft ELSE full
           theNewer == IF around THEN newerLeft ELSE full
<1>1. page \in Lists
    BY PageOfIn, CopiesType DEF TypeOK
<1>2. theOlder \in BOOLEAN /\ theNewer \in BOOLEAN
    <2>1. olderLeft \in BOOLEAN
        BY Zenon
    <2>2. newerLeft \in BOOLEAN
        BY Zenon
    <2>3. full \in BOOLEAN
        <3>1. Cardinality(PageOf(f)) \in Nat
            BY PageOfIn, FiniteMsgs
        <3>2. QED
            BY <3>1, SizesAssumption
    <2> HIDE DEF olderLeft, newerLeft, full, around
    <2>4. QED
        BY <2>1, <2>2, <2>3, Zenon
<1>3. Answered(f) = [f EXCEPT !.served = TRUE, !.page = page, !.older = theOlder,
                              !.newer = theNewer]
    BY DEF Answered
<1>4. f.kind # "around" => theOlder = full
    OBVIOUS
<1> HIDE DEF page, theOlder, theNewer
<1>5. Answered(f) \in Fetch
    BY <1>1, <1>2, <1>3 DEF Fetch
<1>6. /\ Answered(f).served /\ Answered(f).kind = f.kind /\ Answered(f).conv = f.conv
      /\ Answered(f).anchor = f.anchor /\ Answered(f).atStart = f.atStart
      /\ Answered(f).page = page /\ Answered(f).older = theOlder
    BY <1>3 DEF Fetch
<1>7. QED
    BY <1>4, <1>5, <1>6 DEF page

\* What happens to a request in one step.
Moved(s) ==
    \/ fetches'[s] = fetches[s]
    \/ fetches'[s] = NoFetch
    \/ /\ fetches[s].kind \notin {"none", "sent"} /\ ~fetches[s].served
       /\ fetches'[s] = Answered(fetches[s])
    \/ Begun(fetches'[s])

Requested == fetches' \in [Slots -> Fetch] /\ \A s \in Slots : Moved(s)

\* A step that begins a request and may end others.
LEMMA BeginsOne ==
    ASSUME TypeOK, NEW fs \in [Slots -> Fetch],
           \A s \in Slots : fs[s] = fetches[s] \/ fs[s] = NoFetch,
           NEW f, Begun(f), fetches' = Issue(fs, f)
    PROVE  Requested
<1>1. f \in Fetch
    BY DEF Begun
<1>2. /\ fetches' \in [Slots -> Fetch]
      /\ \A s \in Slots : fetches'[s] = fs[s] \/ fetches'[s] = f
    BY <1>1, IssueIs
<1>3. QED
    BY <1>2 DEF Requested, Moved

\* A step that ends requests.
LEMMA EndsSome ==
    ASSUME TypeOK, fetches' \in [Slots -> Fetch],
           \A s \in Slots : fetches'[s] = fetches[s] \/ fetches'[s] = NoFetch
    PROVE  Requested
BY DEF Requested, Moved

\* A finished request frees its place.
LEMMA DoneIs ==
    ASSUME TypeOK, NEW s \in Slots
    PROVE  /\ Done(s) \in [Slots -> Fetch]
           /\ \A t \in Slots : Done(s)[t] = fetches[t] \/ Done(s)[t] = NoFetch
BY NoFetchType DEF Done, TypeOK

\* So do the requests a switch aborts.
LEMMA AbortedIs ==
    ASSUME TypeOK
    PROVE  LET fs == [s \in Slots |-> IF fetches[s].held THEN NoFetch ELSE fetches[s]]
           IN  /\ fs \in [Slots -> Fetch]
               /\ \A s \in Slots : fs[s] = fetches[s] \/ fs[s] = NoFetch
BY NoFetchType DEF TypeOK

\* A conversation's page, taken from around a target, from the cache or from the server.
LEMMA LoadRequests ==
    ASSUME TypeOK, NEW c \in Convs \cup {NoConv}, NEW to \in 0 .. N, NEW saved,
           Load(c, to, saved)
    PROVE  Requested
<1> DEFINE fs == [s \in Slots |-> IF fetches[s].held THEN NoFetch ELSE fetches[s]]
<1>1. /\ fs \in [Slots -> Fetch]
      /\ \A s \in Slots : fs[s] = fetches[s] \/ fs[s] = NoFetch
    BY AbortedIs
<1>2. Shown(view) \in SUBSET Msgs
    BY DEF Shown
<1> HIDE DEF fs
<1>3. CASE fetches' = fs
    BY <1>1, <1>3, EndsSome
<1>4. CASE fetches' = Issue(fs, Ask("around", c, TRUE, to))
    <2>1. PICK f : f = Ask("around", c, TRUE, to)
        OBVIOUS
    <2>2. f \in Fetch /\ f.kind = "around" /\ f.page = Nothing /\ f.atStart = {} /\ ~f.served
        BY <2>1, NothingType, NoFetchType DEF Ask, NoFetch, Fetch
    <2>3. Begun(f)
        BY <2>2 DEF Begun
    <2>4. QED
        BY <1>1, <1>4, <2>1, <2>3, BeginsOne
<1>5. CASE fetches' = Issue(fs, [Ask("reconcile", c, TRUE, 0) EXCEPT
                                    !.number = 1, !.atStart = Shown(view)])
    <2>0. 0 \in 0 .. N /\ 1 \in Nat
        BY NAssumption
    <2>1. PICK g : g = Ask("reconcile", c, TRUE, 0)
        OBVIOUS
    <2>2. g \in Fetch /\ g.kind = "reconcile" /\ g.page = Nothing /\ ~g.served
        BY <2>0, <2>1, NothingType, NoFetchType DEF Ask, NoFetch, Fetch
    <2>3. PICK f : f = [g EXCEPT !.number = 1, !.atStart = Shown(view)]
        OBVIOUS
    <2>4. /\ f \in Fetch /\ f.kind = "reconcile" /\ f.page = Nothing
          /\ f.atStart = Shown(view) /\ ~f.served
        <3>1. f \in Fetch
            BY <1>2, <2>0, <2>2, <2>3 DEF Fetch
        <3>2. QED
            BY <2>2, <2>3, <3>1 DEF Fetch
    <2>5. Begun(f)
        BY <2>4 DEF Begun
    <2>6. QED
        BY <1>1, <1>5, <2>1, <2>3, <2>5, BeginsOne
<1>6. CASE fetches' = Issue(fs, [Ask("latest", c, TRUE, 0) EXCEPT !.atStart = Shown(view)])
    <2>0. 0 \in 0 .. N
        BY NAssumption
    <2>1. PICK g : g = Ask("latest", c, TRUE, 0)
        OBVIOUS
    <2>2. g \in Fetch /\ g.kind = "latest" /\ g.page = Nothing /\ ~g.served
        BY <2>0, <2>1, NothingType, NoFetchType DEF Ask, NoFetch, Fetch
    <2>3. PICK f : f = [g EXCEPT !.atStart = Shown(view)]
        OBVIOUS
    <2>4. /\ f \in Fetch /\ f.kind = "latest" /\ f.page = Nothing
          /\ f.atStart = Shown(view) /\ ~f.served
        BY <1>2, <2>2, <2>3, FetchFrom
    <2>5. Begun(f)
        BY <2>4 DEF Begun
    <2>6. QED
        BY <1>1, <1>6, <2>1, <2>3, <2>5, BeginsOne
<1>7. \/ fetches' = fs
      \/ fetches' = Issue(fs, Ask("around", c, TRUE, to))
      \/ fetches' = Issue(fs, [Ask("reconcile", c, TRUE, 0) EXCEPT
                                  !.number = 1, !.atStart = Shown(view)])
      \/ fetches' = Issue(fs, [Ask("latest", c, TRUE, 0) EXCEPT !.atStart = Shown(view)])
    <2>1. CASE c = NoConv
        BY <2>1, Zenon DEF Load, fs
    <2>2. CASE c # NoConv /\ to # 0
        BY <2>2, Zenon DEF Load, fs
    <2>3. CASE c # NoConv /\ to = 0 /\ saved[c].kept
        BY <2>3, Zenon DEF Load, fs
    <2>4. CASE c # NoConv /\ to = 0 /\ ~saved[c].kept
        BY <2>4, Zenon DEF Load, fs
    <2>5. QED
        BY <2>1, <2>2, <2>3, <2>4
<1>8. QED
    BY <1>3, <1>4, <1>5, <1>6, <1>7

\* The effect of a page, a target or a reload: what it does apart from the requests.
LEMMA LoadIs ==
    ASSUME TypeOK, NEW c \in Convs \cup {NoConv}, NEW to \in 0 .. N,
           NEW saved \in [Convs -> Entry], Load(c, to, saved)
    PROVE  /\ onScreen' = view /\ arrived' = {} /\ late' = late /\ cache' = saved
           /\ deferred' = FALSE
           /\ \/ view' = Nothing /\ older' \in BOOLEAN /\ seen' = seen
              \/ /\ c \in Convs /\ saved[c].kept
                 /\ view' = saved[c].msgs /\ older' = saved[c].older
                 /\ seen' = Shown(saved[c].msgs)
           /\ number' \in Nat
<1>1. older \in BOOLEAN
    BY DEF TypeOK
<1>2. /\ onScreen' = view /\ arrived' = {} /\ late' = late /\ cache' = saved
      /\ deferred' = FALSE
    BY DEF Load
<1>3. CASE c = NoConv
    <2>1. view' = Nothing /\ older' = FALSE /\ number' = 0 /\ seen' = seen
        BY <1>3, Zenon DEF Load
    <2>2. QED
        BY <1>2, <2>1
<1>4. CASE c # NoConv /\ to # 0
    <2>1. view' = Nothing /\ older' = older /\ number' = 0 /\ seen' = seen
        BY <1>4, Zenon DEF Load
    <2>2. QED
        BY <1>1, <1>2, <2>1
<1>5. CASE c # NoConv /\ to = 0 /\ saved[c].kept
    <2>1. /\ view' = saved[c].msgs /\ older' = saved[c].older
          /\ seen' = Shown(saved[c].msgs) /\ number' = 1
        BY <1>5, Zenon DEF Load
    <2>2. QED
        BY <1>2, <1>5, <2>1
<1>6. CASE c # NoConv /\ to = 0 /\ ~saved[c].kept
    <2>1. view' = Nothing /\ older' = older /\ number' = 0 /\ seen' = seen
        BY <1>6, Zenon DEF Load
    <2>2. QED
        BY <1>1, <1>2, <2>1
<1>7. QED
    BY <1>3, <1>4, <1>5, <1>6

\* A reconcile of the open conversation is sent.
LEMMA ReconcileBegins ==
    ASSUME TypeOK, NEW f,
           f = [Ask("reconcile", conv, FALSE, 0) EXCEPT !.number = number + 1,
                                                        !.atStart = Shown(onScreen)]
    PROVE  Begun(f)
<1>0. conv \in Convs \cup {NoConv} /\ 0 \in 0 .. N /\ number + 1 \in Nat
    BY NAssumption DEF TypeOK
<1>1. PICK g : g = Ask("reconcile", conv, FALSE, 0)
    OBVIOUS
<1>2. g \in Fetch /\ g.kind = "reconcile" /\ g.page = Nothing /\ ~g.served
    BY <1>0, <1>1, NothingType, NoFetchType DEF Ask, NoFetch, Fetch
<1>3. f = [g EXCEPT !.number = number + 1, !.atStart = Shown(onScreen)]
    BY <1>1
<1>4. Shown(onScreen) \in SUBSET Msgs
    BY DEF Shown
<1>5. f \in Fetch
    BY <1>0, <1>2, <1>3, <1>4 DEF Fetch
<1>6. f.kind = "reconcile" /\ f.page = Nothing /\ f.atStart = Shown(onScreen) /\ ~f.served
    BY <1>2, <1>3 DEF Fetch
<1>7. QED
    BY <1>5, <1>6 DEF Begun

\* The newest page is asked for again after a jump to the bottom.
LEMMA LatestBegins ==
    ASSUME TypeOK, NEW f,
           f = [Ask("latest", conv, FALSE, 0) EXCEPT !.atStart = Shown(onScreen)]
    PROVE  Begun(f)
<1>0. conv \in Convs \cup {NoConv} /\ 0 \in 0 .. N
    BY NAssumption DEF TypeOK
<1>1. PICK g : g = Ask("latest", conv, FALSE, 0)
    OBVIOUS
<1>2. g \in Fetch /\ g.kind = "latest" /\ g.page = Nothing /\ ~g.served
    BY <1>0, <1>1, NothingType, NoFetchType DEF Ask, NoFetch, Fetch
<1>3. f = [g EXCEPT !.atStart = Shown(onScreen)]
    BY <1>1
<1>4. Shown(onScreen) \in SUBSET Msgs
    BY DEF Shown
<1>5. /\ f \in Fetch /\ f.kind = "latest" /\ f.page = Nothing
      /\ f.atStart = Shown(onScreen) /\ ~f.served
    <2>1. f \in Fetch
        BY <1>2, <1>3, <1>4 DEF Fetch
    <2>2. QED
        BY <1>2, <1>3, <2>1 DEF Fetch
<1>6. QED
    BY <1>5 DEF Begun

\* A page next to a message on screen is asked for.
LEMMA PageBegins ==
    ASSUME TypeOK, NEW f, NEW anchor \in Shown(onScreen),
           f = Ask("older", conv, TRUE, anchor) \/ f = Ask("newer", conv, TRUE, anchor)
    PROVE  Begun(f)
<1>0. conv \in Convs \cup {NoConv} /\ anchor \in 0 .. N
    BY NAssumption DEF TypeOK, Shown, Msgs
<1>1. CASE f = Ask("older", conv, TRUE, anchor)
    <2>1. f \in Fetch /\ f.kind = "older" /\ f.page = Nothing /\ ~f.served /\ f.atStart = {}
        BY <1>0, <1>1, NothingType, NoFetchType DEF Ask, NoFetch, Fetch
    <2>2. QED
        BY <2>1 DEF Begun
<1>2. CASE f = Ask("newer", conv, TRUE, anchor)
    <2>1. f \in Fetch /\ f.kind = "newer" /\ f.page = Nothing /\ ~f.served /\ f.atStart = {}
        BY <1>0, <1>2, NothingType, NoFetchType DEF Ask, NoFetch, Fetch
    <2>2. QED
        BY <2>1 DEF Begun
<1>3. QED
    BY <1>1, <1>2

\* The answer of a send comes with the message the send stored.
LEMMA SentBegins ==
    ASSUME TypeOK, NEW m \in Msgs, Send(m), NEW f,
           f = [Ask("sent", conv, FALSE, m) EXCEPT !.served = TRUE]
    PROVE  Begun(f)
<1>0. conv \in Convs \cup {NoConv} /\ m \in 0 .. N
    BY NAssumption DEF TypeOK, Msgs
<1>1. PICK g : g = Ask("sent", conv, FALSE, m)
    OBVIOUS
<1>2. /\ g \in Fetch /\ g.kind = "sent" /\ g.page = Nothing /\ g.atStart = {}
      /\ g.anchor = m /\ g.conv = conv
    BY <1>0, <1>1, NothingType, NoFetchType DEF Ask, NoFetch, Fetch
<1>3. f = [g EXCEPT !.served = TRUE]
    BY <1>1
<1>4. /\ f \in Fetch /\ f.kind = "sent" /\ f.page = Nothing /\ f.atStart = {}
      /\ f.anchor = m /\ f.conv = conv /\ f.served
    BY <1>2, <1>3, FetchServed
<1>5. m \in stored' /\ ConvOf[m] = conv
    BY DEF Send
<1>6. QED
    BY <1>4, <1>5 DEF Begun

\* Opening a page, reaching a target and searching load or keep what is on screen.
LEMMA GoRequests ==
    ASSUME TypeOK, NEW c \in Convs \cup {NoConv}, NEW kind, NEW to \in 0 .. N, Go(c, kind, to)
    PROVE  Requested
<1> DEFINE fs == [s \in Slots |-> IF fetches[s].held THEN NoFetch ELSE fetches[s]]
<1>1. CASE c = conv /\ to = 0
    <2>1. fetches' = fs
        BY <1>1, Zenon DEF Go
    <2>2. /\ fs \in [Slots -> Fetch]
          /\ \A s \in Slots : fs[s] = fetches[s] \/ fs[s] = NoFetch
        BY AbortedIs
    <2> HIDE DEF fs
    <2>3. QED
        BY <2>1, <2>2, EndsSome
<1>2. CASE ~(c = conv /\ to = 0)
    <2>1. PICK saved : Load(c, to, saved)
        BY <1>2, Zenon DEF Go
    <2>2. QED
        BY <2>1, LoadRequests
<1>3. QED
    BY <1>1, <1>2

\* What one step does to the requests under way.
LEMMA RequestsStep ==
    ASSUME TypeInv, [Next]_vars
    PROVE  Requested
<1> USE DEF TypeInv
<1>0. fetches \in [Slots -> Fetch] /\ conv \in Convs \cup {NoConv} /\ target \in 0 .. N
    BY DEF TypeOK
<1>1. CASE UNCHANGED fetches
    BY <1>0, <1>1, EndsSome
<1>2. ASSUME NEW s \in Slots, Serve(s) PROVE Requested
    <2>1. fetches[s].kind # "sent"
        BY <1>2 DEF Serve, SentIsOwn
    <2>2. fetches[s] \in Fetch
        BY <1>0
    <2>3. Answered(fetches[s]) \in Fetch
        BY <1>2, <2>1, <2>2, AnsweredIs DEF Serve
    <2>4. fetches' = [fetches EXCEPT ![s] = Answered(fetches[s])]
        BY <1>2 DEF Serve
    <2>5. fetches[s].kind # "none" /\ ~fetches[s].served
        BY <1>2 DEF Serve
    <2>6. QED
        BY <1>0, <2>1, <2>3, <2>4, <2>5 DEF Requested, Moved
<1>3. ASSUME NEW s \in Slots, fetches' = Done(s) PROVE Requested
    BY <1>3, DoneIs, EndsSome
<1>4. ASSUME NEW s \in Slots, FetchFails(s) PROVE Requested
    BY <1>3, <1>4 DEF FetchFails, Done
<1>5. CASE Reconnect
    <2>1. CASE ~(conv # NoConv /\ ~newerRef)
        <3>1. UNCHANGED fetches
            BY <1>5, <2>1 DEF Reconnect, requests
        <3>2. QED
            BY <1>1, <3>1
    <2>2. CASE conv # NoConv /\ ~newerRef
        <3>1. PICK f : f = [Ask("reconcile", conv, FALSE, 0) EXCEPT !.number = number + 1,
                                                          !.atStart = Shown(onScreen)]
            OBVIOUS
        <3>2. fetches' = Issue(fetches, f)
            BY <1>5, <2>2, <3>1 DEF Reconnect
        <3>3. QED
            BY <1>0, <3>1, <3>2, ReconcileBegins, BeginsOne
    <2>3. QED
        BY <2>1, <2>2
<1>6. ASSUME NEW c \in Convs \cup {NoConv}, NEW kind, Open(c, kind) PROVE Requested
    <2>1. 0 \in 0 .. N
        BY NAssumption
    <2>2. QED
        BY <1>6, <2>1, GoRequests DEF Open
<1>7. ASSUME NEW m \in Msgs, Search(m) PROVE Requested
    <2>1. m \in 0 .. N /\ ConvOf[m] \in Convs
        BY NAssumption, ConvOfAssumption DEF Msgs
    <2>2. QED
        BY <1>7, <2>1, GoRequests DEF Search
<1>8. CASE TargetReached
    <2>1. 0 \in 0 .. N
        BY NAssumption
    <2>2. QED
        BY <1>0, <1>8, <2>1, GoRequests DEF TargetReached
<1>9. CASE Reload
    BY <1>0, <1>9, LoadRequests DEF Reload
<1>10. CASE JumpToBottom
    <2>1. PICK f : f = [Ask("latest", conv, FALSE, 0) EXCEPT !.atStart = Shown(onScreen)]
        OBVIOUS
    <2>2. fetches' = Issue(fetches, f)
        BY <1>10, <2>1 DEF JumpToBottom
    <2>3. QED
        BY <1>0, <2>1, <2>2, LatestBegins, BeginsOne
<1>11. CASE PageUp
    <2>1. PICK first \in Oldest(Shown(onScreen), 1) :
              fetches' = Issue(fetches, Ask("older", conv, TRUE, first))
        BY <1>11 DEF PageUp
    <2>2. first \in Shown(onScreen)
        BY DEF Oldest
    <2>3. PICK f : f = Ask("older", conv, TRUE, first)
        OBVIOUS
    <2>4. QED
        BY <1>0, <2>1, <2>2, <2>3, PageBegins, BeginsOne
<1>12. CASE PageDown
    <2>1. PICK last \in Newest(Shown(onScreen), 1) :
              fetches' = Issue(fetches, Ask("newer", conv, TRUE, last))
        BY <1>12 DEF PageDown
    <2>2. last \in Shown(onScreen)
        BY DEF Newest
    <2>3. PICK f : f = Ask("newer", conv, TRUE, last)
        OBVIOUS
    <2>4. QED
        BY <1>0, <2>1, <2>2, <2>3, PageBegins, BeginsOne
<1>13. ASSUME NEW m \in Msgs, Send(m) PROVE Requested
    <2>1. PICK f : f = [Ask("sent", conv, FALSE, m) EXCEPT !.served = TRUE]
        OBVIOUS
    <2>2. fetches' = Issue(fetches, f)
        BY <1>13, <2>1 DEF Send
    <2>3. QED
        BY <1>0, <1>13, <2>1, <2>2, SentBegins, BeginsOne
<1>14. ASSUME NEW s \in Slots, LandNewer(s) PROVE Requested
    <2>1. CASE ~newer' /\ deferred
        <3>1. PICK f : f = [Ask("reconcile", conv, FALSE, 0) EXCEPT !.number = number + 1,
                                                          !.atStart = Shown(onScreen)]
            OBVIOUS
        <3>2. fetches' = Issue(Done(s), f)
            BY <1>14, <2>1, <3>1 DEF LandNewer
        <3>3. QED
            BY <3>1, <3>2, DoneIs, ReconcileBegins, BeginsOne
    <2>2. CASE ~(~newer' /\ deferred)
        <3>1. fetches' = Done(s)
            BY <1>14, <2>2 DEF LandNewer
        <3>2. QED
            BY <1>3, <3>1
    <2>3. QED
        BY <2>1, <2>2
<1>15. ASSUME NEW s \in Slots, Land(s) PROVE Requested
    <2>1. \/ fetches' = Done(s)
          \/ LandNewer(s)
        BY <1>15 DEF Land, Dropped, LandLatest, LandOlder, LandAround, LandSent
    <2>2. QED
        BY <1>3, <1>14, <2>1
<1>16. CASE World
    <2>1. \/ \E s \in Slots : FetchFails(s)
          \/ UNCHANGED fetches
        BY <1>16 DEF World, Arrive, Mark, Delete, Close, requests
    <2>2. QED
        BY <1>1, <1>4, <2>1
<1>17. CASE User
    BY <1>6, <1>7, <1>8, <1>9, <1>10, <1>11, <1>12, <1>13, <1>17 DEF User
<1>18. CASE Client
    <2>1. \/ \E s \in Slots : Serve(s) \/ Land(s)
          \/ Reconnect
          \/ UNCHANGED fetches
        BY <1>18 DEF Client, Commit, Connect, Deliver, requests
    <2>2. QED
        BY <1>1, <1>2, <1>5, <1>15, <2>1
<1>19. QED
    BY <1>1, <1>16, <1>17, <1>18 DEF Next, vars, requests

----------------------------------------------------------------------------
(* What a step does to the screen *)

\* Nothing changes on screen, but it may be rendered.
Still ==
    /\ UNCHANGED <<conv, view, seen, acks, cache, arrived, late>>
    /\ onScreen' = onScreen \/ onScreen' = view

\* A page is opened, reached, reloaded or jumped to the end of: its list is empty, or comes
\* from the cache, into which the list that was on screen may have gone.
Opens(c, saved) ==
    /\ Ready
    /\ conv' = c /\ acks' = acks /\ arrived' = {} /\ late' = late
    /\ onScreen' = view \/ onScreen' = Nothing
    /\ cache' = saved
    /\ \A d \in Convs : \/ saved[d] = cache[d] \/ saved[d] = NoEntry
                        \/ d = conv /\ saved[d] = Normalized(view, older)
    /\ \/ view' = Nothing /\ seen' = seen
       \/ c \in Convs /\ view' = saved[c].msgs /\ seen' = Shown(saved[c].msgs)

\* A message comes in an event, or in the answer of its send.
Comes(m, sent, active) ==
    /\ Ready
    /\ Observe(m, sent, active)
    /\ active => ConvOf[m] = conv
    /\ \/ events # <<>> /\ m = Head(events).msg
       \/ \E s \in Slots : fetches[s].kind = "sent" /\ m = fetches[s].anchor
    /\ UNCHANGED <<conv, onScreen, late>>

\* A mark or a deletion comes in an event.
Changes(m, to) ==
    /\ Ready
    /\ Receive(m, to) \/ Remove(m)
    /\ UNCHANGED <<conv, onScreen, late>>

\* A page comes in.
PageLands(s) ==
    LandLatest(s) \/ LandOlder(s) \/ LandNewer(s) \/ LandAround(s)

\* The ways in which the screen changes.
ScreenMoves ==
    \/ Still
    \/ \E c \in Convs \cup {NoConv}, saved \in [Convs -> Entry] : Opens(c, saved)
    \/ \E s \in Slots : PageLands(s)
    \/ \E m \in Msgs, sent \in Marks, active \in BOOLEAN : Comes(m, sent, active)
    \/ \E m \in Msgs, to \in Marks : Changes(m, to)

\* What leaving a conversation puts into the cache.
LEMMA SavedType ==
    ASSUME TypeOK, NEW saved \in Saved
    PROVE  /\ saved \in [Convs -> Entry]
           /\ \A d \in Convs : \/ saved[d] = cache[d] \/ saved[d] = NoEntry
                               \/ d = conv /\ saved[d] = Normalized(view, older)
<1>1. cache \in [Convs -> Entry] /\ view \in Lists /\ older \in BOOLEAN
      /\ conv \in Convs \cup {NoConv}
    BY DEF TypeOK
<1>2. CASE conv # NoConv /\ Shown(view) # {} /\ ~newer
    <2>1. saved \in Put(cache, conv, Normalized(view, older), CacheSize)
        BY <1>2 DEF Saved
    <2>2. conv \in Convs /\ Normalized(view, older) \in Entry
        BY <1>1, <1>2, NormalizedType
    <2>3. QED
        BY <1>1, <2>1, <2>2, PutType
<1>3. CASE ~(conv # NoConv /\ Shown(view) # {} /\ ~newer)
    <2>1. saved = cache
        BY <1>3 DEF Saved
    <2>2. QED
        BY <1>1, <2>1
<1>4. QED
    BY <1>2, <1>3

\* Opening a page, searching and reaching the target.
LEMMA GoMoves ==
    ASSUME TypeOK, NEW c \in Convs \cup {NoConv}, NEW kind, NEW to \in 0 .. N, Go(c, kind, to)
    PROVE  Still \/ \E saved \in [Convs -> Entry] : Opens(c, saved)
<1>1. CASE c = conv /\ to = 0
    <2>1. onScreen' = view /\ UNCHANGED <<screen, seen, cache, history>>
        BY <1>1, Zenon DEF Go
    <2>2. conv' = c /\ UNCHANGED acks
        BY DEF Go
    <2>3. QED
        BY <1>1, <2>1, <2>2 DEF Still, screen, history
<1>2. CASE ~(c = conv /\ to = 0)
    <2>1. PICK saved \in IF c = conv THEN {cache} ELSE Saved : Load(c, to, saved)
        BY <1>2, Zenon DEF Go
    <2>2. Ready /\ conv' = c /\ acks' = acks
        BY DEF Go
    <2>3. /\ saved \in [Convs -> Entry]
          /\ \A d \in Convs : \/ saved[d] = cache[d] \/ saved[d] = NoEntry
                              \/ d = conv /\ saved[d] = Normalized(view, older)
        <3>1. CASE c = conv
            BY <3>1, <2>1 DEF TypeOK
        <3>2. CASE c # conv
            BY <3>2, <2>1, SavedType
        <3>3. QED
            BY <3>1, <3>2
    <2>4. /\ onScreen' = view /\ arrived' = {} /\ late' = late /\ cache' = saved
          /\ \/ view' = Nothing /\ seen' = seen
             \/ c \in Convs /\ view' = saved[c].msgs /\ seen' = Shown(saved[c].msgs)
        BY <2>1, <2>3, LoadIs
    <2>5. Opens(c, saved)
        BY <2>2, <2>3, <2>4 DEF Opens
    <2>6. QED
        BY <2>3, <2>5
<1>3. QED
    BY <1>1, <1>2

\* A reload drops all cached conversations.
LEMMA ReloadMoves ==
    ASSUME TypeOK, Reload
    PROVE  \E saved \in [Convs -> Entry] : Opens(conv, saved)
<1> DEFINE saved == [c \in Convs |-> NoEntry]
<1>1. saved \in [Convs -> Entry] /\ \A d \in Convs : saved[d] = NoEntry
    BY NoEntryType
<1>2. conv \in Convs \cup {NoConv} /\ target \in 0 .. N
    BY DEF TypeOK
<1>3. Ready /\ conv' = conv /\ acks' = acks /\ Load(conv, target, saved)
    BY DEF Reload, where
<1> HIDE DEF saved
<1>4. /\ onScreen' = view /\ arrived' = {} /\ late' = late /\ cache' = saved
      /\ \/ view' = Nothing /\ seen' = seen
         \/ conv \in Convs /\ view' = saved[conv].msgs /\ seen' = Shown(saved[conv].msgs)
    BY <1>1, <1>2, <1>3, LoadIs
<1>5. Opens(conv, saved)
    BY <1>1, <1>3, <1>4 DEF Opens
<1>6. QED
    BY <1>1, <1>5

\* A jump to the bottom drops the cached copy and clears the list.
LEMMA JumpMoves ==
    ASSUME TypeOK, JumpToBottom
    PROVE  \E saved \in [Convs -> Entry] : Opens(conv, saved)
<1> DEFINE saved == [cache EXCEPT ![conv] = NoEntry]
<1>1. saved \in [Convs -> Entry] /\ \A d \in Convs : saved[d] = cache[d] \/ saved[d] = NoEntry
    BY NoEntryType DEF TypeOK
<1>2. /\ Ready /\ conv' = conv /\ acks' = acks /\ arrived' = {} /\ late' = late
      /\ onScreen' = Nothing /\ cache' = saved /\ view' = Nothing /\ seen' = seen
    BY DEF JumpToBottom, where
<1> HIDE DEF saved
<1>3. Opens(conv, saved)
    BY <1>1, <1>2 DEF Opens
<1>4. QED
    BY <1>1, <1>3

\* An event is handled.
LEMMA DeliverMoves ==
    ASSUME TypeOK, Deliver
    PROVE  ScreenMoves
<1> DEFINE e == Head(events)
<1>1. events \in Seq(Event) /\ events # <<>>
    BY DEF TypeOK, Deliver
<1>2. e \in Event
    BY <1>1, HeadTailProperties
<1>3. e.msg \in Msgs /\ e.mark \in Marks /\ e.does \in {"stored", "marked", "deleted"}
    BY <1>2 DEF Event
<1>4. Ready /\ UNCHANGED <<conv, onScreen, late>>
    BY DEF Deliver, where, refs
<1>5. CASE e.does = "stored"
    <2> DEFINE active == ConvOf[e.msg] = conv /\ pageKind = "chat"
    <2>1. Observe(e.msg, e.mark, active)
        BY <1>5, Zenon DEF Deliver
    <2>2. active \in BOOLEAN
        OBVIOUS
    <2>3. Comes(e.msg, e.mark, active)
        BY <1>1, <1>4, <2>1 DEF Comes
    <2> HIDE DEF active, e
    <2>4. QED
        BY <1>3, <2>2, <2>3, Zenon DEF ScreenMoves
<1>6. CASE e.does = "marked"
    <2>1. Receive(e.msg, e.mark)
        BY <1>6, Zenon DEF Deliver
    <2>2. QED
        BY <1>3, <1>4, <2>1 DEF ScreenMoves, Changes
<1>7. CASE e.does = "deleted"
    <2>1. Remove(e.msg)
        BY <1>7, Zenon DEF Deliver
    <2>2. QED
        BY <1>3, <1>4, <2>1 DEF ScreenMoves, Changes
<1>8. QED
    BY <1>3, <1>5, <1>6, <1>7

\* The answer of a send comes.
LEMMA LandSentMoves ==
    ASSUME TypeInv, NEW s \in Slots, LandSent(s)
    PROVE  ScreenMoves
<1> DEFINE m == fetches[s].anchor
<1>1. /\ fetches[s].kind = "sent" /\ m \in Msgs /\ ConvOf[m] = fetches[s].conv
    BY DEF TypeInv, SentIsOwn, LandSent, Landing
<1>2. Ready /\ UNCHANGED <<conv, onScreen, late>>
    BY DEF LandSent, Landing, where, refs
<1>3. CASE fetches[s].conv = conv
    <2>1. Observe(m, 0, TRUE)
        BY <1>3, Zenon DEF LandSent
    <2>2. 0 \in Marks /\ TRUE \in BOOLEAN
        BY NAssumption DEF Marks
    <2>3. Comes(m, 0, TRUE)
        BY <1>1, <1>2, <1>3, <2>1 DEF Comes
    <2> HIDE DEF m
    <2>4. QED
        BY <1>1, <2>2, <2>3, Zenon DEF ScreenMoves
<1>4. CASE fetches[s].conv # conv
    <2>1. UNCHANGED <<view, seen, acks, cache, arrived>>
        BY <1>4, Zenon DEF LandSent
    <2>2. QED
        BY <1>2, <2>1 DEF ScreenMoves, Still
<1>5. QED
    BY <1>3, <1>4

\* What one step does to the screen.
LEMMA ScreenStep ==
    ASSUME TypeInv, [Next]_vars
    PROVE  ScreenMoves
<1>0. TypeOK /\ conv \in Convs \cup {NoConv} /\ target \in 0 .. N /\ 0 \in 0 .. N
    BY NAssumption DEF TypeInv, TypeOK
<1>1. CASE Still
    BY <1>1 DEF ScreenMoves
<1>2. CASE World
    <2>1. UNCHANGED <<where, screen, refs, seen, acks, cache, history>>
        BY <1>2 DEF World, Arrive, Mark, Delete, Close, FetchFails
    <2>2. QED
        BY <1>1, <2>1 DEF Still, where, screen, refs, history
<1>3. ASSUME NEW c \in Convs \cup {NoConv}, NEW kind, NEW to \in 0 .. N, Go(c, kind, to)
      PROVE  ScreenMoves
    BY <1>0, <1>3, GoMoves DEF ScreenMoves
<1>4. ASSUME NEW c \in Convs \cup {NoConv}, NEW kind, Open(c, kind) PROVE ScreenMoves
    BY <1>0, <1>3, <1>4 DEF Open
<1>5. ASSUME NEW m \in Msgs, Search(m) PROVE ScreenMoves
    <2>1. m \in 0 .. N /\ ConvOf[m] \in Convs
        BY NAssumption, ConvOfAssumption DEF Msgs
    <2>2. Go(ConvOf[m], "chat", m)
        BY <1>5 DEF Search
    <2>3. QED
        BY <1>3, <2>1, <2>2
<1>6. CASE TargetReached
    BY <1>0, <1>3, <1>6 DEF TargetReached
<1>7. CASE Reload
    BY <1>0, <1>7, ReloadMoves DEF ScreenMoves
<1>8. CASE JumpToBottom
    BY <1>0, <1>8, JumpMoves DEF ScreenMoves
<1>9. CASE PageUp \/ PageDown \/ \E m \in Msgs : Send(m)
    <2>1. UNCHANGED <<where, screen, refs, seen, acks, cache, history>>
        BY <1>9 DEF PageUp, PageDown, Send
    <2>2. QED
        BY <1>1, <2>1 DEF Still, where, screen, refs, history
<1>10. CASE User
    BY <1>4, <1>5, <1>6, <1>7, <1>8, <1>9, <1>10 DEF User
<1>11. CASE Commit \/ Connect \/ Reconnect \/ \E s \in Slots : Serve(s) \/ Dropped(s)
    <2>1. /\ UNCHANGED <<where, screen, seen, acks, cache, history>>
          /\ onScreen' = view \/ UNCHANGED refs
        BY <1>11 DEF Commit, Connect, Reconnect, Serve, Dropped
    <2>2. QED
        BY <1>1, <2>1 DEF Still, where, screen, refs, history
<1>12. ASSUME NEW s \in Slots, Land(s) PROVE ScreenMoves
    <2>1. Dropped(s) \/ PageLands(s) \/ LandSent(s)
        BY <1>12 DEF Land, PageLands
    <2>2. QED
        BY <1>11, <2>1, LandSentMoves DEF ScreenMoves
<1>13. CASE Client
    BY <1>0, <1>11, <1>12, <1>13, DeliverMoves DEF Client
<1>14. CASE UNCHANGED vars
    BY <1>1, <1>14 DEF vars, Still, where, screen, refs, history
<1>15. QED
    BY <1>2, <1>10, <1>13, <1>14 DEF Next

----------------------------------------------------------------------------
(* Types *)

\* What is shown is of the right types.
ScreenTypes ==
    /\ conv \in Convs \cup {NoConv}
    /\ view \in Lists /\ onScreen \in Lists
    /\ seen \subseteq Msgs /\ acks \in [Msgs -> Marks]
    /\ cache \in [Convs -> Entry]
    /\ arrived \subseteq Msgs /\ late \subseteq Msgs

\* The page of an answer, with the ACKs that waited for it.
LEMMA PageIs ==
    ASSUME TypeOK, NEW s \in Slots
    PROVE  LET page == WithAcks(fetches[s].page, acks)
           IN  /\ page \in Lists /\ Shown(page) = Shown(fetches[s].page)
               /\ \A m \in Msgs : Len(page[m]) = Len(fetches[s].page[m])
<1>1. fetches[s].page \in Lists /\ acks \in [Msgs -> Marks]
    BY DEF TypeOK, Fetch
<1>2. QED
    BY <1>1, WithAcksType

\* ACKs that were put on a page do not wait any more.
LEMMA TakeAcksType ==
    ASSUME TypeOK, NEW page, TakeAcks(page)
    PROVE  /\ acks' \in [Msgs -> Marks]
           /\ \A m \in Msgs : acks'[m] = IF m \in Shown(page) THEN 0 ELSE acks[m]
<1>1. 0 \in Marks
    BY NAssumption DEF Marks
<1>2. acks \in [Msgs -> Marks]
    BY DEF TypeOK
<1>3. QED
    BY <1>1, <1>2 DEF TakeAcks

\* A page that comes in.
LEMMA PageTypes ==
    ASSUME TypeOK, NEW s \in Slots, PageLands(s)
    PROVE  ScreenTypes'
<1> DEFINE page == WithAcks(fetches[s].page, acks)
<1>0. /\ view \in Lists /\ onScreen \in Lists /\ seen \in SUBSET Msgs
      /\ cache \in [Convs -> Entry] /\ arrived \subseteq Msgs /\ late \subseteq Msgs
      /\ conv \in Convs \cup {NoConv}
    BY DEF TypeOK
<1>1. page \in Lists
    BY PageIs
<1>2. \A list : Shown(list) \subseteq Msgs
    BY DEF Shown
<1> HIDE DEF page
<1>3. CASE LandLatest(s)
    <2> DEFINE full == fetches[s].older
               atStart == fetches[s].atStart
               merged == Reconciled(onScreen, page, full, atStart)
    <2>1. merged \in Lists
        BY <1>0, <1>1, ReconciledType
    <2>2. acks' \in [Msgs -> Marks]
        BY <1>3, TakeAcksType DEF LandLatest
    <2>3. view' = merged \/ view' = view
        BY <1>3 DEF LandLatest, page
    <2>4. seen' = Shown(merged) \/ seen' = Shown(onScreen) \/ seen' = seen
        BY <1>3 DEF LandLatest, page
    <2>5. late' = late \cup (Shown(view) \ Shown(onScreen)) \/ late' = late
        BY <1>3 DEF LandLatest
    <2>6. UNCHANGED <<conv, onScreen, cache, arrived>>
        BY <1>3 DEF LandLatest, where, refs
    <2> HIDE DEF merged
    <2>7. QED
        BY <1>0, <1>2, <2>1, <2>2, <2>3, <2>4, <2>5, <2>6 DEF ScreenTypes
<1>4. CASE LandOlder(s)
    <2> DEFINE merged == AppendUnique(view, page)
    <2>1. merged \in Lists
        BY <1>0, <1>1, AppendUniqueType
    <2>2. acks' \in [Msgs -> Marks]
        BY <1>4, TakeAcksType DEF LandOlder
    <2>3. /\ view' = merged
          /\ \/ onScreen' = merged /\ seen' = Shown(merged) /\ late' = late
             \/ onScreen' = onScreen /\ seen' = seen /\ late' = late \cup (Shown(merged) \ seen)
          /\ UNCHANGED <<conv, cache, arrived>>
        BY <1>4 DEF LandOlder, page, where
    <2> HIDE DEF merged
    <2>4. QED
        BY <1>0, <1>2, <2>1, <2>2, <2>3 DEF ScreenTypes
<1>5. CASE LandNewer(s)
    <2>1. acks' \in [Msgs -> Marks]
        BY <1>5, TakeAcksType DEF LandNewer
    <2>2. /\ view' = AppendUnseen(view, page, seen)
          /\ seen' = seen \cup Shown(page)
          /\ UNCHANGED <<conv, onScreen, cache, arrived, late>>
        BY <1>5 DEF LandNewer, page, where, refs, history
    <2>3. view' \in Lists
        BY <1>0, <1>1, <2>2, AppendUnseenType
    <2>4. QED
        BY <1>0, <1>2, <2>1, <2>2, <2>3 DEF ScreenTypes
<1>6. CASE LandAround(s)
    <2>1. acks' \in [Msgs -> Marks]
        BY <1>6, TakeAcksType DEF LandAround
    <2>2. /\ view' = page
          /\ seen' = Shown(fetches[s].page)
          /\ arrived' = arrived \cap Shown(fetches[s].page)
          /\ UNCHANGED <<conv, onScreen, cache, late>>
        BY <1>6 DEF LandAround, page, where, refs
    <2>3. QED
        BY <1>0, <1>1, <1>2, <2>1, <2>2 DEF ScreenTypes
<1>7. QED
    BY <1>3, <1>4, <1>5, <1>6 DEF PageLands

\* What a message that comes in does: it is put on screen unless it was seen, or into the
\* cache, and no ACK waits for it any more.
LEMMA ComesIs ==
    ASSUME TypeOK, NEW m \in Msgs, NEW sent \in Marks, NEW active \in BOOLEAN,
           Comes(m, sent, active)
    PROVE  LET now == Higher(sent, acks[m])
           IN  /\ now \in Marks
               /\ acks' = [acks EXCEPT ![m] = 0] /\ acks' \in [Msgs -> Marks]
               /\ \/ active /\ UNCHANGED <<view, seen, arrived, cache>>
                  \/ /\ active /\ m \notin seen
                     /\ seen' = seen \cup {m} /\ view' = AddIfAbsent(view, m, now)
                     /\ arrived' = arrived \cup {m} /\ UNCHANGED cache
                  \/ /\ ~active /\ cache' \in AddedTo(cache, ConvOf[m], m, now, CacheSize)
                     /\ UNCHANGED <<view, seen, arrived>>
<1> DEFINE now == Higher(sent, acks[m])
<1>1. acks \in [Msgs -> Marks] /\ 0 \in Marks
    BY NAssumption DEF TypeOK, Marks
<1>2. now \in Marks
    BY <1>1, HigherType
<1>3. Observe(m, sent, active)
    BY DEF Comes
<1>4. acks' = [acks EXCEPT ![m] = 0]
    BY <1>3 DEF Observe
<1>5. acks' \in [Msgs -> Marks]
    BY <1>1, <1>4
<1>6. CASE active
    <2>1. CASE newerRef \/ m \in seen
        BY <1>2, <1>3, <1>4, <1>5, <1>6, <2>1 DEF Observe
    <2>2. CASE ~(newerRef \/ m \in seen)
        BY <1>2, <1>3, <1>4, <1>5, <1>6, <2>2 DEF Observe
    <2>3. QED
        BY <2>1, <2>2
<1>7. CASE ~active
    BY <1>2, <1>3, <1>4, <1>5, <1>7 DEF Observe
<1>8. QED
    BY <1>6, <1>7

\* A message that comes in.
LEMMA ComesTypes ==
    ASSUME TypeOK, NEW m \in Msgs, NEW sent \in Marks, NEW active \in BOOLEAN,
           Comes(m, sent, active)
    PROVE  ScreenTypes'
<1> DEFINE now == Higher(sent, acks[m])
<1>1. /\ now \in Marks /\ acks' \in [Msgs -> Marks]
      /\ \/ UNCHANGED <<view, seen, arrived, cache>>
         \/ /\ seen' = seen \cup {m} /\ view' = AddIfAbsent(view, m, now)
            /\ arrived' = arrived \cup {m} /\ UNCHANGED cache
         \/ /\ cache' \in AddedTo(cache, ConvOf[m], m, now, CacheSize)
            /\ UNCHANGED <<view, seen, arrived>>
    BY ComesIs
<1> HIDE DEF now
<1>2. /\ view \in Lists /\ onScreen \in Lists /\ seen \subseteq Msgs
      /\ cache \in [Convs -> Entry] /\ arrived \subseteq Msgs /\ late \subseteq Msgs
      /\ conv \in Convs \cup {NoConv} /\ ConvOf[m] \in Convs
    BY ConvOfAssumption DEF TypeOK
<1>3. UNCHANGED <<conv, onScreen, late>>
    BY DEF Comes
<1>4. AddIfAbsent(view, m, now) \in Lists
    BY <1>1, <1>2, AddIfAbsentType
<1>5. cache' \in AddedTo(cache, ConvOf[m], m, now, CacheSize) => cache' \in [Convs -> Entry]
    BY <1>1, <1>2, AddedToType
<1>6. QED
    BY <1>1, <1>2, <1>3, <1>4, <1>5 DEF ScreenTypes

\* A mark that comes in: it is put on what is loaded, or waits.
LEMMA ReceiveIs ==
    ASSUME TypeOK, NEW m \in Msgs, NEW to \in Marks, Receive(m, to)
    PROVE  /\ acks' \in [Msgs -> Marks]
           /\ \A k \in Msgs \ {m} : acks'[k] = acks[k]
           /\ \/ acks'[m] = acks[m]
              \/ acks'[m] = Higher(acks[m], to)
              \/ acks'[m] = to /\ view[m] = <<>>
              \/ acks'[m] = 0
           /\ m \in Shown(onScreen) => to = 1 \/ view[m] = <<>> \/ acks'[m] = 0
           /\ view' \in Lists /\ Shown(view') = Shown(view)
           /\ view' = view \/ view' = MarkFirst(view, m, to)
           /\ cache' \in [Convs -> Entry]
           /\ \A c \in Convs : cache'[c].msgs = MarkFirst(cache[c].msgs, m, to)
           /\ UNCHANGED <<seen, arrived>>
<1>1. /\ acks \in [Msgs -> Marks] /\ view \in Lists /\ cache \in [Convs -> Entry] /\ 0 \in Marks
    BY NAssumption DEF TypeOK, Marks
<1>2. Higher(acks[m], to) \in Marks
    BY <1>1, HigherType
<1> DEFINE new == IF m \notin Shown(onScreen) THEN Higher(acks[m], to)
                  ELSE IF view[m] = <<>> THEN to ELSE 0
<1>3. new \in Marks
    BY <1>1, <1>2
<1>4. IF to = 1 THEN acks' = acks ELSE acks' = [acks EXCEPT ![m] = new]
    BY DEF Receive
<1>5. /\ acks' \in [Msgs -> Marks]
      /\ \A k \in Msgs \ {m} : acks'[k] = acks[k]
      /\ acks'[m] = acks[m] \/ acks'[m] = new
      /\ to # 1 => acks'[m] = new
    BY <1>1, <1>3, <1>4
<1>6. view' = view \/ view' = MarkFirst(view, m, to)
    BY DEF Receive
<1>7. view' \in Lists /\ Shown(view') = Shown(view)
    BY <1>1, <1>6, MarkFirstType
<1>8. cache' = Marked(cache, m, to) /\ UNCHANGED <<seen, arrived>>
    BY DEF Receive
<1>9. /\ cache' \in [Convs -> Entry]
      /\ \A c \in Convs : cache'[c].msgs = MarkFirst(cache[c].msgs, m, to)
    BY <1>1, <1>8, MarkedType
<1>10. QED
    BY <1>5, <1>6, <1>7, <1>8, <1>9

\* A deletion that comes in.
LEMMA RemoveIs ==
    ASSUME TypeOK, NEW m \in Msgs, Remove(m)
    PROVE  /\ acks' \in [Msgs -> Marks]
           /\ \A k \in Msgs : acks'[k] = IF k = m THEN 0 ELSE acks[k]
           /\ view' = Without(view, m) /\ view' \in Lists
           /\ seen' = seen \/ seen' = seen \ {m}
           /\ arrived' = arrived \ {m}
           /\ cache' \in [Convs -> Entry]
           /\ \A c \in Convs : cache'[c].msgs = Without(cache[c].msgs, m)
<1>1. /\ acks \in [Msgs -> Marks] /\ view \in Lists /\ cache \in [Convs -> Entry] /\ 0 \in Marks
    BY NAssumption DEF TypeOK, Marks
<1>2. /\ acks' = [acks EXCEPT ![m] = 0]
      /\ view' = Without(view, m) /\ arrived' = arrived \ {m}
      /\ seen' = seen \/ seen' = seen \ {m}
      /\ cache' = Purged(cache, m)
    BY DEF Remove
<1>3. acks' \in [Msgs -> Marks] /\ \A k \in Msgs : acks'[k] = IF k = m THEN 0 ELSE acks[k]
    BY <1>1, <1>2
<1>4. view' \in Lists
    BY <1>1, <1>2, WithoutType
<1>5. /\ cache' \in [Convs -> Entry]
      /\ \A c \in Convs : cache'[c].msgs = Without(cache[c].msgs, m)
    BY <1>1, <1>2, PurgedType
<1>6. QED
    BY <1>2, <1>3, <1>4, <1>5

\* The screen keeps its types.
LEMMA ScreenTypesStep ==
    ASSUME TypeInv, [Next]_vars
    PROVE  ScreenTypes'
<1>0. TypeOK
    BY DEF TypeInv
<1>1. /\ view \in Lists /\ onScreen \in Lists /\ seen \subseteq Msgs
      /\ acks \in [Msgs -> Marks]
      /\ cache \in [Convs -> Entry] /\ arrived \subseteq Msgs /\ late \subseteq Msgs
      /\ conv \in Convs \cup {NoConv}
    BY <1>0 DEF TypeOK
<1>2. \A list : Shown(list) \subseteq Msgs
    BY DEF Shown
<1>3. CASE Still
    BY <1>1, <1>3 DEF Still, ScreenTypes
<1>4. ASSUME NEW c \in Convs \cup {NoConv}, NEW saved \in [Convs -> Entry], Opens(c, saved)
      PROVE  ScreenTypes'
    <2>1. Nothing \in Lists
        BY NothingType
    <2>2. c \in Convs => saved[c].msgs \in Lists
        BY DEF Entry
    <2>3. QED
        BY <1>1, <1>2, <1>4, <2>1, <2>2 DEF Opens, ScreenTypes
<1>5. ASSUME NEW m \in Msgs, NEW to \in Marks, Changes(m, to)
      PROVE  ScreenTypes'
    <2>1. UNCHANGED <<conv, onScreen, late>>
        BY <1>5 DEF Changes
    <2>2. CASE Receive(m, to)
        BY <1>0, <1>1, <2>1, <2>2, ReceiveIs DEF ScreenTypes
    <2>3. CASE Remove(m)
        BY <1>0, <1>1, <2>1, <2>3, RemoveIs DEF ScreenTypes
    <2>4. QED
        BY <1>5, <2>2, <2>3 DEF Changes
<1>6. QED
    BY <1>0, <1>3, <1>4, <1>5, ScreenStep, PageTypes, ComesTypes DEF ScreenMoves

\* The server's side and the socket keep their types.
OtherTypes ==
    /\ stored \subseteq Msgs /\ gone \subseteq Msgs /\ stored \cap gone = {}
    /\ mark \in [Msgs -> Marks]
    /\ socket \in {"new", "up", "down"} /\ events \in Seq(Event)

\* What the server does, and what its events are.
LEMMA OtherTypesStep ==
    ASSUME TypeInv, [Next]_vars
    PROVE  OtherTypes'
<1>0. /\ TypeOK /\ OtherTypes
    BY DEF TypeInv, TypeOK, OtherTypes
<1>1. CASE UNCHANGED <<server, socket>> /\ (UNCHANGED events \/ events' = <<>>)
    BY <1>0, <1>1, EmptySeq DEF OtherTypes, server
<1>2. ASSUME NEW m \in NextMessage, stored' = stored \cup {m}, UNCHANGED <<gone, mark, socket>>,
             Push("stored", m)
      PROVE  OtherTypes'
    <2>1. m \in Msgs /\ m \notin gone
        BY DEF NextMessage
    <2>2. mark' \in [Msgs -> Marks]
        BY <1>0, <1>2 DEF OtherTypes
    <2>3. events' \in Seq(Event)
        BY <1>0, <1>2, <2>1, <2>2, PushType
    <2>4. QED
        BY <1>0, <1>2, <2>1, <2>2, <2>3 DEF OtherTypes
<1>3. ASSUME NEW m \in Msgs, NEW to \in Marks, Mark(m, to) PROVE OtherTypes'
    <2>1. mark' \in [Msgs -> Marks]
        BY <1>0, <1>3 DEF Mark, OtherTypes
    <2>2. Push("marked", m)
        BY <1>3 DEF Mark
    <2>3. events' \in Seq(Event)
        BY <1>0, <2>1, <2>2, PushType
    <2>4. QED
        BY <1>0, <1>3, <2>1, <2>3 DEF Mark, OtherTypes
<1>4. ASSUME NEW m \in Msgs, Delete(m) PROVE OtherTypes'
    <2>1. mark' \in [Msgs -> Marks]
        BY <1>0, <1>4 DEF Delete, OtherTypes
    <2>2. Push("deleted", m)
        BY <1>4 DEF Delete
    <2>3. events' \in Seq(Event)
        BY <1>0, <2>1, <2>2, PushType
    <2>4. QED
        BY <1>0, <1>4, <2>1, <2>3 DEF Delete, OtherTypes
<1>5. CASE Deliver
    <2>1. events \in Seq(Event) /\ events # <<>> /\ events' = Tail(events)
        BY <1>0, <1>5 DEF Deliver, OtherTypes
    <2>2. events' \in Seq(Event)
        BY <2>1, HeadTailProperties
    <2>3. UNCHANGED <<server, socket>>
        BY <1>5 DEF Deliver
    <2>4. QED
        BY <1>0, <2>2, <2>3 DEF OtherTypes, server
<1>6. CASE Close \/ Connect \/ Reconnect
    <2>1. /\ UNCHANGED server /\ socket' \in {"new", "up", "down"}
          /\ events' = events \/ events' = <<>>
        BY <1>6 DEF Close, Connect, Reconnect
    <2>2. QED
        BY <1>0, <2>1, EmptySeq DEF OtherTypes, server
<1>7. CASE World
    <2>1. ASSUME NEW m \in Msgs, Arrive(m) PROVE OtherTypes'
        BY <1>2, <2>1 DEF Arrive
    <2>2. ASSUME NEW s \in Slots, FetchFails(s) PROVE OtherTypes'
        BY <1>1, <2>2 DEF FetchFails, wire
    <2>3. QED
        BY <1>3, <1>4, <1>6, <1>7, <2>1, <2>2 DEF World
<1>8. CASE User
    <2>1. ASSUME NEW m \in Msgs, Send(m) PROVE OtherTypes'
        BY <1>2, <2>1 DEF Send
    <2>2. CASE \/ \E c \in Convs \cup {NoConv}, kind \in {"chat", "info"} : Open(c, kind)
               \/ \E m \in Msgs : Search(m)
               \/ TargetReached \/ Reload \/ JumpToBottom \/ PageUp \/ PageDown
        <3>1. UNCHANGED <<server, wire>>
            BY <2>2 DEF Open, Search, TargetReached, Go, Reload, JumpToBottom, PageUp, PageDown
        <3>2. QED
            BY <1>1, <3>1 DEF wire
    <2>3. QED
        BY <1>8, <2>1, <2>2 DEF User
<1>9. CASE Commit \/ \E s \in Slots : Serve(s) \/ Land(s)
    <2>1. UNCHANGED <<server, wire>>
        BY <1>9 DEF Commit, Serve, Land, Dropped, LandLatest, LandOlder, LandNewer, LandAround,
                    LandSent
    <2>2. QED
        BY <1>1, <2>1 DEF wire
<1>10. CASE UNCHANGED vars
    BY <1>1, <1>10 DEF vars, server, wire
<1>11. QED
    BY <1>5, <1>6, <1>7, <1>8, <1>9, <1>10 DEF Next, Client

\* Flags, numbers, the page and the budgets.
FlagTypes ==
    /\ pageKind \in {"chat", "info"} /\ target \in 0 .. N
    /\ older \in BOOLEAN /\ newer \in BOOLEAN /\ newerRef \in BOOLEAN
    /\ number \in Nat /\ deferred \in BOOLEAN
    /\ left \in [Kinds -> Nat]

\* A page that is opened.
LEMMA GoFlags ==
    ASSUME TypeOK, NEW c \in Convs \cup {NoConv}, NEW kind \in {"chat", "info"}, NEW to \in 0 .. N,
           Go(c, kind, to), left' \in [Kinds -> Nat]
    PROVE  FlagTypes'
<1>0. FlagTypes /\ view \in Lists /\ conv \in Convs \cup {NoConv} /\ cache \in [Convs -> Entry]
    BY DEF TypeOK, FlagTypes
<1>1. pageKind' = kind /\ target' = to
    BY DEF Go
<1>2. CASE c = conv /\ to = 0
    <2>1. UNCHANGED screen /\ newerRef' = newer /\ number' = 0 /\ deferred' = FALSE
        BY <1>2, Zenon DEF Go
    <2>2. QED
        BY <1>0, <1>1, <2>1 DEF FlagTypes, screen
<1>3. CASE ~(c = conv /\ to = 0)
    <2>1. PICK saved \in IF c = conv THEN {cache} ELSE Saved :
              Load(c, to, saved) /\ newer' = (newer /\ c = conv) /\ newerRef' = newer
        BY <1>3, Zenon DEF Go
    <2>2. saved \in [Convs -> Entry]
        <3>1. CASE c = conv
            BY <1>0, <3>1, <2>1
        <3>2. CASE c # conv
            BY <3>2, <2>1, SavedType
        <3>3. QED
            BY <3>1, <3>2
    <2>3. /\ deferred' = FALSE /\ number' \in Nat
          /\ older' \in BOOLEAN \/ (c \in Convs /\ older' = saved[c].older)
        BY <2>1, <2>2, LoadIs
    <2>4. older' \in BOOLEAN
        BY <2>2, <2>3 DEF Entry
    <2>5. QED
        BY <1>0, <1>1, <2>1, <2>3, <2>4 DEF FlagTypes
<1>4. QED
    BY <1>2, <1>3

\* Flags, numbers, the page and the budgets keep their types.
LEMMA FlagTypesStep ==
    ASSUME TypeInv, [Next]_vars
    PROVE  FlagTypes'
<1>0. /\ TypeOK /\ FlagTypes /\ left \in [Kinds -> Nat] /\ conv \in Convs \cup {NoConv}
      /\ 0 \in 0 .. N
    BY NAssumption DEF TypeInv, TypeOK, FlagTypes
<1>1. \A kind \in Kinds : Spend(kind) => left' \in [Kinds -> Nat]
    BY <1>0, SpendType
<1>2. CASE World
    <2>1. UNCHANGED <<pageKind, target, older, newer, newerRef, number, deferred>>
        BY <1>2 DEF World, Arrive, Mark, Delete, Close, FetchFails, where, screen, refs, requests
    <2>2. left' = left \/ Spend("change") \/ Spend("fail") \/ Spend("drop")
        BY <1>2 DEF World, Arrive, Mark, Delete, Close, FetchFails
    <2>3. left' \in [Kinds -> Nat]
        BY <1>0, <1>1, <2>2, KindsAre
    <2>4. QED
        BY <1>0, <2>1, <2>3 DEF FlagTypes
<1>3. ASSUME NEW c \in Convs \cup {NoConv}, NEW kind \in {"chat", "info"}, Open(c, kind)
      PROVE  FlagTypes'
    <2>1. left' \in [Kinds -> Nat]
        BY <1>1, <1>3, KindsAre DEF Open
    <2>2. QED
        BY <1>0, <1>3, <2>1, GoFlags DEF Open
<1>4. ASSUME NEW m \in Msgs, Search(m)
      PROVE  FlagTypes'
    <2>1. left' \in [Kinds -> Nat]
        BY <1>1, <1>4, KindsAre DEF Search
    <2>2. m \in 0 .. N /\ ConvOf[m] \in Convs
        BY NAssumption, ConvOfAssumption DEF Msgs
    <2>3. Go(ConvOf[m], "chat", m)
        BY <1>4 DEF Search
    <2>4. QED
        BY <1>0, <2>1, <2>2, <2>3, GoFlags
<1>5. CASE TargetReached
    <2>1. left' \in [Kinds -> Nat] /\ pageKind \in {"chat", "info"}
        BY <1>0, <1>5 DEF TargetReached, FlagTypes
    <2>2. QED
        BY <1>0, <1>5, <2>1, GoFlags DEF TargetReached
<1>6. CASE Reload
    <2>1. left' \in [Kinds -> Nat]
        BY <1>1, <1>6, KindsAre DEF Reload
    <2>2. PICK saved : saved = [c \in Convs |-> NoEntry]
        OBVIOUS
    <2>3. saved \in [Convs -> Entry] /\ Load(conv, target, saved)
        BY <1>6, <2>2, NoEntryType DEF Reload
    <2>4. target \in 0 .. N
        BY <1>0 DEF FlagTypes
    <2>5. /\ deferred' = FALSE /\ number' \in Nat
          /\ older' \in BOOLEAN \/ (conv \in Convs /\ older' = saved[conv].older)
        BY <1>0, <2>3, <2>4, LoadIs
    <2>6. older' \in BOOLEAN
        BY <2>3, <2>5 DEF Entry
    <2>7. newer' = FALSE /\ newerRef' = FALSE /\ UNCHANGED <<pageKind, target>>
        BY <1>6 DEF Reload, where
    <2>8. QED
        BY <1>0, <2>1, <2>5, <2>6, <2>7 DEF FlagTypes
<1>7. CASE JumpToBottom
    <2>1. left' \in [Kinds -> Nat]
        BY <1>1, <1>7, KindsAre DEF JumpToBottom
    <2>2. QED
        BY <1>0, <1>7, <2>1 DEF JumpToBottom, FlagTypes, where
<1>8. CASE PageUp \/ PageDown \/ \E m \in Msgs : Send(m)
    <2>1. left' \in [Kinds -> Nat]
        BY <1>1, <1>8, KindsAre DEF PageUp, PageDown, Send
    <2>2. UNCHANGED <<pageKind, target, older, newer, newerRef, number, deferred>>
        BY <1>8 DEF PageUp, PageDown, Send, where, screen, refs
    <2>3. QED
        BY <1>0, <2>1, <2>2 DEF FlagTypes
<1>9. CASE User
    BY <1>3, <1>4, <1>5, <1>6, <1>7, <1>8, <1>9 DEF User
<1>10. CASE Commit \/ Connect \/ Reconnect \/ Deliver
    <2>1. /\ UNCHANGED <<pageKind, target, older, newer, left>>
          /\ newerRef' = newerRef \/ newerRef' = newer
          /\ number' = number \/ number' = number + 1
          /\ deferred' = deferred \/ deferred' = TRUE \/ deferred' = FALSE
        BY <1>10 DEF Commit, Connect, Reconnect, Deliver, where, screen, refs, requests
    <2>2. number' \in Nat
        BY <1>0, <2>1 DEF FlagTypes
    <2>3. deferred' \in BOOLEAN /\ newerRef' \in BOOLEAN
        BY <1>0, <2>1, Zenon DEF FlagTypes
    <2>4. QED
        BY <1>0, <2>1, <2>2, <2>3 DEF FlagTypes
<1>11. ASSUME NEW s \in Slots, Serve(s) \/ Land(s) PROVE FlagTypes'
    <2>1. fetches[s].older \in BOOLEAN /\ fetches[s].newer \in BOOLEAN
        BY <1>0 DEF TypeOK, Fetch
    <2>2. /\ UNCHANGED <<pageKind, target, newerRef, left>>
          /\ older' = older \/ older' = fetches[s].older
          /\ newer' = newer \/ newer' = fetches[s].newer
        BY <1>11 DEF Serve, Land, Dropped, LandLatest, LandOlder, LandNewer, LandAround, LandSent,
                    where, screen, refs
    <2>3. /\ number' = number \/ number' = number + 1
          /\ deferred' = deferred \/ deferred' = FALSE
        BY <1>11 DEF Serve, Land, Dropped, LandLatest, LandOlder, LandNewer, LandAround, LandSent
    <2>4. number' \in Nat
        BY <1>0, <2>3 DEF FlagTypes
    <2>5. deferred' \in BOOLEAN /\ older' \in BOOLEAN /\ newer' \in BOOLEAN
        BY <1>0, <2>1, <2>2, <2>3, Zenon DEF FlagTypes
    <2>6. QED
        BY <1>0, <2>2, <2>4, <2>5 DEF FlagTypes
<1>12. CASE Client
    BY <1>10, <1>11, <1>12 DEF Client
<1>13. CASE UNCHANGED vars
    BY <1>0, <1>13 DEF vars, where, screen, refs, requests, FlagTypes
<1>14. QED
    BY <1>2, <1>9, <1>12, <1>13 DEF Next

\* The answer of a send is about a message of its conversation, from when it is sent on.
LEMMA SentIsOwnStep ==
    ASSUME TypeInv, Requested
    PROVE  SentIsOwn'
<1>1. SUFFICES ASSUME NEW s \in Slots, fetches'[s].kind = "sent"
      PROVE  /\ fetches'[s].served /\ fetches'[s].anchor \in Msgs
             /\ ConvOf[fetches'[s].anchor] = fetches'[s].conv
    BY DEF SentIsOwn
<1>2. Moved(s)
    BY DEF Requested
<1>3. CASE fetches'[s] = fetches[s]
    BY <1>1, <1>3 DEF TypeInv, SentIsOwn
<1>4. CASE fetches'[s] = NoFetch
    BY <1>1, <1>4, NoFetchType
<1>5. CASE /\ fetches[s].kind \notin {"none", "sent"} /\ ~fetches[s].served
           /\ fetches'[s] = Answered(fetches[s])
    <2>1. TypeOK /\ fetches[s] \in Fetch
        BY DEF TypeInv, TypeOK
    <2>2. fetches'[s].kind = fetches[s].kind
        BY <1>5, <2>1, AnsweredIs
    <2>3. QED
        BY <1>1, <1>5, <2>2
<1>6. CASE Begun(fetches'[s])
    BY <1>1, <1>6 DEF Begun
<1>7. QED
    BY <1>2, <1>3, <1>4, <1>5, <1>6 DEF Moved

\* Types are inductive, with what is known of sends.
LEMMA TypeInvStep ==
    ASSUME TypeInv, [Next]_vars
    PROVE  TypeInv'
<1>1. Requested
    BY RequestsStep
<1>2. ScreenTypes' /\ OtherTypes' /\ FlagTypes'
    BY ScreenTypesStep, OtherTypesStep, FlagTypesStep
<1>3. fetches' \in [Slots -> Fetch]
    BY <1>1 DEF Requested
<1>4. TypeOK'
    BY <1>2, <1>3 DEF TypeOK, ScreenTypes, OtherTypes, FlagTypes
<1>5. QED
    BY <1>1, <1>4, SentIsOwnStep DEF TypeInv

\* At the start nothing is loaded.
LEMMA TypeInvInit == Init => TypeInv
<1> SUFFICES ASSUME Init PROVE TypeInv
    OBVIOUS
<1>1. 0 \in Marks /\ 0 \in 0 .. N /\ 0 \in Nat
    BY NAssumption DEF Marks
<1>2. mark \in [Msgs -> Marks] /\ acks \in [Msgs -> Marks]
    BY <1>1 DEF Init
<1>3. cache \in [Convs -> Entry]
    BY NoEntryType DEF Init
<1>4. fetches \in [Slots -> Fetch] /\ \A s \in Slots : fetches[s].kind = "none"
    BY NoFetchType DEF Init
<1>5. left \in [Kinds -> Nat]
    BY BoundsAssumption DEF Init
<1>6. events \in Seq(Event)
    BY EmptySeq DEF Init
<1>7. view \in Lists /\ onScreen \in Lists
    BY NothingType DEF Init
<1>8. TypeOK
    BY <1>1, <1>2, <1>3, <1>4, <1>5, <1>6, <1>7, MessagesAssumption DEF Init, TypeOK
<1>9. SentIsOwn
    BY <1>4 DEF SentIsOwn
<1>10. QED
    BY <1>8, <1>9 DEF TypeInv

\* Lists, pages, cached conversations, requests and events are what they are declared to be;
\* a sent message's answer is about that message (all of ConversationView's handlers).
THEOREM ViewTypes == Spec => []TypeOK
<1>1. TypeInv /\ [Next]_vars => TypeInv'
    BY TypeInvStep
<1>2. TypeInv => TypeOK
    BY DEF TypeInv
<1>3. QED
    BY <1>1, <1>2, TypeInvInit, PTL DEF Spec

----------------------------------------------------------------------------
(* Each message in its own conversation *)

\* The answers under way hold messages of the conversation they were asked for.
FetchesOwn ==
    \A s \in Slots : \A m \in Shown(fetches[s].page) : ConvOf[m] = fetches[s].conv

OwnInv == TypeInv /\ FetchesOwn /\ (Prompt => OwnMessages)

\* With prompt rendering the handlers read what is on screen.
LEMMA ReadyIs ==
    ASSUME Prompt, Ready
    PROVE  onScreen = view /\ newerRef = newer
BY DEF Ready, Committed

\* What a page that comes in leaves of each message.
LEMMA PageCopies ==
    ASSUME TypeOK, NEW s \in Slots, PageLands(s)
    PROVE  LET page == WithAcks(fetches[s].page, acks)
           IN  /\ Ready /\ fetches[s].conv = conv /\ UNCHANGED <<conv, cache>>
               /\ \A k \in Msgs : acks'[k] = IF k \in Shown(page) THEN 0 ELSE acks[k]
               /\ \A k \in Msgs : k \in Shown(view') =>
                      k \in Shown(view) \/ k \in Shown(onScreen) \/ k \in Shown(page)
               /\ \A k \in Msgs \ Shown(page) : view'[k] \in {view[k], onScreen[k], <<>>}
               /\ \A k \in Msgs : \/ view'[k] \in {view[k], onScreen[k], <<>>, page[k]}
                                  \/ k \notin seen /\ view[k] # <<>>
               /\ late \subseteq late'
<1> DEFINE page == WithAcks(fetches[s].page, acks)
<1>0. /\ view \in Lists /\ onScreen \in Lists /\ seen \in SUBSET Msgs
    BY DEF TypeOK
<1>1. page \in Lists /\ Shown(page) = Shown(fetches[s].page)
    BY PageIs
<1>2. Ready /\ fetches[s].conv = conv /\ UNCHANGED <<conv, cache>>
    BY DEF PageLands, LandLatest, LandOlder, LandNewer, LandAround, Landing, Wanted, where
<1>3. TakeAcks(fetches[s].page)
    BY DEF PageLands, LandLatest, LandOlder, LandNewer, LandAround
<1>4. \A k \in Msgs : acks'[k] = IF k \in Shown(page) THEN 0 ELSE acks[k]
    BY <1>1, <1>3, TakeAcksType
<1>5. late \subseteq late'
    BY DEF PageLands, LandLatest, LandOlder, LandNewer, LandAround, history
<1>6. \A k \in Msgs : k \in Shown(page) <=> page[k] # <<>>
    BY ShownIs
<1>7. \A k \in Msgs : /\ k \in Shown(view) <=> view[k] # <<>>
                      /\ k \in Shown(onScreen) <=> onScreen[k] # <<>>
                      /\ k \in Shown(view') <=> view'[k] # <<>>
    BY ShownIs
<1> DEFINE Goal == \A k \in Msgs :
               /\ \/ view'[k] \in {view[k], onScreen[k], <<>>, page[k]}
                  \/ k \notin seen /\ view[k] # <<>>
               /\ k \notin Shown(page) => view'[k] \in {view[k], onScreen[k], <<>>}
               /\ k \in Shown(view') =>
                      k \in Shown(view) \/ k \in Shown(onScreen) \/ k \in Shown(page)
<1>8. CASE LandLatest(s)
    <2> DEFINE full == fetches[s].older
               atStart == fetches[s].atStart
               merged == Reconciled(onScreen, page, full, atStart)
    <2>1. \A k \in Msgs : merged[k] \in {page[k], onScreen[k], <<>>}
        BY <1>0, <1>1, ReconciledType
    <2>2. view' = merged \/ view' = view
        BY <1>8 DEF LandLatest
    <2> HIDE DEF page, merged
    <2>3. \A k \in Msgs : view'[k] \in {view[k], page[k], onScreen[k], <<>>}
        BY <2>1, <2>2
    <2>4. Goal
        BY <1>6, <1>7, <2>3
    <2>5. QED
        BY <1>2, <1>4, <1>5, <2>4 DEF page
<1>9. CASE LandOlder(s)
    <2>1. view' = AppendUnique(view, page)
        BY <1>9 DEF LandOlder
    <2> HIDE DEF page
    <2>2. \A k \in Msgs : view'[k] = IF view[k] = <<>> THEN page[k] ELSE view[k]
        BY <1>0, <1>1, <2>1, AppendUniqueType
    <2>3. Goal
        BY <1>6, <1>7, <2>2
    <2>4. QED
        BY <1>2, <1>4, <1>5, <2>3 DEF page
<1>10. CASE LandNewer(s)
    <2> DEFINE longer == AppendUnseen(view, page, seen)
    <2>1. view' = longer
        BY <1>10 DEF LandNewer
    <2> HIDE DEF page
    <2>5. \A k \in Msgs : \/ longer[k] = view[k]
                          \/ /\ k \in Shown(page) \ seen
                             /\ view[k] = <<>> => longer[k] = page[k]
        BY <1>0, <1>1, AppendUnseenType
    <2> HIDE DEF longer
    <2>2. \A k \in Msgs : \/ view'[k] = view[k]
                          \/ /\ k \in Shown(page) \ seen
                             /\ view[k] = <<>> => view'[k] = page[k]
        BY <2>1, <2>5
    <2>3. Goal
        BY <1>6, <1>7, <2>2
    <2>4. QED
        BY <1>2, <1>4, <1>5, <2>3 DEF page
<1>11. CASE LandAround(s)
    <2>1. view' = page
        BY <1>11 DEF LandAround
    <2> HIDE DEF page
    <2>2. Goal
        BY <1>6, <1>7, <2>1
    <2>3. QED
        BY <1>2, <1>4, <1>5, <2>2 DEF page
<1>12. QED
    BY <1>8, <1>9, <1>10, <1>11 DEF PageLands

\* Answers hold rows of the conversation they were asked for.
LEMMA FetchesOwnStep ==
    ASSUME TypeInv, FetchesOwn, [Next]_vars
    PROVE  FetchesOwn'
<1>1. SUFFICES ASSUME NEW s \in Slots, NEW m \in Shown(fetches'[s].page)
      PROVE  ConvOf[m] = fetches'[s].conv
    BY DEF FetchesOwn
<1>2. Moved(s) /\ TypeOK /\ fetches[s] \in Fetch /\ mark \in [Msgs -> Marks]
    BY RequestsStep DEF Requested, TypeInv, TypeOK
<1>3. CASE fetches'[s] = fetches[s]
    BY <1>1, <1>3 DEF FetchesOwn
<1>4. CASE fetches'[s] = NoFetch
    BY <1>1, <1>4, NoFetchType, NothingType
<1>5. CASE /\ fetches[s].kind \notin {"none", "sent"} /\ ~fetches[s].served
           /\ fetches'[s] = Answered(fetches[s])
    <2>1. /\ fetches'[s].conv = fetches[s].conv
          /\ fetches'[s].page = Copies(PageOf(fetches[s]), mark)
        BY <1>2, <1>5, AnsweredIs
    <2>2. PageOf(fetches[s]) \subseteq Rows(fetches[s].conv) /\ PageOf(fetches[s]) \in SUBSET Msgs
        BY <1>2, <1>5, PageOfIn
    <2>3. m \in Rows(fetches[s].conv)
        BY <1>1, <1>2, <2>1, <2>2, CopiesType
    <2>4. QED
        BY <2>1, <2>3 DEF Rows
<1>6. CASE Begun(fetches'[s])
    BY <1>1, <1>6, NothingType DEF Begun
<1>7. QED
    BY <1>2, <1>3, <1>4, <1>5, <1>6 DEF Moved

\* A cached conversation shows at most what it was made from.
LEMMA SavedCopies ==
    ASSUME TypeOK, NEW saved \in [Convs -> Entry], NEW d \in Convs,
           \/ saved[d] = cache[d] \/ saved[d] = NoEntry
           \/ d = conv /\ saved[d] = Normalized(view, older)
    PROVE  \A k \in Msgs : \/ saved[d].msgs[k] \in {cache[d].msgs[k], <<>>}
                           \/ d = conv /\ saved[d].msgs[k] = view[k]
<1>1. view \in Lists /\ older \in BOOLEAN
    BY DEF TypeOK
<1>2. \A k \in Msgs : Normalized(view, older).msgs[k] \in {view[k], <<>>}
    BY <1>1, NormalizedType
<1>3. QED
    BY <1>2, NoEntryType

\* With prompt rendering the screen and the cache keep to their conversations.
LEMMA OwnMessagesStep ==
    ASSUME Prompt, TypeInv, FetchesOwn, OwnMessages, [Next]_vars
    PROVE  OwnMessages'
<1>0. TypeOK /\ \A c \in Convs : cache[c].msgs \in Lists
    BY DEF TypeInv, TypeOK, Entry
<1>1. /\ \A k \in Msgs : k \in Shown(view) => ConvOf[k] = conv
      /\ \A c \in Convs, k \in Msgs : k \in Shown(cache[c].msgs) => ConvOf[k] = c
    BY DEF OwnMessages, Shown
<1>2. SUFFICES /\ \A k \in Msgs : k \in Shown(view') => ConvOf[k] = conv'
               /\ \A c \in Convs, k \in Msgs : k \in Shown(cache'[c].msgs) => ConvOf[k] = c
    BY DEF OwnMessages, Shown
<1>3. CASE Still
    BY <1>1, <1>3 DEF Still
<1>4. ASSUME NEW c \in Convs \cup {NoConv}, NEW saved \in [Convs -> Entry], Opens(c, saved)
      PROVE  /\ \A k \in Msgs : k \in Shown(view') => ConvOf[k] = conv'
             /\ \A d \in Convs, k \in Msgs : k \in Shown(cache'[d].msgs) => ConvOf[k] = d
    <2>1. ASSUME NEW d \in Convs, NEW k \in Msgs, k \in Shown(saved[d].msgs)
          PROVE  ConvOf[k] = d
        <3>1. \/ saved[d] = cache[d] \/ saved[d] = NoEntry
              \/ d = conv /\ saved[d] = Normalized(view, older)
            BY <1>4 DEF Opens
        <3>2. \/ saved[d].msgs[k] \in {cache[d].msgs[k], <<>>}
              \/ d = conv /\ saved[d].msgs[k] = view[k]
            BY <1>0, <3>1, SavedCopies
        <3>3. QED
            BY <1>1, <2>1, <3>2, ShownIs
    <2>2. cache' = saved /\ conv' = c
        BY <1>4 DEF Opens
    <2>3. view' = Nothing \/ (c \in Convs /\ view' = saved[c].msgs)
        BY <1>4 DEF Opens
    <2>4. QED
        BY <2>1, <2>2, <2>3, NothingType
<1>5. ASSUME NEW s \in Slots, PageLands(s)
      PROVE  /\ \A k \in Msgs : k \in Shown(view') => ConvOf[k] = conv'
             /\ \A c \in Convs, k \in Msgs : k \in Shown(cache'[c].msgs) => ConvOf[k] = c
    <2> DEFINE page == WithAcks(fetches[s].page, acks)
    <2>1. /\ Ready /\ fetches[s].conv = conv /\ UNCHANGED <<conv, cache>>
          /\ \A k \in Msgs : k \in Shown(view') =>
                 k \in Shown(view) \/ k \in Shown(onScreen) \/ k \in Shown(page)
        BY <1>0, <1>5, PageCopies
    <2>2. onScreen = view
        BY <2>1, ReadyIs
    <2>3. \A k \in Shown(page) : ConvOf[k] = conv
        BY <1>0, <2>1, PageIs DEF FetchesOwn
    <2> HIDE DEF page
    <2>4. QED
        BY <1>1, <2>1, <2>2, <2>3
<1>6. ASSUME NEW m \in Msgs, NEW sent \in Marks, NEW active \in BOOLEAN, Comes(m, sent, active)
      PROVE  /\ \A k \in Msgs : k \in Shown(view') => ConvOf[k] = conv'
             /\ \A c \in Convs, k \in Msgs : k \in Shown(cache'[c].msgs) => ConvOf[k] = c
    <2> DEFINE now == Higher(sent, acks[m])
    <2>1. /\ now \in Marks
          /\ \/ active /\ UNCHANGED <<view, cache>>
             \/ active /\ view' = AddIfAbsent(view, m, now) /\ UNCHANGED cache
             \/ ~active /\ cache' \in AddedTo(cache, ConvOf[m], m, now, CacheSize) /\ UNCHANGED view
        BY <1>0, <1>6, ComesIs
    <2>2. conv' = conv /\ (active => ConvOf[m] = conv)
        BY <1>6 DEF Comes
    <2> HIDE DEF now
    <2>3. view \in Lists /\ cache \in [Convs -> Entry] /\ ConvOf[m] \in Convs
        BY <1>0, ConvOfAssumption DEF TypeOK
    <2>4. CASE active /\ view' = AddIfAbsent(view, m, now) /\ UNCHANGED cache
        <3>1. Shown(view') = Shown(view) \cup {m}
            BY <2>1, <2>3, <2>4, AddIfAbsentType
        <3>2. QED
            BY <1>1, <2>2, <2>4, <3>1
    <2>5. CASE ~active /\ cache' \in AddedTo(cache, ConvOf[m], m, now, CacheSize) /\ UNCHANGED view
        <3>1. \A d \in Convs, k \in Msgs : \/ cache'[d].msgs[k] \in {cache[d].msgs[k], <<>>}
                                           \/ d = ConvOf[m] /\ k = m
            BY <2>1, <2>3, <2>5, AddedToType
        <3>2. QED
            BY <1>1, <2>2, <2>5, <3>1, ShownIs
    <2>6. CASE UNCHANGED <<view, cache>>
        BY <1>1, <2>2, <2>6
    <2>7. QED
        BY <2>1, <2>4, <2>5, <2>6
<1>7. ASSUME NEW m \in Msgs, NEW to \in Marks, Changes(m, to)
      PROVE  /\ \A k \in Msgs : k \in Shown(view') => ConvOf[k] = conv'
             /\ \A c \in Convs, k \in Msgs : k \in Shown(cache'[c].msgs) => ConvOf[k] = c
    <2>1. conv' = conv /\ view \in Lists
        BY <1>0, <1>7 DEF Changes, TypeOK
    <2>2. CASE Receive(m, to)
        <3>1. /\ Shown(view') = Shown(view)
              /\ \A c \in Convs : cache'[c].msgs = MarkFirst(cache[c].msgs, m, to)
            BY <1>0, <2>2, ReceiveIs
        <3>2. \A c \in Convs : Shown(cache'[c].msgs) = Shown(cache[c].msgs)
            BY <1>0, <3>1, MarkFirstType
        <3>3. QED
            BY <1>1, <2>1, <3>1, <3>2
    <2>3. CASE Remove(m)
        <3>1. /\ view' = Without(view, m)
              /\ \A c \in Convs : cache'[c].msgs = Without(cache[c].msgs, m)
            BY <1>0, <2>3, RemoveIs
        <3>2. /\ Shown(view') \subseteq Shown(view)
              /\ \A c \in Convs : Shown(cache'[c].msgs) \subseteq Shown(cache[c].msgs)
            BY <1>0, <2>1, <3>1, WithoutType
        <3>3. QED
            BY <1>1, <2>1, <3>2
    <2>4. QED
        BY <1>7, <2>2, <2>3 DEF Changes
<1>8. QED
    BY <1>3, <1>4, <1>5, <1>6, <1>7, ScreenStep DEF ScreenMoves

\* With prompt rendering, messages only show in their own conversation and in its cached copy:
\* each answer is checked against the conversation now open (551, 599), events and answers to
\* sends against the message's conversation.
THEOREM OwnMessagesOnly == Spec => [](Prompt => OwnMessages)
<1>1. Init => OwnInv
    <2> SUFFICES ASSUME Init PROVE OwnInv
        OBVIOUS
    <2>1. FetchesOwn
        BY NoFetchType, NothingType DEF Init, FetchesOwn
    <2>2. OwnMessages
        BY NothingType DEF Init, OwnMessages, NoEntry
    <2>3. QED
        BY <2>1, <2>2, TypeInvInit DEF OwnInv
<1>2. OwnInv /\ [Next]_vars => OwnInv'
    BY TypeInvStep, FetchesOwnStep, OwnMessagesStep DEF OwnInv
<1>3. OwnInv => (Prompt => OwnMessages)
    BY DEF OwnInv
<1>4. QED
    BY <1>1, <1>2, <1>3, PTL DEF Spec

----------------------------------------------------------------------------
(* No ACK waits for a message that is loaded *)

\* What waits for the messages of a list is not above their marks.
Held(list, waiting) == \A m \in Shown(list) : waiting[m] <= list[m][1]

AckHeld == Held(view, acks) /\ \A c \in Convs : Held(cache[c].msgs, acks)
AckInv == TypeInv /\ (Prompt => AckHeld)

\* The copies that stay keep what waits for them, if nothing more is put into the buffer.
LEMMA HeldStays ==
    ASSUME NEW list \in Lists, NEW new \in Lists,
           NEW before \in [Msgs -> Marks], NEW after \in [Msgs -> Marks],
           Held(list, before),
           \A k \in Msgs : \/ after[k] = 0
                           \/ new[k] = <<>>
                           \/ new[k] = list[k] /\ after[k] = before[k]
    PROVE  Held(new, after)
<1>1. SUFFICES ASSUME NEW k \in Shown(new) PROVE after[k] <= new[k][1]
    BY DEF Held
<1>2. k \in Msgs /\ new[k][1] \in Marks /\ new[k] # <<>>
    BY FirstMark, ShownIs
<1>3. CASE after[k] = 0
    BY <1>2, <1>3, NAssumption DEF Marks
<1>4. CASE new[k] = list[k] /\ after[k] = before[k]
    <2>1. k \in Shown(list)
        BY <1>2, <1>4, ShownIs
    <2>2. before[k] <= list[k][1]
        BY <2>1 DEF Held
    <2>3. QED
        BY <1>4, <2>2
<1>5. QED
    BY <1>2, <1>3, <1>4

\* A mark that is put on the first copy of a message is not below what waits for it afterwards.
LEMMA HeldMarked ==
    ASSUME NEW list \in Lists, NEW m \in Msgs, NEW to \in Marks,
           NEW before \in [Msgs -> Marks], NEW after \in [Msgs -> Marks],
           Held(list, before),
           \A k \in Msgs \ {m} : after[k] = before[k],
           after[m] \in {before[m], to, Higher(before[m], to), 0}
    PROVE  Held(MarkFirst(list, m, to), after)
<1> DEFINE new == MarkFirst(list, m, to)
<1>1. /\ new \in Lists /\ Shown(new) = Shown(list)
      /\ \A k \in Shown(list) : list[k][1] <= new[k][1]
      /\ m \in Shown(list) => to <= new[m][1]
    BY MarkFirstType
<1> HIDE DEF new
<1>2. SUFFICES ASSUME NEW k \in Shown(new) PROVE after[k] <= new[k][1]
    BY DEF Held, new
<1>3. k \in Msgs /\ new[k][1] \in Marks /\ list[k][1] \in Marks /\ k \in Shown(list)
    BY <1>1, FirstMark
<1>4. before[k] <= list[k][1] /\ list[k][1] <= new[k][1]
    BY <1>1, <1>3 DEF Held
<1>5. before[k] \in Marks /\ after[k] \in Marks
    BY <1>3
<1>6. before[k] <= new[k][1]
    BY <1>3, <1>4, <1>5, NAssumption DEF Marks
<1>7. CASE k # m
    BY <1>3, <1>6, <1>7
<1>8. CASE k = m
    <2>1. to <= new[k][1]
        BY <1>1, <1>3, <1>8
    <2>2. 0 <= new[k][1]
        BY <1>3, NAssumption DEF Marks
    <2>3. Higher(before[m], to) \in {before[m], to}
        BY DEF Higher
    <2>4. QED
        BY <1>6, <1>8, <2>1, <2>2, <2>3
<1>9. QED
    BY <1>7, <1>8

\* With prompt rendering every step keeps the buffered ACKs below the marks that are loaded.
LEMMA AckHeldStep ==
    ASSUME Prompt, TypeInv, AckHeld, [Next]_vars
    PROVE  AckHeld'
<1>0. TypeOK /\ TypeOK'
    BY TypeInvStep DEF TypeInv
<1>1. /\ view \in Lists /\ \A c \in Convs : cache[c].msgs \in Lists
      /\ view' \in Lists /\ \A c \in Convs : cache'[c].msgs \in Lists
      /\ acks \in [Msgs -> Marks] /\ acks' \in [Msgs -> Marks]
      /\ cache \in [Convs -> Entry] /\ cache' \in [Convs -> Entry]
    BY <1>0 DEF TypeOK, Entry
<1>2. Held(view, acks) /\ \A c \in Convs : Held(cache[c].msgs, acks)
    BY DEF AckHeld
<1>3. SUFFICES Held(view', acks') /\ \A c \in Convs : Held(cache'[c].msgs, acks')
    BY DEF AckHeld, Held
<1>4. CASE Still
    BY <1>2, <1>4 DEF Still
<1>5. ASSUME NEW c \in Convs \cup {NoConv}, NEW saved \in [Convs -> Entry], Opens(c, saved)
      PROVE  Held(view', acks') /\ \A d \in Convs : Held(cache'[d].msgs, acks')
    <2>1. acks' = acks /\ cache' = saved
        BY <1>5 DEF Opens
    <2>2. ASSUME NEW d \in Convs
          PROVE  Held(saved[d].msgs, acks)
        <3>1. \/ saved[d] = cache[d] \/ saved[d] = NoEntry
              \/ d = conv /\ saved[d] = Normalized(view, older)
            BY <1>5 DEF Opens
        <3>2. \A k \in Msgs : \/ saved[d].msgs[k] \in {cache[d].msgs[k], <<>>}
                              \/ saved[d].msgs[k] = view[k]
            BY <1>0, <3>1, SavedCopies
        <3>3. SUFFICES ASSUME NEW k \in Shown(saved[d].msgs)
                       PROVE  acks[k] <= saved[d].msgs[k][1]
            BY DEF Held
        <3>4. k \in Msgs /\ saved[d].msgs[k] # <<>>
            BY DEF Shown
        <3>5. CASE saved[d].msgs[k] = cache[d].msgs[k]
            <4>1. k \in Shown(cache[d].msgs)
                BY <3>4, <3>5, ShownIs
            <4>2. QED
                BY <1>2, <3>5, <4>1 DEF Held
        <3>6. CASE saved[d].msgs[k] = view[k]
            <4>1. k \in Shown(view)
                BY <3>4, <3>6, ShownIs
            <4>2. QED
                BY <1>2, <3>6, <4>1 DEF Held
        <3>7. QED
            BY <3>2, <3>4, <3>5, <3>6
    <2>3. view' = Nothing \/ (c \in Convs /\ view' = saved[c].msgs)
        BY <1>5 DEF Opens
    <2>4. Held(Nothing, acks)
        BY NothingType DEF Held
    <2>5. QED
        BY <2>1, <2>2, <2>3, <2>4
<1>6. ASSUME NEW s \in Slots, PageLands(s)
      PROVE  Held(view', acks') /\ \A c \in Convs : Held(cache'[c].msgs, acks')
    <2> DEFINE page == WithAcks(fetches[s].page, acks)
    <2>1. /\ Ready /\ UNCHANGED cache
          /\ \A k \in Msgs : acks'[k] = IF k \in Shown(page) THEN 0 ELSE acks[k]
          /\ \A k \in Msgs \ Shown(page) : view'[k] \in {view[k], onScreen[k], <<>>}
        BY <1>0, <1>6, PageCopies
    <2>2. onScreen = view
        BY <2>1, ReadyIs
    <2> HIDE DEF page
    <2>3. \A k \in Msgs : \/ acks'[k] = 0
                          \/ view'[k] = <<>>
                          \/ view'[k] = view[k] /\ acks'[k] = acks[k]
        BY <2>1, <2>2
    <2>4. \A k \in Msgs : acks'[k] = 0 \/ acks'[k] = acks[k]
        BY <2>1
    <2>5. Held(view', acks')
        BY <1>1, <1>2, <2>3, HeldStays
    <2>6. \A c \in Convs : Held(cache[c].msgs, acks')
        BY <1>1, <1>2, <2>4, HeldStays
    <2>7. QED
        BY <2>1, <2>5, <2>6
<1>7. ASSUME NEW m \in Msgs, NEW sent \in Marks, NEW active \in BOOLEAN, Comes(m, sent, active)
      PROVE  Held(view', acks') /\ \A c \in Convs : Held(cache'[c].msgs, acks')
    <2> DEFINE now == Higher(sent, acks[m])
    <2>1. /\ now \in Marks /\ acks' = [acks EXCEPT ![m] = 0]
          /\ \/ UNCHANGED <<view, cache>>
             \/ view' = AddIfAbsent(view, m, now) /\ UNCHANGED cache
             \/ cache' \in AddedTo(cache, ConvOf[m], m, now, CacheSize) /\ UNCHANGED view
        BY <1>0, <1>7, ComesIs
    <2> HIDE DEF now
    <2>2. \A k \in Msgs : acks'[k] = IF k = m THEN 0 ELSE acks[k]
        BY <1>1, <2>1
    <2>3. \A k \in Msgs : k # m => view'[k] = view[k]
        <3>1. \A k \in Msgs : k # m => AddIfAbsent(view, m, now)[k] = view[k]
            BY <1>1 DEF AddIfAbsent, Lists
        <3>2. QED
            BY <2>1, <3>1
    <2>4. ConvOf[m] \in Convs
        BY ConvOfAssumption
    <2>5. \A c \in Convs, k \in Msgs : k # m => cache'[c].msgs[k] \in {cache[c].msgs[k], <<>>}
        BY <1>1, <2>1, <2>4, AddedToType
    <2>6. Held(view', acks')
        BY <1>1, <1>2, <2>2, <2>3, HeldStays
    <2>7. ASSUME NEW c \in Convs PROVE Held(cache'[c].msgs, acks')
        <3>1. \A k \in Msgs : \/ acks'[k] = 0
                              \/ cache'[c].msgs[k] = <<>>
                              \/ cache'[c].msgs[k] = cache[c].msgs[k] /\ acks'[k] = acks[k]
            BY <2>2, <2>5
        <3>2. cache[c].msgs \in Lists /\ cache'[c].msgs \in Lists /\ Held(cache[c].msgs, acks)
            BY <1>1, <1>2
        <3>3. QED
            BY <1>1, <3>1, <3>2, HeldStays
    <2>8. QED
        BY <2>6, <2>7
<1>8. ASSUME NEW m \in Msgs, NEW to \in Marks, Changes(m, to)
      PROVE  Held(view', acks') /\ \A c \in Convs : Held(cache'[c].msgs, acks')
    <2>1. CASE Receive(m, to)
        <3>1. onScreen = view
            BY <1>8, ReadyIs DEF Changes
        <3>2. /\ \A k \in Msgs \ {m} : acks'[k] = acks[k]
              /\ acks'[m] \in {acks[m], to, Higher(acks[m], to), 0}
              /\ \A c \in Convs : cache'[c].msgs = MarkFirst(cache[c].msgs, m, to)
            BY <1>0, <2>1, ReceiveIs
        <3>3. \A c \in Convs : Held(cache'[c].msgs, acks')
            BY <1>1, <1>2, <3>2, HeldMarked
        <3>4. view' = view \/ view' = MarkFirst(view, m, to)
            BY <1>0, <2>1, ReceiveIs
        <3>5. CASE view' = MarkFirst(view, m, to)
            BY <1>1, <1>2, <3>2, <3>5, HeldMarked
        <3>6. CASE view' = view /\ view[m] = <<>>
            <4>1. \A k \in Msgs : \/ view[k] = <<>> \/ acks'[k] = acks[k]
                BY <3>2, <3>6
            <4>2. Held(view, acks')
                BY <1>1, <1>2, <4>1, HeldStays
            <4>3. QED
                BY <3>3, <3>6, <4>2
        <3>7. CASE view[m] # <<>>
            <4>1. m \in Shown(onScreen)
                BY <3>1, <3>7, ShownIs
            <4>2. view' = MarkFirst(view, m, to)
                BY <2>1, <4>1 DEF Receive
            <4>3. QED
                BY <3>3, <3>5, <4>2
        <3>8. QED
            BY <3>3, <3>4, <3>5, <3>6, <3>7
    <2>2. CASE Remove(m)
        <3>1. /\ \A k \in Msgs : acks'[k] = IF k = m THEN 0 ELSE acks[k]
              /\ view' = Without(view, m)
              /\ \A c \in Convs : cache'[c].msgs = Without(cache[c].msgs, m)
            BY <1>0, <2>2, RemoveIs
        <3>2. /\ \A k \in Msgs : view'[k] = IF k = m THEN <<>> ELSE view[k]
              /\ \A c \in Convs, k \in Msgs :
                    cache'[c].msgs[k] = IF k = m THEN <<>> ELSE cache[c].msgs[k]
            BY <1>1, <3>1, WithoutType
        <3>3. Held(view', acks')
            BY <1>1, <1>2, <3>1, <3>2, HeldStays
        <3>4. ASSUME NEW c \in Convs PROVE Held(cache'[c].msgs, acks')
            <4>1. cache[c].msgs \in Lists /\ cache'[c].msgs \in Lists /\ Held(cache[c].msgs, acks)
                BY <1>1, <1>2
            <4>2. \A k \in Msgs :
                     \/ acks'[k] = 0
                     \/ cache'[c].msgs[k] = <<>>
                     \/ cache'[c].msgs[k] = cache[c].msgs[k] /\ acks'[k] = acks[k]
                BY <3>1, <3>2
            <4>3. QED
                BY <1>1, <4>1, <4>2, HeldStays
        <3>5. QED
            BY <3>3, <3>4
    <2>3. QED
        BY <1>8, <2>1, <2>2 DEF Changes
<1>9. QED
    BY <1>4, <1>5, <1>6, <1>7, <1>8, ScreenStep DEF ScreenMoves

\* With prompt rendering no ACK waits in the buffer for a message that is on screen without it:
\* what is buffered is put on each copy that comes in by a page, an event or the answer of a
\* send, and is dropped when the copy on screen is marked (437-468, 950-985).  The cached copies
\* have to be part of the invariant, since the screen is filled from them.
THEOREM NoAckStranded == Spec => [](Prompt => AckNotStranded)
<1>1. Init => AckInv
    <2> SUFFICES ASSUME Init PROVE AckInv
        OBVIOUS
    <2>1. AckHeld
        BY NothingType DEF Init, AckHeld, Held, NoEntry
    <2>2. QED
        BY <2>1, TypeInvInit DEF AckInv
<1>2. AckInv /\ [Next]_vars => AckInv'
    BY TypeInvStep, AckHeldStep DEF AckInv
<1>3. AckInv => (Prompt => AckNotStranded)
    BY DEF AckInv, AckHeld, Held, AckNotStranded
<1>4. QED
    BY <1>1, <1>2, <1>3, PTL DEF Spec

----------------------------------------------------------------------------
(* Each message once *)

\* What is on screen is not appended again, but for the messages in late.
ViewSeen == Shown(view) \subseteq seen \cup late

\* An answer has each of its rows once.
PagesSingle == \A s \in Slots : \A m \in Msgs : Len(fetches[s].page[m]) \in {0, 1}

\* A list has no more than one copy of any message, but for some.
Single(list, but) == \A m \in Msgs \ but : Len(list[m]) \in {0, 1}

AllSingle == Single(view, late) /\ Single(onScreen, late) /\ \A c \in Convs : Single(cache[c].msgs, late)

DupInv == TypeInv /\ ViewSeen /\ PagesSingle /\ AllSingle

\* Answers stay without duplicates.
LEMMA PagesSingleStep ==
    ASSUME TypeInv, PagesSingle, [Next]_vars
    PROVE  PagesSingle'
<1>1. SUFFICES ASSUME NEW s \in Slots, NEW m \in Msgs
      PROVE  Len(fetches'[s].page[m]) \in {0, 1}
    BY DEF PagesSingle
<1>2. Moved(s) /\ TypeOK /\ fetches[s] \in Fetch /\ mark \in [Msgs -> Marks]
    BY RequestsStep DEF Requested, TypeInv, TypeOK
<1>3. Len(Nothing[m]) \in {0, 1}
    BY EmptySeq DEF Nothing
<1>4. CASE fetches'[s] = fetches[s]
    BY <1>4 DEF PagesSingle
<1>5. CASE fetches'[s] = NoFetch
    BY <1>3, <1>5, NoFetchType
<1>6. CASE /\ fetches[s].kind \notin {"none", "sent"} /\ ~fetches[s].served
           /\ fetches'[s] = Answered(fetches[s])
    <2>1. fetches'[s].page = Copies(PageOf(fetches[s]), mark)
        BY <1>2, <1>6, AnsweredIs
    <2>2. PageOf(fetches[s]) \in SUBSET Msgs
        BY <1>2, <1>6, PageOfIn
    <2>3. QED
        BY <1>2, <2>1, <2>2, CopiesType
<1>7. CASE Begun(fetches'[s])
    BY <1>3, <1>7 DEF Begun
<1>8. QED
    BY <1>2, <1>4, <1>5, <1>6, <1>7 DEF Moved

\* The ref of what is on screen follows only an older page.
LEMMA PageRefs ==
    ASSUME NEW s \in Slots, PageLands(s)
    PROVE  onScreen' = onScreen \/ onScreen' = view'
BY DEF PageLands, LandLatest, LandOlder, LandNewer, LandAround, refs

\* What a page does to the messages that are not appended again.
LEMMA PageSeen ==
    ASSUME TypeOK, ViewSeen, NEW s \in Slots, PageLands(s)
    PROVE  ViewSeen'
<1> DEFINE page == WithAcks(fetches[s].page, acks)
<1>0. /\ view \in Lists /\ onScreen \in Lists /\ seen \in SUBSET Msgs
      /\ Shown(view) \subseteq seen \cup late
    BY DEF TypeOK, ViewSeen
<1>1. page \in Lists /\ Shown(page) = Shown(fetches[s].page)
    BY PageIs
<1>2. CASE LandLatest(s)
    <2> DEFINE merged == Reconciled(onScreen, page, fetches[s].older, fetches[s].atStart)
    <2>1. \/ view' = merged /\ seen' = Shown(merged)
          \/ view' = view /\ seen' = seen /\ late' = late
          \/ /\ view' = view /\ seen' = Shown(onScreen)
             /\ late' = late \cup (Shown(view) \ Shown(onScreen))
        BY <1>2 DEF LandLatest
    <2> HIDE DEF merged
    <2>2. Shown(view') \subseteq seen' \cup late'
        BY <1>0, <2>1
    <2>3. QED
        BY <2>2 DEF ViewSeen, Shown
<1>3. CASE LandOlder(s)
    <2> DEFINE merged == AppendUnique(view, page)
    <2>1. /\ view' = merged
          /\ \/ seen' = Shown(merged)
             \/ seen' = seen /\ late' = late \cup (Shown(merged) \ seen)
        BY <1>3 DEF LandOlder
    <2> HIDE DEF merged
    <2>2. Shown(view') \subseteq seen' \cup late'
        BY <2>1
    <2>3. QED
        BY <2>2 DEF ViewSeen, Shown
<1>4. CASE LandNewer(s)
    <2> DEFINE longer == AppendUnseen(view, page, seen)
    <2>1. view' = longer /\ seen' = seen \cup Shown(page) /\ late' = late
        BY <1>4 DEF LandNewer, history
    <2> HIDE DEF page
    <2>2. Shown(longer) = Shown(view) \cup (Shown(page) \ seen)
        BY <1>0, <1>1, AppendUnseenType
    <2> HIDE DEF longer
    <2>3. Shown(view') \subseteq seen' \cup late'
        BY <1>0, <2>1, <2>2
    <2>4. QED
        BY <2>3 DEF ViewSeen, Shown
<1>5. CASE LandAround(s)
    <2>1. view' = page /\ seen' = Shown(fetches[s].page)
        BY <1>5 DEF LandAround
    <2> HIDE DEF page
    <2>2. Shown(view') \subseteq seen' \cup late'
        BY <1>1, <2>1
    <2>3. QED
        BY <2>2 DEF ViewSeen, Shown
<1>6. QED
    BY <1>2, <1>3, <1>4, <1>5 DEF PageLands

\* What is on screen stays in the set of seen messages.
LEMMA ViewSeenStep ==
    ASSUME TypeInv, ViewSeen, [Next]_vars
    PROVE  ViewSeen'
<1>0. TypeOK /\ view \in Lists /\ Shown(view) \subseteq seen \cup late
    BY DEF TypeInv, TypeOK, ViewSeen
<1>1. SUFFICES ASSUME ~(\E s \in Slots : PageLands(s))
               PROVE  Shown(view') \subseteq seen' \cup late'
    BY <1>0, PageSeen DEF ViewSeen, Shown
<1>2. CASE Still
    BY <1>0, <1>2 DEF Still
<1>3. ASSUME NEW c \in Convs \cup {NoConv}, NEW saved \in [Convs -> Entry], Opens(c, saved)
      PROVE  Shown(view') \subseteq seen' \cup late'
    <2>1. view' = Nothing \/ (view' = saved[c].msgs /\ seen' = Shown(saved[c].msgs))
        BY <1>3 DEF Opens
    <2>2. QED
        BY <2>1, NothingType
<1>4. ASSUME NEW m \in Msgs, NEW sent \in Marks, NEW active \in BOOLEAN, Comes(m, sent, active)
      PROVE  Shown(view') \subseteq seen' \cup late'
    <2> DEFINE now == Higher(sent, acks[m])
    <2>1. /\ now \in Marks
          /\ \/ UNCHANGED <<view, seen>>
             \/ view' = AddIfAbsent(view, m, now) /\ seen' = seen \cup {m}
        BY <1>0, <1>4, ComesIs
    <2>2. late' = late
        BY <1>4 DEF Comes
    <2> HIDE DEF now
    <2>3. Shown(AddIfAbsent(view, m, now)) = Shown(view) \cup {m}
        BY <1>0, <2>1, AddIfAbsentType
    <2>4. QED
        BY <1>0, <2>1, <2>2, <2>3
<1>5. ASSUME NEW m \in Msgs, NEW to \in Marks, Changes(m, to)
      PROVE  Shown(view') \subseteq seen' \cup late'
    <2>1. late' = late
        BY <1>5 DEF Changes
    <2>2. CASE Receive(m, to)
        BY <1>0, <2>1, <2>2, ReceiveIs
    <2>3. CASE Remove(m)
        <3>1. view' = Without(view, m) /\ (seen' = seen \/ seen' = seen \ {m})
            BY <1>0, <2>3, RemoveIs
        <3>2. Shown(Without(view, m)) = Shown(view) \ {m}
            BY <1>0, WithoutType
        <3>3. QED
            BY <1>0, <2>1, <3>1, <3>2
    <2>4. QED
        BY <1>5, <2>2, <2>3 DEF Changes
<1>6. QED
    BY <1>0, <1>1, <1>2, <1>3, <1>4, <1>5, ScreenStep DEF ScreenMoves

\* A list of no copies, and the lists that are made from one with single copies.
LEMMA SingleType ==
    ASSUME NEW list \in Lists, NEW but, Single(list, but), NEW m \in Msgs, NEW to \in Marks
    PROVE  /\ Single(Nothing, but)
           /\ Single(MarkFirst(list, m, to), but)
           /\ Single(Without(list, m), but)
           /\ Single(AddIfAbsent(list, m, to), but)
<1>1. Single(Nothing, but)
    BY EmptySeq DEF Nothing, Single
<1>2. Single(MarkFirst(list, m, to), but)
    BY MarkFirstType DEF Single
<1>3. Single(Without(list, m), but)
    <2>1. \A k \in Msgs : Without(list, m)[k] = <<>> \/ Without(list, m)[k] = list[k]
        BY WithoutType
    <2>2. QED
        BY <2>1, EmptySeq DEF Single
<1>4. Single(AddIfAbsent(list, m, to), but)
    <2>1. \A k \in Msgs : AddIfAbsent(list, m, to)[k] \in {<<to>>, list[k]}
        BY DEF AddIfAbsent, Lists
    <2>2. Len(<<to>>) = 1
        BY OneCopy
    <2>3. QED
        BY <2>1, <2>2 DEF Single
<1>5. QED
    BY <1>1, <1>2, <1>3, <1>4

\* Every step leaves at most one copy, with and without prompt rendering.
LEMMA AllSingleStep ==
    ASSUME DupInv, [Next]_vars
    PROVE  AllSingle'
<1>0. TypeOK /\ TypeOK' /\ TypeInv
    BY TypeInvStep DEF TypeInv, DupInv
<1>1. /\ view \in Lists /\ onScreen \in Lists /\ \A c \in Convs : cache[c].msgs \in Lists
      /\ cache \in [Convs -> Entry]
    BY <1>0 DEF TypeOK, Entry
<1>2. Single(view, late) /\ Single(onScreen, late) /\ \A c \in Convs : Single(cache[c].msgs, late)
    BY DEF DupInv, AllSingle
<1>3. SUFFICES /\ Single(view', late') /\ Single(onScreen', late')
               /\ \A c \in Convs : Single(cache'[c].msgs, late')
    BY DEF AllSingle, Single
<1>4. \A but : Single(Nothing, but)
    BY EmptySeq DEF Nothing, Single
<1>5. CASE Still
    BY <1>2, <1>5 DEF Still
<1>6. ASSUME NEW c \in Convs \cup {NoConv}, NEW saved \in [Convs -> Entry], Opens(c, saved)
      PROVE  /\ Single(view', late') /\ Single(onScreen', late')
             /\ \A d \in Convs : Single(cache'[d].msgs, late')
    <2>1. cache' = saved /\ late' = late /\ (onScreen' = view \/ onScreen' = Nothing)
        BY <1>6 DEF Opens
    <2>2. ASSUME NEW d \in Convs PROVE Single(saved[d].msgs, late)
        <3>1. \/ saved[d] = cache[d] \/ saved[d] = NoEntry
              \/ d = conv /\ saved[d] = Normalized(view, older)
            BY <1>6 DEF Opens
        <3>2. \A k \in Msgs : saved[d].msgs[k] \in {cache[d].msgs[k], view[k], <<>>}
            BY <1>0, <3>1, SavedCopies
        <3>3. Single(cache[d].msgs, late)
            BY <1>2
        <3>4. QED
            BY <1>2, <3>2, <3>3, EmptySeq DEF Single
    <2>3. view' = Nothing \/ (c \in Convs /\ view' = saved[c].msgs)
        BY <1>6 DEF Opens
    <2>4. QED
        BY <1>2, <1>4, <2>1, <2>2, <2>3
<1>7. ASSUME NEW s \in Slots, PageLands(s)
      PROVE  /\ Single(view', late') /\ Single(onScreen', late')
             /\ \A c \in Convs : Single(cache'[c].msgs, late')
    <2> DEFINE page == WithAcks(fetches[s].page, acks)
    <2>1. /\ UNCHANGED cache /\ late \subseteq late'
          /\ \A k \in Msgs : \/ view'[k] \in {view[k], onScreen[k], <<>>, page[k]}
                             \/ k \notin seen /\ view[k] # <<>>
        BY <1>0, <1>7, PageCopies
    <2>2. \A k \in Msgs : Len(page[k]) \in {0, 1}
        BY <1>0, PageIs DEF DupInv, PagesSingle
    <2> HIDE DEF page
    <2>3. onScreen' = onScreen \/ onScreen' = view'
        BY <1>7, PageRefs
    <2>4. ASSUME NEW k \in Msgs \ late PROVE view'[k] \in {view[k], onScreen[k], <<>>, page[k]}
        <3>1. k \in Shown(view) => k \in seen
            BY DEF DupInv, ViewSeen
        <3>2. QED
            BY <2>1, <3>1, ShownIs
    <2>5. \A k \in Msgs \ late : Len(view'[k]) \in {0, 1}
        BY <1>2, <2>2, <2>4, EmptySeq DEF Single
    <2>6. Single(view', late') /\ Single(onScreen, late')
        BY <1>2, <2>1, <2>5 DEF Single
    <2>7. \A c \in Convs : Single(cache[c].msgs, late')
        BY <1>2, <2>1 DEF Single
    <2>8. QED
        BY <2>1, <2>3, <2>6, <2>7
<1>8. ASSUME NEW m \in Msgs, NEW sent \in Marks, NEW active \in BOOLEAN, Comes(m, sent, active)
      PROVE  /\ Single(view', late') /\ Single(onScreen', late')
             /\ \A c \in Convs : Single(cache'[c].msgs, late')
    <2> DEFINE now == Higher(sent, acks[m])
    <2>1. /\ now \in Marks
          /\ \/ UNCHANGED <<view, cache>>
             \/ view' = AddIfAbsent(view, m, now) /\ UNCHANGED cache
             \/ cache' \in AddedTo(cache, ConvOf[m], m, now, CacheSize) /\ UNCHANGED view
        BY <1>0, <1>8, ComesIs
    <2> HIDE DEF now
    <2>2. UNCHANGED <<onScreen, late>> /\ ConvOf[m] \in Convs
        BY <1>8, ConvOfAssumption DEF Comes
    <2>3. Single(view', late)
        BY <1>1, <1>2, <2>1, SingleType
    <2>4. ASSUME NEW c \in Convs PROVE Single(cache'[c].msgs, late)
        <3>1. CASE UNCHANGED cache
            BY <1>2, <3>1
        <3>2. CASE cache' \in AddedTo(cache, ConvOf[m], m, now, CacheSize)
            <4>1. \A k \in Msgs : \/ cache'[c].msgs[k] \in {cache[c].msgs[k], <<>>}
                                  \/ cache'[c].msgs[k] = <<now>>
                BY <1>1, <2>1, <2>2, <3>2, AddedToType
            <4>2. Len(<<now>>) = 1
                BY <2>1, OneCopy
            <4>3. Single(cache[c].msgs, late)
                BY <1>2
            <4>4. QED
                BY <4>1, <4>2, <4>3, EmptySeq DEF Single
        <3>3. QED
            BY <2>1, <3>1, <3>2
    <2>5. QED
        BY <1>2, <2>2, <2>3, <2>4
<1>9. ASSUME NEW m \in Msgs, NEW to \in Marks, Changes(m, to)
      PROVE  /\ Single(view', late') /\ Single(onScreen', late')
             /\ \A c \in Convs : Single(cache'[c].msgs, late')
    <2>1. UNCHANGED <<onScreen, late>>
        BY <1>9 DEF Changes
    <2>2. CASE Receive(m, to)
        <3>1. /\ view' = view \/ view' = MarkFirst(view, m, to)
              /\ \A c \in Convs : cache'[c].msgs = MarkFirst(cache[c].msgs, m, to)
            BY <1>0, <2>2, ReceiveIs
        <3>2. Single(view', late)
            BY <1>1, <1>2, <3>1, SingleType
        <3>3. ASSUME NEW c \in Convs PROVE Single(cache'[c].msgs, late)
            BY <1>1, <1>2, <3>1, SingleType
        <3>4. QED
            BY <1>2, <2>1, <3>2, <3>3
    <2>3. CASE Remove(m)
        <3>1. /\ view' = Without(view, m)
              /\ \A c \in Convs : cache'[c].msgs = Without(cache[c].msgs, m)
            BY <1>0, <2>3, RemoveIs
        <3>2. Single(view', late)
            BY <1>1, <1>2, <3>1, SingleType
        <3>3. ASSUME NEW c \in Convs PROVE Single(cache'[c].msgs, late)
            BY <1>1, <1>2, <3>1, SingleType
        <3>4. QED
            BY <1>2, <2>1, <3>2, <3>3
    <2>4. QED
        BY <1>9, <2>2, <2>3 DEF Changes
<1>10. QED
    BY <1>0, <1>5, <1>6, <1>7, <1>8, <1>9, ScreenStep DEF ScreenMoves

\* A message that comes in an event, in the answer of its send and in pages of several
\* requests is on screen once, and so is its cached copy, also when React renders late: but for
\* the messages whose older page was merged before it was rendered (675), and those that were
\* still unrendered when the seen messages were reset (566).
THEOREM NoDuplicateRows == Spec => []NoDuplicates
<1>1. Init => DupInv
    <2> SUFFICES ASSUME Init PROVE DupInv
        OBVIOUS
    <2>1. \A but : Single(Nothing, but)
        BY EmptySeq DEF Nothing, Single
    <2>2. AllSingle
        BY <2>1 DEF Init, AllSingle, NoEntry
    <2>3. PagesSingle
        BY NoFetchType, EmptySeq DEF Init, PagesSingle, Nothing
    <2>4. ViewSeen
        BY NothingType DEF Init, ViewSeen
    <2>5. QED
        BY <2>2, <2>3, <2>4, TypeInvInit DEF DupInv
<1>2. DupInv /\ [Next]_vars => DupInv'
    BY TypeInvStep, ViewSeenStep, PagesSingleStep, AllSingleStep DEF DupInv
<1>3. DupInv => NoDuplicates
    <2> SUFFICES ASSUME DupInv, NEW m \in Msgs \ late
                 PROVE  Len(view[m]) <= 1 /\ \A c \in Convs : Len(cache[c].msgs[m]) <= 1
        BY DEF NoDuplicates
    <2>1. Len(view[m]) \in {0, 1} /\ \A c \in Convs : Len(cache[c].msgs[m]) \in {0, 1}
        BY DEF DupInv, AllSingle, Single
    <2>2. \A n \in {0, 1} : n <= 1
        OBVIOUS
    <2>3. QED
        BY <2>1, <2>2
<1>4. QED
    BY <1>1, <1>2, <1>3, PTL DEF Spec

----------------------------------------------------------------------------
(* Nothing is known before the server had it *)

Known == stored \cup gone
KnownEvents == {e \in Event : e.msg \in Known}

EventsKnown == events \in Seq(KnownEvents)

RequestsKnown ==
    \A s \in Slots :
       /\ Shown(fetches[s].page) \subseteq Known /\ fetches[s].atStart \subseteq Known
       /\ fetches[s].kind = "sent" => fetches[s].anchor \in Known

ScreenKnown ==
    /\ Shown(view) \subseteq Known /\ Shown(onScreen) \subseteq Known /\ arrived \subseteq Known
    /\ \A c \in Convs : Shown(cache[c].msgs) \subseteq Known

AllKnown == EventsKnown /\ RequestsKnown /\ ScreenKnown

\* What the server had it has or has deleted, for good.
KnownStays == Known \subseteq Known' /\ \A m \in Known : m \in stored' => m \in stored

\* An event is about a message the server has or had.
LEMMA PushKnown ==
    ASSUME TypeInv, EventsKnown, mark' \in [Msgs -> Marks], Known \subseteq Known',
           NEW does \in {"stored", "marked", "deleted"},
           NEW m \in Msgs, m \in Known', Push(does, m)
    PROVE  EventsKnown'
<1> DEFINE e == [does |-> does, msg |-> m, mark |-> mark'[m]]
           later == {f \in Event : f.msg \in Known'}
<1>1. e \in later
    BY DEF Event
<1>2. events' = events \/ events' = Append(events, e)
    BY DEF Push
<1>3. events \in Seq(later)
    <2>1. KnownEvents \subseteq later /\ events \in Seq(KnownEvents)
        BY DEF KnownEvents, EventsKnown
    <2> HIDE DEF later
    <2>2. QED
        BY <2>1, SeqMonotonic
<1> HIDE DEF e, later
<1>4. Append(events, e) \in Seq(later)
    BY <1>1, <1>3, AppendProperties
<1>5. events' \in Seq(later)
    BY <1>2, <1>3, <1>4
<1>6. QED
    BY <1>5 DEF EventsKnown, KnownEvents, Known, later

\* What the server does, and what its events are about.
LEMMA WireKnown ==
    ASSUME TypeInv, EventsKnown, [Next]_vars
    PROVE  KnownStays /\ EventsKnown'
<1>0. /\ TypeOK /\ events \in Seq(KnownEvents) /\ mark' \in [Msgs -> Marks]
      /\ stored \subseteq Msgs
    BY TypeInvStep DEF TypeInv, TypeOK, EventsKnown
<1>1. CASE UNCHANGED server /\ events' \in {events, <<>>}
    <2>1. events' \in Seq(KnownEvents)
        BY <1>0, <1>1, EmptySeq
    <2>2. KnownStays /\ KnownEvents' = KnownEvents
        BY <1>1 DEF KnownStays, Known, KnownEvents, server
    <2>3. QED
        BY <2>1, <2>2 DEF EventsKnown
<1>2. ASSUME NEW m \in NextMessage, stored' = stored \cup {m}, UNCHANGED <<gone, mark, socket>>,
             Push("stored", m)
      PROVE  KnownStays /\ EventsKnown'
    <2>1. m \in Msgs /\ m \notin Known
        BY DEF NextMessage, Known
    <2>2. KnownStays /\ m \in Known'
        BY <1>2, <2>1 DEF KnownStays, Known
    <2>3. QED
        BY <1>0, <1>2, <2>1, <2>2, PushKnown DEF KnownStays
<1>3. ASSUME NEW m \in Msgs, NEW to \in Marks, Mark(m, to)
      PROVE  KnownStays /\ EventsKnown'
    <2>1. KnownStays /\ m \in Known'
        BY <1>3 DEF Mark, KnownStays, Known
    <2>2. Push("marked", m)
        BY <1>3 DEF Mark
    <2>3. QED
        BY <1>0, <2>1, <2>2, PushKnown DEF KnownStays
<1>4. ASSUME NEW m \in Msgs, Delete(m)
      PROVE  KnownStays /\ EventsKnown'
    <2>1. KnownStays /\ m \in Known'
        BY <1>4 DEF Delete, KnownStays, Known
    <2>2. Push("deleted", m)
        BY <1>4 DEF Delete
    <2>3. QED
        BY <1>0, <2>1, <2>2, PushKnown DEF KnownStays
<1>5. CASE Deliver
    <2>1. events # <<>> /\ events' = Tail(events) /\ UNCHANGED server
        BY <1>5 DEF Deliver
    <2>2. events' \in Seq(KnownEvents)
        BY <1>0, <2>1, HeadTailProperties
    <2>3. KnownStays /\ KnownEvents' = KnownEvents
        BY <2>1 DEF KnownStays, Known, KnownEvents, server
    <2>4. QED
        BY <2>2, <2>3 DEF EventsKnown
<1>6. CASE Close \/ Connect \/ Reconnect
    <2>1. UNCHANGED server /\ events' \in {events, <<>>}
        BY <1>6 DEF Close, Connect, Reconnect
    <2>2. QED
        BY <1>1, <2>1
<1>7. CASE World
    <2>1. ASSUME NEW m \in Msgs, Arrive(m) PROVE KnownStays /\ EventsKnown'
        BY <1>2, <2>1 DEF Arrive
    <2>2. ASSUME NEW s \in Slots, FetchFails(s) PROVE KnownStays /\ EventsKnown'
        BY <1>1, <2>2 DEF FetchFails, wire
    <2>3. QED
        BY <1>3, <1>4, <1>6, <1>7, <2>1, <2>2 DEF World
<1>8. CASE User
    <2>1. ASSUME NEW m \in Msgs, Send(m) PROVE KnownStays /\ EventsKnown'
        BY <1>2, <2>1 DEF Send
    <2>2. CASE \/ \E c \in Convs \cup {NoConv}, kind \in {"chat", "info"} : Open(c, kind)
               \/ \E m \in Msgs : Search(m)
               \/ TargetReached \/ Reload \/ JumpToBottom \/ PageUp \/ PageDown
        <3>1. UNCHANGED <<server, wire>>
            BY <2>2 DEF Open, Search, TargetReached, Go, Reload, JumpToBottom, PageUp, PageDown
        <3>2. QED
            BY <1>1, <3>1 DEF wire
    <2>3. QED
        BY <1>8, <2>1, <2>2 DEF User
<1>9. CASE Commit \/ \E s \in Slots : Serve(s) \/ Land(s)
    <2>1. UNCHANGED <<server, wire>> \/ Deliver
        BY <1>9 DEF Commit, Serve, Land, Dropped, LandLatest, LandOlder, LandNewer, LandAround,
                    LandSent
    <2>2. QED
        BY <1>1, <1>5, <2>1 DEF wire
<1>10. CASE UNCHANGED vars
    BY <1>1, <1>10 DEF vars, wire
<1>11. QED
    BY <1>5, <1>6, <1>7, <1>8, <1>9, <1>10 DEF Next, Client

\* Requests and their answers.
LEMMA RequestsKnownStep ==
    ASSUME TypeInv, RequestsKnown, ScreenKnown, KnownStays, [Next]_vars
    PROVE  RequestsKnown'
<1>1. SUFFICES ASSUME NEW s \in Slots
      PROVE  /\ Shown(fetches'[s].page) \subseteq Known'
             /\ fetches'[s].atStart \subseteq Known'
             /\ fetches'[s].kind = "sent" => fetches'[s].anchor \in Known'
    BY DEF RequestsKnown
<1>2. Moved(s) /\ TypeOK /\ fetches[s] \in Fetch /\ mark \in [Msgs -> Marks]
    BY RequestsStep DEF Requested, TypeInv, TypeOK
<1>3. Known \subseteq Known'
    BY DEF KnownStays
<1>4. /\ Shown(fetches[s].page) \subseteq Known /\ fetches[s].atStart \subseteq Known
      /\ fetches[s].kind = "sent" => fetches[s].anchor \in Known
    BY DEF RequestsKnown
<1>5. CASE fetches'[s] = fetches[s]
    BY <1>3, <1>4, <1>5
<1>6. CASE fetches'[s] = NoFetch
    BY <1>6, NoFetchType, NothingType
<1>7. CASE /\ fetches[s].kind \notin {"none", "sent"} /\ ~fetches[s].served
           /\ fetches'[s] = Answered(fetches[s])
    <2>1. /\ fetches'[s].page = Copies(PageOf(fetches[s]), mark)
          /\ fetches'[s].kind = fetches[s].kind /\ fetches'[s].atStart = fetches[s].atStart
        BY <1>2, <1>7, AnsweredIs
    <2>2. PageOf(fetches[s]) \subseteq Rows(fetches[s].conv) /\ PageOf(fetches[s]) \in SUBSET Msgs
        BY <1>2, <1>7, PageOfIn
    <2>3. Shown(fetches'[s].page) = PageOf(fetches[s])
        BY <1>2, <2>1, <2>2, CopiesType
    <2>4. Rows(fetches[s].conv) \subseteq Known
        BY DEF Rows, Known
    <2>5. QED
        BY <1>3, <1>4, <1>7, <2>1, <2>2, <2>3, <2>4
<1>8. CASE Begun(fetches'[s])
    <2>1. Shown(fetches'[s].page) = {}
        BY <1>8, NothingType DEF Begun
    <2>2. fetches'[s].atStart \subseteq Known
        BY <1>8 DEF Begun, ScreenKnown
    <2>3. fetches'[s].kind = "sent" => fetches'[s].anchor \in Known'
        BY <1>8 DEF Begun, Known
    <2>4. QED
        BY <1>3, <2>1, <2>2, <2>3
<1>9. QED
    BY <1>2, <1>5, <1>6, <1>7, <1>8 DEF Moved

\* An event and the answer of a send bring a message the server has or had.
LEMMA ComesKnown ==
    ASSUME TypeInv, AllKnown, NEW m, NEW sent, NEW active, Comes(m, sent, active)
    PROVE  m \in Known
<1>1. CASE events # <<>> /\ m = Head(events).msg
    <2>1. Head(events) \in KnownEvents
        BY <1>1, HeadTailProperties DEF AllKnown, EventsKnown
    <2>2. QED
        BY <1>1, <2>1 DEF KnownEvents
<1>2. CASE \E s \in Slots : fetches[s].kind = "sent" /\ m = fetches[s].anchor
    BY <1>2 DEF AllKnown, RequestsKnown
<1>3. QED
    BY <1>1, <1>2 DEF Comes

\* What the screen and the cache hold.
LEMMA ScreenKnownStep ==
    ASSUME TypeInv, AllKnown, KnownStays, [Next]_vars
    PROVE  ScreenKnown'
<1>0. /\ TypeOK /\ view \in Lists /\ onScreen \in Lists /\ cache \in [Convs -> Entry]
      /\ \A c \in Convs : cache[c].msgs \in Lists
    BY DEF TypeInv, TypeOK, Entry
<1>1. /\ \A k \in Msgs : k \in Shown(view) \/ k \in Shown(onScreen) => k \in Known
      /\ \A c \in Convs, k \in Msgs : k \in Shown(cache[c].msgs) => k \in Known
      /\ arrived \subseteq Known
    BY DEF AllKnown, ScreenKnown
<1> DEFINE Goal == /\ \A k \in Msgs : k \in Shown(view') \/ k \in Shown(onScreen') => k \in Known
                   /\ \A c \in Convs, k \in Msgs : k \in Shown(cache'[c].msgs) => k \in Known
                   /\ arrived' \subseteq Known
<1>2. SUFFICES Goal
    <2>1. Known \subseteq Known'
        BY DEF KnownStays
    <2>2. \A list : Shown(list) \subseteq Msgs
        BY DEF Shown
    <2>3. /\ Shown(view') \subseteq Known' /\ Shown(onScreen') \subseteq Known'
          /\ arrived' \subseteq Known' /\ \A c \in Convs : Shown(cache'[c].msgs) \subseteq Known'
        BY <2>1, <2>2
    <2>4. QED
        BY <2>3 DEF ScreenKnown, Shown
<1>3. CASE Still
    BY <1>1, <1>3 DEF Still
<1>4. ASSUME NEW c \in Convs \cup {NoConv}, NEW saved \in [Convs -> Entry], Opens(c, saved)
      PROVE  Goal
    <2>1. ASSUME NEW d \in Convs, NEW k \in Msgs, k \in Shown(saved[d].msgs)
          PROVE  k \in Known
        <3>1. \/ saved[d] = cache[d] \/ saved[d] = NoEntry
              \/ d = conv /\ saved[d] = Normalized(view, older)
            BY <1>4 DEF Opens
        <3>2. saved[d].msgs[k] \in {cache[d].msgs[k], view[k], <<>>}
            BY <1>0, <3>1, SavedCopies
        <3>3. QED
            BY <1>1, <2>1, <3>2, ShownIs
    <2>2. /\ cache' = saved /\ arrived' = {} /\ onScreen' \in {view, Nothing}
          /\ view' = Nothing \/ (c \in Convs /\ view' = saved[c].msgs)
        BY <1>4 DEF Opens
    <2>3. QED
        BY <1>1, <2>1, <2>2, NothingType
<1>5. ASSUME NEW s \in Slots, PageLands(s)
      PROVE  Goal
    <2> DEFINE page == WithAcks(fetches[s].page, acks)
    <2>1. /\ UNCHANGED cache
          /\ \A k \in Msgs : k \in Shown(view') =>
                 k \in Shown(view) \/ k \in Shown(onScreen) \/ k \in Shown(page)
        BY <1>0, <1>5, PageCopies
    <2>2. Shown(page) \subseteq Known
        BY <1>0, PageIs DEF AllKnown, RequestsKnown
    <2>3. onScreen' = onScreen \/ onScreen' = view'
        BY <1>5, PageRefs
    <2>4. arrived' \subseteq arrived
        BY <1>5 DEF PageLands, LandLatest, LandOlder, LandNewer, LandAround, history
    <2> HIDE DEF page
    <2>5. QED
        BY <1>1, <2>1, <2>2, <2>3, <2>4
<1>6. ASSUME NEW m \in Msgs, NEW sent \in Marks, NEW active \in BOOLEAN, Comes(m, sent, active)
      PROVE  Goal
    <2> DEFINE now == Higher(sent, acks[m])
    <2>1. /\ now \in Marks
          /\ \/ UNCHANGED <<view, cache, arrived>>
             \/ /\ view' = AddIfAbsent(view, m, now) /\ UNCHANGED cache
                /\ arrived' = arrived \cup {m}
             \/ /\ cache' \in AddedTo(cache, ConvOf[m], m, now, CacheSize)
                /\ UNCHANGED <<view, arrived>>
        BY <1>0, <1>6, ComesIs
    <2>2. UNCHANGED onScreen
        BY <1>6 DEF Comes
    <2> HIDE DEF now
    <2>3. m \in Known /\ ConvOf[m] \in Convs
        BY <1>6, ComesKnown, ConvOfAssumption
    <2>4. CASE UNCHANGED <<view, cache, arrived>>
        BY <1>1, <2>2, <2>4
    <2>5. CASE view' = AddIfAbsent(view, m, now) /\ UNCHANGED cache /\ arrived' = arrived \cup {m}
        <3>1. Shown(view') = Shown(view) \cup {m}
            BY <1>0, <2>1, <2>5, AddIfAbsentType
        <3>2. QED
            BY <1>1, <2>2, <2>3, <2>5, <3>1
    <2>6. CASE /\ cache' \in AddedTo(cache, ConvOf[m], m, now, CacheSize)
               /\ UNCHANGED <<view, arrived>>
        <3>1. \A d \in Convs, k \in Msgs : \/ cache'[d].msgs[k] \in {cache[d].msgs[k], <<>>}
                                           \/ d = ConvOf[m] /\ k = m
            BY <1>0, <2>1, <2>3, <2>6, AddedToType
        <3>2. QED
            BY <1>1, <2>2, <2>3, <2>6, <3>1, ShownIs
    <2>7. QED
        BY <2>1, <2>4, <2>5, <2>6
<1>7. ASSUME NEW m \in Msgs, NEW to \in Marks, Changes(m, to)
      PROVE  Goal
    <2>1. UNCHANGED onScreen
        BY <1>7 DEF Changes
    <2>2. CASE Receive(m, to)
        <3>1. /\ Shown(view') = Shown(view) /\ arrived' = arrived
              /\ \A c \in Convs : cache'[c].msgs = MarkFirst(cache[c].msgs, m, to)
            BY <1>0, <2>2, ReceiveIs
        <3>2. \A c \in Convs : Shown(cache'[c].msgs) = Shown(cache[c].msgs)
            BY <1>0, <3>1, MarkFirstType
        <3>3. QED
            BY <1>1, <2>1, <3>1, <3>2
    <2>3. CASE Remove(m)
        <3>1. /\ view' = Without(view, m) /\ arrived' = arrived \ {m}
              /\ \A c \in Convs : cache'[c].msgs = Without(cache[c].msgs, m)
            BY <1>0, <2>3, RemoveIs
        <3>2. /\ Shown(view') \subseteq Shown(view)
              /\ \A c \in Convs : Shown(cache'[c].msgs) \subseteq Shown(cache[c].msgs)
            BY <1>0, <3>1, WithoutType
        <3>3. QED
            BY <1>1, <2>1, <3>1, <3>2
    <2>4. QED
        BY <1>7, <2>2, <2>3 DEF Changes
<1>8. QED
    BY <1>0, <1>3, <1>4, <1>5, <1>6, <1>7, ScreenStep DEF ScreenMoves

\* All messages anywhere in the client are known to the server.
LEMMA AllKnownStep ==
    ASSUME TypeInv, AllKnown, [Next]_vars
    PROVE  KnownStays /\ AllKnown'
<1>1. KnownStays /\ EventsKnown'
    BY WireKnown DEF AllKnown
<1>2. QED
    BY <1>1, RequestsKnownStep, ScreenKnownStep DEF AllKnown

----------------------------------------------------------------------------
(* Answers do not remove what came after their requests *)

\* The newest page of a conversation has all messages of its range that were there when it was
\* asked for and have not been deleted since.
SnapshotWhole ==
    \A s \in Slots : fetches[s].kind \in {"latest", "reconcile"} /\ fetches[s].served =>
        \A m \in fetches[s].atStart \cap stored :
           ConvOf[m] = fetches[s].conv /\ Covers(fetches[s].page, fetches[s].older, m)
               => m \in Shown(fetches[s].page)

\* Answers stay whole: what they were asked for is known, so it cannot come to the server later.
LEMMA SnapshotWholeStep ==
    ASSUME TypeInv, AllKnown, SnapshotWhole, [Next]_vars
    PROVE  SnapshotWhole'
<1>1. SUFFICES ASSUME NEW s \in Slots,
                      fetches'[s].kind \in {"latest", "reconcile"}, fetches'[s].served,
                      NEW m \in fetches'[s].atStart \cap stored',
                      ConvOf[m] = fetches'[s].conv,
                      Covers(fetches'[s].page, fetches'[s].older, m)
               PROVE  m \in Shown(fetches'[s].page)
    BY DEF SnapshotWhole, Covers, Shown
<1>2. /\ Moved(s) /\ TypeOK /\ fetches[s] \in Fetch /\ mark \in [Msgs -> Marks]
      /\ stored \subseteq Msgs
    BY RequestsStep DEF Requested, TypeInv, TypeOK
<1>3. m \in Known => m \in stored
    BY <1>1, AllKnownStep DEF KnownStays
<1>4. fetches[s].atStart \subseteq Known
    BY DEF AllKnown, RequestsKnown
<1>5. CASE fetches'[s] = fetches[s]
    BY <1>1, <1>3, <1>4, <1>5 DEF SnapshotWhole
<1>6. CASE fetches'[s] = NoFetch
    BY <1>1, <1>6, NoFetchType
<1>7. CASE /\ fetches[s].kind \notin {"none", "sent"} /\ ~fetches[s].served
           /\ fetches'[s] = Answered(fetches[s])
    <2> DEFINE page == PageOf(fetches[s])
               rows == Rows(fetches[s].conv)
    <2>1. /\ fetches'[s].page = Copies(page, mark)
          /\ fetches'[s].kind = fetches[s].kind /\ fetches'[s].conv = fetches[s].conv
          /\ fetches'[s].atStart = fetches[s].atStart
          /\ fetches[s].kind # "around" => fetches'[s].older = (Cardinality(page) >= PageSize)
        BY <1>2, <1>7, AnsweredIs
    <2>2. fetches[s].kind \in {"latest", "reconcile"}
        BY <1>1, <2>1
    <2>3. fetches'[s].older = (Cardinality(page) >= PageSize)
        BY <2>1, <2>2
    <2>4. page = Newest(rows, PageSize)
        BY <2>2 DEF PageOf
    <2>5. rows \in SUBSET Msgs /\ page \in SUBSET Msgs
        BY <1>2, <2>4 DEF Rows, Newest
    <2>6. m \in rows
        BY <1>1, <1>3, <1>4, <2>1 DEF Rows
    <2> HIDE DEF page, rows
    <2>7. Shown(fetches'[s].page) = page
        BY <1>2, <2>1, <2>5, CopiesType
    <2>8. PageSize \in Nat /\ Cardinality(page) \in Nat
        BY <2>5, FiniteMsgs, SizesAssumption
    <2>9. CASE Cardinality(page) >= PageSize
        <3>1. PICK low \in page : low <= m
            BY <1>1, <2>3, <2>7, <2>9 DEF Covers
        <3>2. m \in page
            BY <2>4, <2>5, <2>6, <2>8, <3>1, NewestUpward
        <3>3. QED
            BY <2>7, <3>2
    <2>10. CASE ~(Cardinality(page) >= PageSize)
        <3>1. Cardinality(Newest(rows, PageSize)) < PageSize
            BY <2>4, <2>8, <2>10
        <3>2. page = rows
            BY <2>4, <2>5, <2>8, <3>1, NewestAll
        <3>3. QED
            BY <2>6, <2>7, <3>2
    <2>11. QED
        BY <2>9, <2>10
<1>8. CASE Begun(fetches'[s])
    BY <1>1, <1>8 DEF Begun
<1>9. QED
    BY <1>2, <1>5, <1>6, <1>7, <1>8 DEF Moved

ArrivedInv == OwnInv /\ AllKnown /\ SnapshotWhole /\ (Prompt => ArrivedStays)

\* A page that comes in keeps what the socket put on screen.
LEMMA PageKeeps ==
    ASSUME Prompt, TypeInv, OwnMessages, SnapshotWhole,
           NEW s \in Slots, PageLands(s),
           NEW m \in arrived', m \in stored, m \in Shown(view)
    PROVE  m \in Shown(view')
<1> DEFINE page == WithAcks(fetches[s].page, acks)
<1>0. TypeOK /\ view \in Lists /\ onScreen \in Lists /\ seen \in SUBSET Msgs
    BY DEF TypeInv, TypeOK
<1>1. page \in Lists /\ Shown(page) = Shown(fetches[s].page)
    BY <1>0, PageIs
<1>2. CASE LandLatest(s)
    <2> DEFINE full == fetches[s].older
               atStart == fetches[s].atStart
               merged == Reconciled(onScreen, page, full, atStart)
    <2>1. onScreen = view
        BY <1>2, ReadyIs DEF LandLatest, Landing
    <2>2. /\ fetches[s].kind \in {"latest", "reconcile"} /\ fetches[s].served
          /\ fetches[s].conv = conv
        BY <1>2 DEF LandLatest, Landing, Wanted
    <2>3. view' = merged \/ view' = view
        BY <1>2 DEF LandLatest
    <2>4. ConvOf[m] = conv
        BY DEF OwnMessages
    <2>5. Covers(page, full, m) <=> Covers(fetches[s].page, full, m)
        BY <1>1 DEF Covers
    <2>6. m \in atStart /\ Covers(page, full, m) => m \in Shown(page)
        BY <1>1, <2>2, <2>4, <2>5 DEF SnapshotWhole
    <2> HIDE DEF page
    <2>7. m \notin Deleted(onScreen, page, full, atStart)
        BY <2>6 DEF Deleted
    <2>8. Shown(merged) = Shown(page) \cup (Shown(onScreen) \ Deleted(onScreen, page, full, atStart))
        BY <1>0, <1>1, ReconciledType
    <2> HIDE DEF merged
    <2>9. QED
        BY <2>1, <2>3, <2>7, <2>8
<1>3. CASE LandOlder(s)
    <2> DEFINE merged == AppendUnique(view, page)
    <2>1. view' = merged
        BY <1>3 DEF LandOlder
    <2> HIDE DEF page
    <2>2. Shown(merged) = Shown(view) \cup Shown(page)
        BY <1>0, <1>1, AppendUniqueType
    <2>3. QED
        BY <2>1, <2>2
<1>4. CASE LandNewer(s)
    <2> DEFINE longer == AppendUnseen(view, page, seen)
    <2>1. view' = longer
        BY <1>4 DEF LandNewer
    <2> HIDE DEF page
    <2>2. Shown(longer) = Shown(view) \cup (Shown(page) \ seen)
        BY <1>0, <1>1, AppendUnseenType
    <2>3. QED
        BY <2>1, <2>2
<1>5. CASE LandAround(s)
    <2>1. view' = page /\ m \in Shown(fetches[s].page)
        BY <1>5 DEF LandAround
    <2> HIDE DEF page
    <2>2. QED
        BY <1>1, <2>1
<1>6. QED
    BY <1>2, <1>3, <1>4, <1>5 DEF PageLands

\* With prompt rendering every step keeps what the socket put on screen.
LEMMA ArrivedStaysStep ==
    ASSUME Prompt, ArrivedInv, [Next]_vars
    PROVE  ArrivedStays'
<1>0. /\ TypeInv /\ TypeOK /\ view \in Lists /\ OwnMessages /\ SnapshotWhole /\ AllKnown
      /\ \A k \in arrived : k \in Msgs /\ (k \in stored => k \in Shown(view))
    BY DEF ArrivedInv, OwnInv, TypeInv, TypeOK, ArrivedStays
<1>1. SUFFICES ASSUME NEW m \in arrived', m \in stored' PROVE m \in Shown(view')
    BY DEF ArrivedStays, Shown
<1>2. m \in arrived => m \in stored /\ m \in Shown(view)
    <2>1. arrived \subseteq Known
        BY <1>0 DEF AllKnown, ScreenKnown
    <2>2. m \in Known => m \in stored
        BY <1>0, <1>1, AllKnownStep DEF KnownStays
    <2>3. QED
        BY <1>0, <2>1, <2>2
<1>3. CASE Still
    BY <1>1, <1>2, <1>3 DEF Still
<1>4. ASSUME NEW c \in Convs \cup {NoConv}, NEW saved \in [Convs -> Entry], Opens(c, saved)
      PROVE  m \in Shown(view')
    BY <1>1, <1>4 DEF Opens
<1>5. ASSUME NEW s \in Slots, PageLands(s)
      PROVE  m \in Shown(view')
    <2>1. m \in arrived
        BY <1>1, <1>5 DEF PageLands, LandLatest, LandOlder, LandNewer, LandAround, history
    <2>2. QED
        BY <1>0, <1>1, <1>2, <1>5, <2>1, PageKeeps
<1>6. ASSUME NEW k \in Msgs, NEW sent \in Marks, NEW active \in BOOLEAN, Comes(k, sent, active)
      PROVE  m \in Shown(view')
    <2> DEFINE now == Higher(sent, acks[k])
    <2>1. /\ now \in Marks
          /\ \/ view' = view /\ arrived' = arrived
             \/ view' = AddIfAbsent(view, k, now) /\ arrived' = arrived \cup {k}
        BY <1>0, <1>6, ComesIs
    <2> HIDE DEF now
    <2>2. Shown(AddIfAbsent(view, k, now)) = Shown(view) \cup {k}
        BY <1>0, <2>1, AddIfAbsentType
    <2>3. QED
        BY <1>1, <1>2, <2>1, <2>2
<1>7. ASSUME NEW k \in Msgs, NEW to \in Marks, Changes(k, to)
      PROVE  m \in Shown(view')
    <2>1. CASE Receive(k, to)
        <3>1. Shown(view') = Shown(view) /\ arrived' = arrived
            BY <1>0, <2>1, ReceiveIs
        <3>2. QED
            BY <1>1, <1>2, <3>1
    <2>2. CASE Remove(k)
        <3>1. view' = Without(view, k) /\ arrived' = arrived \ {k}
            BY <1>0, <2>2, RemoveIs
        <3>2. Shown(Without(view, k)) = Shown(view) \ {k}
            BY <1>0, WithoutType
        <3>3. QED
            BY <1>1, <1>2, <3>1, <3>2
    <2>3. QED
        BY <1>7, <2>1, <2>2 DEF Changes
<1>8. QED
    BY <1>0, <1>3, <1>4, <1>5, <1>6, <1>7, ScreenStep DEF ScreenMoves

\* With prompt rendering, a message the socket put on this screen is there for as long as the
\* server has it: the answer of a request that was sent before removes only messages that were
\* there when it was sent (229), and the newest page lacks none of those in its range but
\* deleted ones.
THEOREM ArrivedAreKept == Spec => [](Prompt => ArrivedStays)
<1>1. Init => ArrivedInv
    <2> SUFFICES ASSUME Init PROVE ArrivedInv
        OBVIOUS
    <2>1. TypeInv
        BY TypeInvInit
    <2>2. \A s \in Slots : fetches[s] = NoFetch
        BY DEF Init
    <2>3. FetchesOwn /\ RequestsKnown /\ SnapshotWhole
        BY <2>2, NoFetchType, NothingType DEF FetchesOwn, RequestsKnown, SnapshotWhole
    <2>4. OwnMessages /\ ScreenKnown /\ ArrivedStays
        BY NothingType DEF Init, OwnMessages, ScreenKnown, ArrivedStays, NoEntry
    <2>5. EventsKnown
        BY EmptySeq DEF Init, EventsKnown
    <2>6. QED
        BY <2>1, <2>3, <2>4, <2>5 DEF ArrivedInv, OwnInv, AllKnown
<1>2. ArrivedInv /\ [Next]_vars => ArrivedInv'
    <2> SUFFICES ASSUME ArrivedInv, [Next]_vars PROVE ArrivedInv'
        OBVIOUS
    <2>1. OwnInv'
        BY TypeInvStep, FetchesOwnStep, OwnMessagesStep DEF OwnInv, ArrivedInv
    <2>2. AllKnown' /\ SnapshotWhole'
        BY AllKnownStep, SnapshotWholeStep DEF OwnInv, ArrivedInv
    <2>3. Prompt => ArrivedStays'
        BY ArrivedStaysStep
    <2>4. QED
        BY <2>1, <2>2, <2>3 DEF ArrivedInv
<1>3. ArrivedInv => (Prompt => ArrivedStays)
    BY DEF ArrivedInv
<1>4. QED
    BY <1>1, <1>2, <1>3, PTL DEF Spec
=============================================================================
