----------------------------- MODULE UnreadCounts -----------------------------
(***************************************************************************)
(* The unread counts of one browser.  The server has a read cursor for     *)
(* every conversation; the client has a count and the first unread message *)
(* of each.  Counts move with the events of the WebSocket, and are replaced*)
(* by snapshots that GET /unreads returns.  What the user reads is told to *)
(* the server by POSTs that nobody waits for, so that snapshots, events and*)
(* POSTs overtake each other.                                              *)
(*                                                                         *)
(* Messages are numbered in the order in which the server stores them.     *)
(* All of them are incoming.  The newest part of an open conversation is on*)
(* screen, or, after a jump to a message of a search, a part in the middle *)
(* of it.  Mention flags move with the counts and are left out.            *)
(***************************************************************************)
EXTENDS Integers, Sequences, FiniteSets

CONSTANTS
    Convs,      \* conversations
    Channels,   \* those of them that are channels, the others are contacts
    NoConv,     \* a page that is not a conversation
    N,          \* number of messages
    ConvOf,     \* the conversation of each message
    Attempts,   \* UNREAD_FETCH_MAX_ATTEMPTS
    MaxLoads,   \* bound: GET requests under way
    MaxPosts,   \* bound: POST requests under way
    Budgets     \* bound: combinations of how often each of Kinds happens

\* What the bounds count.
Kinds == {"open",    \* navigation
          "search",  \* jumps to a message
          "bulk",    \* bulk reads
          "unread",  \* messages marked unread
          "render",  \* renders of the same conversation with a new object
          "refresh", \* refreshes without a reconnect
          "drop",    \* socket closed
          "fail"}    \* requests that fail

Msgs == 1 .. N

ASSUME ConvsAssumption ==
    NoConv \notin Convs /\ Channels \subseteq Convs /\ N \in Nat /\ ConvOf \in [Msgs -> Convs]
ASSUME AttemptsAssumption == Attempts \in Nat \ {0}
ASSUME BoundsAssumption ==
    Budgets \subseteq [Kinds -> Nat] /\ MaxLoads \in Nat /\ MaxPosts \in Nat

\* A GET /unreads with what became of it: whether its caller marks the open conversation
\* read in the end, whether it is the newest call, whether the counts changed since it was
\* sent, and the unread messages it was answered.
Load == [on : BOOLEAN, marks : BOOLEAN, newest : BOOLEAN, stale : BOOLEAN,
         attempt : 1 .. Attempts, served : BOOLEAN, unread : SUBSET Msgs]
NoLoad == [on |-> FALSE, marks |-> FALSE, newest |-> FALSE, stale |-> FALSE,
           attempt |-> 1, served |-> FALSE, unread |-> {}]

\* A POST: a conversation is read, or read through a message, or unread from a message
\* on (and then the answer), or all are read: the contacts first, then the channels.
Post == [does : {"none", "read", "through", "unread", "marked", "all", "channels"},
         conv : Convs \cup {NoConv}, msg : 0 .. N]
NoPost == [does |-> "none", conv |-> NoConv, msg |-> 0]

VARIABLES
    stored,    \* the server: number of messages it has
    readTo,    \* the server: last_read_message_id of each conversation
    socket,    \* whether the WebSocket is connected
    events,    \* messages on their way to the client
    active,    \* activeConvRef
    shown,     \* messages that were on screen
    middle,    \* hasNewerMessagesRef: the list of the open conversation ends before its newest
    counts,    \* unreadCounts
    first,     \* firstUnreadIds, or 0
    boundary,  \* pendingReadBoundaryRef with its timer, or 0
    hushed,    \* suppressAutoReadKeyRef
    loads,     \* GET requests under way
    posts,     \* POST requests under way
    trust,     \* history: "full" after a current snapshot that drops no count of a conversation
               \* marked unread, "none" before it and once the socket closed or a message was
               \* marked unread since, "lost" for good once a POST did not reach the server
    kept,      \* history: the message the user marked unread while nothing else was going on
    owed,      \* history: messages read as they came, and not marked unread since
    passed,    \* history: messages that came while their conversation was open in the middle,
               \* and that no snapshot counted since
    left       \* what is left of the budgets

server == <<stored, readTo>>
wire == <<socket, events>>
page == <<active, shown, middle>>
badges == <<counts, first>>
history == <<trust, kept, owed, passed>>
vars == <<server, wire, page, badges, boundary, hushed, loads, posts, history, left>>

----------------------------------------------------------------------------
Rows(c) == {m \in 1 .. stored : ConvOf[m] = c}
Unread(c) == {m \in Rows(c) : m > readTo[c]}

Lowest(S) == CHOOSE m \in S : \A k \in S : m <= k
Higher(x, y) == IF x > y THEN x ELSE y

Spend(kind) == left[kind] > 0 /\ left' = [left EXCEPT ![kind] = @ - 1]

FreeLoads == {s \in 1 .. MaxLoads : ~loads[s].on}
FreePosts(ps) == {s \in 1 .. MaxPosts : ps[s].does = "none"}

Trusted(current) == IF trust = "lost" THEN "lost" ELSE IF current THEN "full" ELSE "none"

\* A POST is sent.
Sent(ps, does, c, m) ==
    [ps EXCEPT ![Lowest(FreePosts(ps))] = [does |-> does, conv |-> c, msg |-> m]]

\* flushPendingRead: the POST of the pending boundary, if there is one.
Flushed(ps) == IF boundary = 0 THEN ps ELSE Sent(ps, "through", ConvOf[boundary], boundary)

\* Every local change makes the snapshots under way stale.
Staled(ls) == [s \in DOMAIN ls |-> [ls[s] EXCEPT !.stale = ls[s].newest]]

\* loadUnreads: only the newest call may apply its answer; what the others are answered no
\* longer matters.
Started(ls, marks) ==
    [s \in DOMAIN ls |->
        IF s = Lowest({t \in DOMAIN ls : ~ls[t].on})
        THEN [NoLoad EXCEPT !.on = TRUE, !.marks = marks, !.newest = TRUE]
        ELSE [NoLoad EXCEPT !.on = ls[s].on, !.marks = ls[s].marks, !.served = ls[s].served]]

Init ==
    /\ stored = 0 /\ readTo = [c \in Convs |-> 0]
    /\ socket = "up" /\ events = <<>>
    /\ active = NoConv /\ shown = {} /\ middle = FALSE
    /\ counts = [c \in Convs |-> 0] /\ first = [c \in Convs |-> 0]
    /\ boundary = 0 /\ hushed = NoConv
    /\ loads = Started([s \in 1 .. MaxLoads |-> NoLoad], FALSE)
    /\ posts = [s \in 1 .. MaxPosts |-> NoPost]
    /\ trust = "none" /\ kept = 0 /\ owed = {} /\ passed = {}
    /\ left \in Budgets

----------------------------------------------------------------------------
(* The server, the socket and the message list. *)

Arrive ==
    /\ stored < N
    /\ stored' = stored + 1
    /\ events' = IF socket = "up" THEN Append(events, stored') ELSE events
    /\ UNCHANGED <<readTo, socket, page, badges, boundary, hushed, loads, posts,
                   history, left>>

\* The newest page of the open conversation lands.
PageShows ==
    /\ ~middle /\ ~(Rows(active) \subseteq shown)
    /\ shown' = shown \cup Rows(active)
    /\ UNCHANGED <<server, wire, active, middle, badges, boundary, hushed, loads, posts, history,
                   left>>

\* The page around a message of the open conversation lands; newer rows may have come since
\* it was read.
AroundShows ==
    /\ Spend("search")
    /\ \E lo, hi \in Rows(active) :
           /\ shown' = shown \cup {m \in Rows(active) : lo <= m /\ m <= hi}
           /\ middle' \in {FALSE, \E m \in Rows(active) : hi < m}
    /\ UNCHANGED <<server, wire, active, badges, boundary, hushed, loads, posts, history>>

ServeLoad(s) ==
    /\ loads[s].on /\ ~loads[s].served
    /\ loads' = [loads EXCEPT ![s].served = TRUE,
                              ![s].unread = {m \in Msgs : loads[s].newest /\ m \in Unread(ConvOf[m])}]
    /\ UNCHANGED <<server, wire, page, badges, boundary, hushed, posts, history, left>>

Newest(c) == IF Rows(c) = {} THEN 0 ELSE CHOOSE m \in Rows(c) : \A k \in Rows(c) : k <= m

\* A request reads a whole conversation: marking all read updates the contacts and then, in
\* a second transaction, the channels.
Reads(p, c) ==
    \/ p.does = "read" /\ p.conv = c
    \/ p.does = "all" /\ c \notin Channels
    \/ p.does = "channels" /\ c \in Channels

Answered(p) ==
    CASE p.does = "unread" -> [p EXCEPT !.does = "marked"]
      [] p.does = "all" -> [p EXCEPT !.does = "channels"]
      [] OTHER -> NoPost

\* Reading through a message never moves the cursor back; marking unread does, also for what
\* was seen meanwhile.
ServePost(s) ==
    LET p == posts[s]
    IN  /\ p.does \notin {"none", "marked"}
        /\ readTo' = [c \in Convs |->
              CASE Reads(p, c) -> Newest(c)
                [] p.does = "through" /\ p.conv = c -> Higher(readTo[c], p.msg)
                [] p.does = "unread" /\ p.conv = c -> p.msg - 1
                [] OTHER -> readTo[c]]
        /\ posts' = [posts EXCEPT ![s] = Answered(p)]
        /\ owed' = IF p.does = "unread" THEN {k \in owed : ConvOf[k] # p.conv \/ k < p.msg}
                   ELSE owed
        /\ UNCHANGED <<stored, wire, page, badges, boundary, hushed, loads, trust, kept,
                       passed, left>>

\* A POST is lost; the client only logs it.
PostFails(s) ==
    /\ posts[s].does \notin {"none", "marked"}
    /\ Spend("fail")
    /\ posts' = [posts EXCEPT ![s] = NoPost]
    /\ trust' = "lost" /\ owed' = {} /\ UNCHANGED <<kept, passed>>
    /\ UNCHANGED <<server, wire, page, badges, boundary, hushed, loads>>

Close ==
    /\ socket = "up"
    /\ Spend("drop")
    /\ socket' = "down" /\ events' = <<>>
    /\ trust' = Trusted(FALSE) /\ UNCHANGED <<kept, owed, passed>>
    /\ UNCHANGED <<server, page, badges, boundary, hushed, loads, posts>>

----------------------------------------------------------------------------
(* Snapshots. *)

\* A reconnect refreshes the counts, and so do a deletion, a filter, a muted channel, ...
Refresh ==
    /\ IF socket = "down" THEN UNCHANGED left ELSE Spend("refresh")
    /\ socket' = "up"
    /\ FreeLoads # {} /\ loads' = Started(loads, TRUE)
    /\ UNCHANGED <<server, events, page, badges, boundary, hushed, posts, history>>

\* A mutant: the open conversation keeps its count.
CountedAll(S) == [c \in Convs |-> Cardinality({m \in S : ConvOf[m] = c})]
\* applyUnreads: the user is looking at the open conversation.
Counted(S) ==
    [c \in Convs |-> IF c = active THEN 0 ELSE Cardinality({m \in S : ConvOf[m] = c})]
FirstOf(S) ==
    [c \in Convs |-> LET own == {m \in S : ConvOf[m] = c}
                     IN IF own = {} THEN 0 ELSE Lowest(own)]

\* A mutant: also what was marked unread is read again.
MarksActiveAlways(f) == f.marks /\ active # NoConv
\* fetchUnreads marks the open conversation read in the end, also when a newer call took
\* over or the request failed, but not one the user marked unread.
MarksActive(f) == f.marks /\ active # NoConv /\ hushed # active

FinishLoad(s) ==
    /\ loads' = [loads EXCEPT ![s] = NoLoad]
    /\ IF MarksActive(loads[s])
       THEN FreePosts(posts) # {} /\ posts' = Sent(posts, "read", active, 0)
       ELSE posts' = posts

\* A mutant: a snapshot is taken whatever happened meanwhile.
MustRetryNever(f) == FALSE
MustRetry(f) == f.stale /\ f.attempt < Attempts

Superseded(s) ==
    /\ loads[s].served /\ ~loads[s].newest
    /\ FinishLoad(s)
    /\ UNCHANGED <<server, wire, page, badges, boundary, hushed, history, left>>

Retry(s) ==
    /\ loads[s].served /\ loads[s].newest /\ MustRetry(loads[s])
    /\ loads' = [loads EXCEPT ![s].stale = FALSE, ![s].attempt = @ + 1,
                              ![s].served = FALSE, ![s].unread = {}]
    /\ UNCHANGED <<server, wire, page, badges, boundary, hushed, posts, history, left>>

Apply(s) ==
    LET f == loads[s]
    IN  /\ f.served /\ f.newest /\ ~MustRetry(f)
        /\ counts' = Counted(f.unread) /\ first' = FirstOf(f.unread)
        /\ trust' = Trusted(/\ socket = "up" /\ ~(f.stale /\ f.attempt = Attempts)
                            /\ active = NoConv \/ hushed # active)
        /\ passed' = passed \ {m \in f.unread : ConvOf[m] # active}
        /\ UNCHANGED <<kept, owed>>
        /\ FinishLoad(s)
        /\ UNCHANGED <<server, wire, page, boundary, hushed, left>>

LoadFails(s) ==
    /\ loads[s].on /\ ~loads[s].served
    /\ Spend("fail")
    /\ FinishLoad(s)
    /\ UNCHANGED <<server, wire, page, badges, boundary, hushed, history>>

----------------------------------------------------------------------------
(* Events. *)

\* A mutant: the oldest boundary is kept.
LaterFirst(m) == boundary
\* A mutant: one past the message.
LaterPast(m) == Higher(boundary, m) + 1
\* Of two boundaries of a conversation the later one is kept.
Later(m) == Higher(boundary, m)

\* scheduleReadBoundary.
Schedule(m) ==
    IF boundary # 0 /\ ConvOf[boundary] # ConvOf[m]
    THEN FreePosts(posts) # {} /\ posts' = Flushed(posts) /\ boundary' = m
    ELSE boundary' = (IF boundary = 0 THEN m ELSE Later(m)) /\ UNCHANGED posts

Seeded(c, m) == IF first[c] # 0 THEN first[c] ELSE m

Coming == Head(events)

\* observeMessage: the message is on screen as it comes, and is read; in the middle of the
\* conversation it is neither shown nor read nor counted.
DeliverOpen ==
    /\ events # <<>> /\ ConvOf[Coming] = active
    /\ events' = Tail(events)
    /\ IF middle
       THEN passed' = passed \cup {Coming} /\ UNCHANGED shown
       ELSE shown' = shown \cup {Coming} /\ UNCHANGED passed
    /\ IF middle \/ Coming \in shown \/ hushed = active
       THEN UNCHANGED <<boundary, posts, owed>>
       ELSE Schedule(Coming) /\ owed' = owed \cup {Coming}
    /\ UNCHANGED <<server, socket, active, middle, badges, hushed, loads, trust, kept, left>>

\* A message of another conversation counts, unless its list had it already.
DeliverOther ==
    /\ events # <<>> /\ ConvOf[Coming] # active
    /\ events' = Tail(events)
    /\ \/ /\ counts' = [counts EXCEPT ![ConvOf[Coming]] = @ + 1]
          /\ first' = [first EXCEPT ![ConvOf[Coming]] = Seeded(ConvOf[Coming], Coming)]
          /\ loads' = Staled(loads)
       \/ Coming \in shown /\ UNCHANGED <<badges, loads>>
    /\ UNCHANGED <<server, socket, page, boundary, hushed, posts, history, left>>

Flush ==
    /\ boundary # 0 /\ FreePosts(posts) # {}
    /\ posts' = Flushed(posts) /\ boundary' = 0
    /\ UNCHANGED <<server, wire, page, badges, hushed, loads, history, left>>

----------------------------------------------------------------------------
(* The user. *)

\* The effect of the open conversation; before it, the effect of the last one is cleaned up.
View(c, ps) ==
    /\ boundary' = 0
    /\ IF c = NoConv \/ (c = active /\ hushed = c)
       THEN UNCHANGED counts /\ posts' = ps
       ELSE /\ counts' = [counts EXCEPT ![c] = 0]
            /\ FreePosts(ps) # {} /\ posts' = Sent(ps, "read", c, 0)

Open(c) ==
    /\ c # active
    /\ Spend("open")
    /\ active' = c /\ middle' = FALSE
    /\ loads' = Staled(loads)
    /\ hushed' = IF hushed = c THEN NoConv ELSE hushed
    /\ boundary # 0 => FreePosts(posts) # {}
    /\ View(c, Flushed(posts))
    /\ kept' = IF kept # 0 /\ ConvOf[kept] = c THEN 0 ELSE kept
    /\ UNCHANGED <<server, wire, shown, first, trust, owed, passed>>

\* jumpToBottom, and the last of the newer pages: the newest page is fetched.
JumpToBottom ==
    /\ middle /\ middle' = FALSE
    /\ UNCHANGED <<server, wire, active, shown, badges, boundary, hushed, loads, posts, history,
                   left>>

Rerender ==
    /\ active # NoConv
    /\ Spend("render")
    /\ boundary # 0 => FreePosts(posts) # {}
    /\ View(active, Flushed(posts))
    /\ UNCHANGED <<server, wire, page, first, hushed, loads, history>>

MarkAllRead ==
    /\ Spend("bulk")
    /\ counts' = [c \in Convs |-> 0] /\ first' = [c \in Convs |-> 0]
    /\ loads' = Staled(loads)
    /\ FreePosts(posts) # {} /\ posts' = Sent(posts, "all", NoConv, 0)
    /\ kept' = 0
    /\ UNCHANGED <<server, wire, page, boundary, hushed, trust, owed, passed>>

\* markConversationsRead, for a section of one conversation.
MarkRead(c) ==
    /\ Spend("bulk")
    /\ counts' = [counts EXCEPT ![c] = 0] /\ first' = [first EXCEPT ![c] = 0]
    /\ loads' = Staled(loads)
    /\ FreePosts(posts) # {} /\ posts' = Sent(posts, "read", c, 0)
    /\ kept' = IF kept # 0 /\ ConvOf[kept] = c THEN 0 ELSE kept
    /\ UNCHANGED <<server, wire, page, boundary, hushed, trust, owed, passed>>

MarkUnread(m) ==
    /\ m \in shown /\ ConvOf[m] = active
    /\ Spend("unread")
    /\ FreePosts(posts) # {} /\ posts' = Sent(posts, "unread", active, m)
    /\ kept' = 0
    /\ UNCHANGED <<server, wire, page, badges, boundary, hushed, loads, trust, owed, passed>>

\* Nothing on its way to the server is about conversation c.
Undisturbed(c, s) ==
    /\ \A t \in 1 .. MaxPosts \ {s} : posts[t].does \notin {"all", "channels"} /\ posts[t].conv # c
    /\ boundary = 0 \/ ConvOf[boundary] # c

\* The conversation is left alone while it stays open, and the counts are fetched.
UnreadMarked(s) ==
    LET p == posts[s]
    IN  /\ p.does = "marked"
        /\ posts' = [posts EXCEPT ![s] = NoPost]
        /\ hushed' = IF active = p.conv THEN p.conv ELSE hushed
        /\ FreeLoads # {} /\ loads' = Started(loads, TRUE)
        /\ kept' = IF active = p.conv /\ readTo[p.conv] < p.msg /\ Undisturbed(p.conv, s)
                   THEN p.msg ELSE kept
        /\ trust' = Trusted(FALSE)
        /\ UNCHANGED <<server, wire, page, badges, boundary, owed, passed, left>>

----------------------------------------------------------------------------
World ==
    \/ Arrive \/ PageShows \/ AroundShows \/ Close
    \/ \E s \in 1 .. MaxLoads : ServeLoad(s) \/ LoadFails(s)
    \/ \E s \in 1 .. MaxPosts : ServePost(s) \/ PostFails(s)

Client ==
    \/ Refresh \/ DeliverOpen \/ DeliverOther \/ Flush \/ Rerender
    \/ \E s \in 1 .. MaxLoads : Superseded(s) \/ Retry(s) \/ Apply(s)
    \/ \E s \in 1 .. MaxPosts : UnreadMarked(s)

User ==
    \/ \E c \in Convs \cup {NoConv} : Open(c)
    \/ JumpToBottom \/ MarkAllRead
    \/ \E c \in Convs : MarkRead(c)
    \/ \E m \in Msgs : MarkUnread(m)

Next == World \/ Client \/ User

Spec == Init /\ [][Next]_vars

\* The timer of a boundary runs out, and every POST reaches the server or fails.
Fairness == WF_vars(Flush) /\ \A s \in 1 .. MaxPosts : WF_vars(ServePost(s))

FairSpec == Spec /\ Fairness

----------------------------------------------------------------------------
(* Properties. *)

TypeOK ==
    /\ stored \in 0 .. N /\ readTo \in [Convs -> 0 .. N]
    /\ socket \in {"up", "down"} /\ events \in Seq(Msgs)
    /\ active \in Convs \cup {NoConv} /\ shown \subseteq Msgs /\ middle \in BOOLEAN
    /\ counts \in [Convs -> Nat] /\ first \in [Convs -> 0 .. N]
    /\ boundary \in 0 .. N /\ hushed \in Convs \cup {NoConv}
    /\ loads \in [1 .. MaxLoads -> Load] /\ posts \in [1 .. MaxPosts -> Post]
    /\ trust \in {"none", "full", "lost"} /\ kept \in 0 .. N /\ owed \subseteq Msgs
    /\ passed \subseteq Msgs
    /\ left \in [Kinds -> Nat]

\* The conversation the user is looking at has no count, whichever conversation was open
\* when a snapshot was asked for or answered (useUnreadCounts.ts:145-161, 279-287).
OpenIsRead == active # NoConv => counts[active] = 0

Quiet ==
    /\ socket = "up" /\ events = <<>> /\ boundary = 0
    /\ \A s \in 1 .. MaxLoads : ~loads[s].on
    /\ \A s \in 1 .. MaxPosts : posts[s].does = "none"

\* When everything has settled, a message that the server has as unread and that never was
\* on screen is announced by a count, however events, snapshots, POSTs and the user's steps
\* overtook each other; provided that the last snapshot was current, that no POST failed, and
\* that the snapshot did not drop the count of an open conversation that the user marked
\* unread, which stays hidden until the next one (useUnreadCounts.ts:145-161, 181-203).
\* One gap remains: a message that comes while its conversation is open in the middle is
\* neither shown, read nor counted (useConversationMessages.ts:1051-1053,
\* useUnreadCounts.ts:369-382) until a snapshot is applied after the user left.
NothingHidden ==
    Quiet /\ trust = "full" =>
        \A c \in Convs \ {active} : ~(Unread(c) \subseteq shown \cup passed) => counts[c] > 0

\* A conversation that was marked unread while it is open, with nothing about it under way,
\* stays unread until the user reads it again (useUnreadCounts.ts:130-138, 370-372).
UnreadMarkStays == kept # 0 => readTo[ConvOf[kept]] < kept

\* A message that came while its conversation was open is read on the server as well,
\* without a further step of the user, unless it is marked unread (useUnreadCounts.ts:77-80).
SeenGetsRead ==
    \A m \in Msgs : m \in owed ~> m \notin owed \/ readTo[ConvOf[m]] >= m
=============================================================================
