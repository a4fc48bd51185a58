--------------------------- MODULE ConversationView ---------------------------
(***************************************************************************)
(* The conversation on screen of one browser.  The server has the messages;*)
(* the client shows a page of one conversation, keeps other conversations  *)
(* in a cache, and brings both up to date from two sides: events of a      *)
(* WebSocket that arrive in order and are lost while the socket is down,   *)
(* and answers to HTTP requests that are snapshots of the server and arrive*)
(* in any order.                                                           *)
(*                                                                         *)
(* React runs the updates that a handler queued, and the effects that copy *)
(* the result to the refs the handlers read, some time later: view, older  *)
(* and newer are the queued state, onScreen and newerRef what the refs     *)
(* hold, and Commit is that later moment.  A click renders at once.        *)
(***************************************************************************)
EXTENDS MessageLists

CONSTANTS
    Convs,       \* conversations
    Contacts,    \* those that are contacts, which also have an info page
    NoConv,      \* a page without messages
    ConvOf,      \* the conversation of each message
    Initially,   \* messages the server has when the page is opened
    Targets,     \* messages a search can lead to
    CacheSize,   \* conversations the cache keeps
    Prompt,      \* whether updates are rendered before the next event is handled
    MaxFetches,  \* bound: requests under way
    MaxEvents,   \* bound: events on the socket
    Budgets      \* bound: combinations of how often each of Kinds happens

\* What the bounds count.
Kinds == {"user",    \* navigation, paging and reloads
          "send",    \* messages sent from here
          "change",  \* marks and deletions on the server
          "drop",    \* socket closed
          "fail"}    \* requests that fail

ASSUME ConvsAssumption == NoConv \notin Convs /\ Contacts \subseteq Convs
ASSUME ConvOfAssumption == ConvOf \in [Msgs -> Convs]
ASSUME MessagesAssumption == Initially \subseteq Msgs /\ Targets \subseteq Msgs
ASSUME SwitchAssumption == Prompt \in BOOLEAN /\ CacheSize \in Nat \ {0}
ASSUME BoundsAssumption ==
    Budgets \subseteq [Kinds -> Nat] /\ MaxFetches \in Nat /\ MaxEvents \in Nat

\* A request: what for, for which conversation, whether a switch aborts it, the
\* messages on screen when it was sent, and its answer.
Fetch == [kind : {"none", "latest", "reconcile", "older", "newer", "around", "sent"},
          conv : Convs \cup {NoConv}, number : Nat, held : BOOLEAN,
          atStart : SUBSET Msgs, anchor : 0 .. N,
          served : BOOLEAN, page : Lists, older : BOOLEAN, newer : BOOLEAN]
NoFetch == [kind |-> "none", conv |-> NoConv, number |-> 0, held |-> FALSE,
            atStart |-> {}, anchor |-> 0,
            served |-> FALSE, page |-> Nothing, older |-> FALSE, newer |-> FALSE]
Slots == 1 .. MaxFetches

Event == [does : {"stored", "marked", "deleted"}, msg : Msgs, mark : Marks]

VARIABLES
    stored,    \* the server: messages it has
    gone,      \* the server: messages that were deleted
    mark,      \* the server: the mark of each message
    socket,    \* "new" before the first connection, "up" or "down"
    events,    \* events on their way to the client
    conv,      \* the conversation of the rendered page
    pageKind,  \* "chat" or "info", the page of a contact
    target,    \* the message a search leads to, or 0
    view,      \* the messages on screen
    older,     \* whether the server has older ones
    newer,     \* whether newer ones were left out, as after a search
    onScreen,  \* messagesRef
    newerRef,  \* hasNewerMessagesRef
    seen,      \* messages that are not appended again
    acks,      \* ACKs for messages that are not loaded
    cache,     \* the cached conversations
    fetches,   \* requests under way
    number,    \* latestReconcileRequestId
    deferred,  \* a reconnect's reconcile waits for the newest page
    arrived,   \* history: messages the socket put on this screen
    late,      \* history: messages that were on screen and not in seen
    left       \* what is left of the budgets

server == <<stored, gone, mark>>
wire == <<socket, events>>
where == <<conv, pageKind, target>>
screen == <<view, older, newer>>
refs == <<onScreen, newerRef>>
requests == <<fetches, number, deferred>>
history == <<arrived, late>>
vars == <<server, wire, where, screen, refs, seen, acks, cache, requests, history, left>>

----------------------------------------------------------------------------
Init ==
    /\ stored = Initially /\ gone = {} /\ mark = [m \in Msgs |-> 0]
    /\ socket = "new" /\ events = <<>>
    /\ conv = NoConv /\ pageKind = "chat" /\ target = 0
    /\ view = Nothing /\ older = FALSE /\ newer = FALSE
    /\ onScreen = Nothing /\ newerRef = FALSE
    /\ seen = {} /\ acks = [m \in Msgs |-> 0]
    /\ cache = [c \in Convs |-> NoEntry]
    /\ fetches = [s \in Slots |-> NoFetch] /\ number = 0 /\ deferred = FALSE
    /\ arrived = {} /\ late = {}
    /\ left \in Budgets

Spend(kind) == left[kind] > 0 /\ left' = [left EXCEPT ![kind] = @ - 1]

\* Updates are rendered and their effects have run.
Committed == onScreen = view /\ newerRef = newer
Ready == Prompt => Committed

Rows(c) == {m \in stored : ConvOf[m] = c}
Under(kind) == {s \in Slots : fetches[s].kind = kind /\ fetches[s].held}

Free(fs) == {s \in Slots : fs[s].kind = "none"}
\* The requests with one more, in the first free place.
Issue(fs, f) ==
    LET s == CHOOSE t \in Free(fs) : \A u \in Free(fs) : t <= u IN [fs EXCEPT ![s] = f]
Ask(kind, c, held, anchor) ==
    [NoFetch EXCEPT !.kind = kind, !.conv = c, !.held = held, !.anchor = anchor]

----------------------------------------------------------------------------
(* The server, the socket and the network (external to the client). *)

Push(does, m) ==
    IF socket = "up"
    THEN /\ Len(events) < MaxEvents
         /\ events' = Append(events, [does |-> does, msg |-> m, mark |-> mark'[m]])
    ELSE events' = events

NextMessage == {m \in Msgs \ (stored \cup gone) : \A k \in 1 .. m - 1 : k \in stored \cup gone}

Arrive(m) ==
    /\ m \in NextMessage
    /\ stored' = stored \cup {m} /\ UNCHANGED <<gone, mark>>
    /\ Push("stored", m)
    /\ UNCHANGED <<socket, where, screen, refs, seen, acks, cache, requests, history, left>>

Mark(m, to) ==
    /\ m \in stored /\ mark[m] < to
    /\ Spend("change")
    /\ mark' = [mark EXCEPT ![m] = to] /\ UNCHANGED <<stored, gone>>
    /\ Push("marked", m)
    /\ UNCHANGED <<socket, where, screen, refs, seen, acks, cache, requests, history>>

Delete(m) ==
    /\ m \in stored
    /\ Spend("change")
    /\ stored' = stored \ {m} /\ gone' = gone \cup {m} /\ UNCHANGED mark
    /\ Push("deleted", m)
    /\ UNCHANGED <<socket, where, screen, refs, seen, acks, cache, requests, history>>

\* The messages of an answer, and whether more of them are on either side.
PageOf(f) ==
    LET rows == Rows(f.conv)
        side == PageSize - 1
    IN  CASE f.kind \in {"latest", "reconcile"} -> Newest(rows, PageSize)
          [] f.kind = "older" -> Newest({m \in rows : m < f.anchor}, PageSize)
          [] f.kind = "newer" -> Oldest({m \in rows : m > f.anchor}, PageSize)
          [] f.kind = "around" ->
               IF f.anchor \in rows
               THEN {f.anchor} \cup Newest({m \in rows : m < f.anchor}, side)
                               \cup Oldest({m \in rows : m > f.anchor}, side)
               ELSE {}

Answered(f) ==
    LET page == PageOf(f)
        full == Cardinality(page) >= PageSize
        around == f.kind = "around"
    IN  [f EXCEPT !.served = TRUE, !.page = Copies(page, mark),
                  !.older = IF around THEN \E m \in Rows(f.conv) : \E k \in page :
                                              m < k /\ \A j \in page : m < j ELSE full,
                  !.newer = IF around THEN \E m \in Rows(f.conv) : \E k \in page :
                                              m > k /\ \A j \in page : m > j ELSE full]

Serve(s) ==
    /\ fetches[s].kind # "none" /\ ~fetches[s].served
    /\ fetches' = [fetches EXCEPT ![s] = Answered(@)]
    /\ UNCHANGED <<server, wire, where, screen, refs, seen, acks, cache, number, deferred,
                   history, left>>

\* A request that fails tells the user, at most.
FetchFails(s) ==
    /\ fetches[s].kind \notin {"none", "sent"}
    /\ Spend("fail")
    /\ fetches' = [fetches EXCEPT ![s] = NoFetch]
    /\ UNCHANGED <<server, wire, where, screen, refs, seen, acks, cache, number, deferred,
                   history>>

Close ==
    /\ socket = "up"
    /\ Spend("drop")
    /\ socket' = "down" /\ events' = <<>>
    /\ UNCHANGED <<server, where, screen, refs, seen, acks, cache, requests, history>>

\* The page of a first connection is loaded by HTTP at its own time.
Connect ==
    /\ socket = "new"
    /\ socket' = "up"
    /\ UNCHANGED <<server, events, where, screen, refs, seen, acks, cache, requests, history,
                   left>>

\* The timer of a closed socket connects again, and what is on screen is compared with
\* the server; in the middle of the history, only once the newest page is reached.
Reconnect ==
    /\ socket = "down" /\ Ready
    /\ socket' = "up"
    /\ IF conv = NoConv THEN UNCHANGED requests
       ELSE IF newerRef THEN deferred' = TRUE /\ UNCHANGED <<fetches, number>>
       ELSE /\ Free(fetches) # {}
            /\ deferred' = FALSE /\ number' = number + 1
            /\ fetches' = Issue(fetches, [Ask("reconcile", conv, FALSE, 0) EXCEPT
                                            !.number = number + 1, !.atStart = Shown(onScreen)])
    /\ UNCHANGED <<server, events, where, screen, refs, seen, acks, cache, history, left>>

----------------------------------------------------------------------------
(* The client: rendering and navigation. *)

Commit ==
    /\ ~Committed
    /\ onScreen' = view /\ newerRef' = newer
    /\ UNCHANGED <<server, wire, where, screen, seen, acks, cache, requests, history, left>>

\* The conversation on screen goes into the cache, unless its newest part is missing.
Saved ==
    IF conv # NoConv /\ Shown(view) # {} /\ ~newer
    THEN Put(cache, conv, Normalized(view, older), CacheSize)
    ELSE {cache}

\* The effect of a page, a target or a reload: requests that can be aborted are, and
\* the page is taken from around the target, from the cache or from the server.
Load(c, to, saved) ==
    LET fs == [s \in Slots |-> IF fetches[s].held THEN NoFetch ELSE fetches[s]]
    IN  /\ onScreen' = view
        /\ arrived' = {} /\ UNCHANGED late
        /\ cache' = saved
        /\ deferred' = FALSE
        /\ CASE c = NoConv ->
                  /\ view' = Nothing /\ older' = FALSE
                  /\ fetches' = fs /\ number' = 0 /\ UNCHANGED seen
             [] c # NoConv /\ to # 0 ->
                  /\ view' = Nothing
                  /\ Free(fs) # {} /\ fetches' = Issue(fs, Ask("around", c, TRUE, to))
                  /\ number' = 0 /\ UNCHANGED <<older, seen>>
             [] c # NoConv /\ to = 0 /\ saved[c].kept ->
                  /\ view' = saved[c].msgs /\ older' = saved[c].older
                  /\ seen' = Shown(saved[c].msgs)
                  /\ number' = 1
                  /\ Free(fs) # {}
                  /\ fetches' = Issue(fs, [Ask("reconcile", c, TRUE, 0) EXCEPT
                                             !.number = 1, !.atStart = Shown(view)])
             [] OTHER ->
                  /\ view' = Nothing
                  /\ Free(fs) # {}
                  /\ fetches' = Issue(fs, [Ask("latest", c, TRUE, 0) EXCEPT
                                             !.atStart = Shown(view)])
                  /\ number' = 0 /\ UNCHANGED <<older, seen>>

\* Opens a page, possibly at a message that was searched for.
Go(c, kind, to) ==
    /\ Ready
    /\ conv' = c /\ pageKind' = kind /\ target' = to
    /\ \E saved \in IF c = conv THEN {cache} ELSE Saved :
          IF c = conv /\ to = 0
          THEN \* The same conversation keeps what is on screen.
               /\ fetches' = [s \in Slots |-> IF fetches[s].held THEN NoFetch ELSE fetches[s]]
               /\ number' = 0 /\ deferred' = FALSE
               /\ onScreen' = view /\ newerRef' = newer
               /\ UNCHANGED <<screen, seen, cache, history>>
          ELSE /\ Load(c, to, saved)
               /\ newer' = (newer /\ c = conv)
               /\ newerRef' = newer
    /\ UNCHANGED <<server, wire, acks>>

Open(c, kind) ==
    /\ <<c, kind>> # <<conv, pageKind>>
    /\ kind = "info" => c \in Contacts
    /\ Spend("user")
    /\ Go(c, kind, 0)

Search(m) ==
    /\ m \in Targets /\ m \in stored
    /\ <<ConvOf[m], m>> # <<conv, target>>
    /\ Spend("user")
    /\ Go(ConvOf[m], "chat", m)

\* The list scrolled to the target.
TargetReached ==
    /\ target # 0 /\ target \in Shown(onScreen)
    /\ Go(conv, pageKind, 0)
    /\ UNCHANGED left

Reload ==
    /\ conv # NoConv /\ Ready
    /\ Spend("user")
    /\ newer' = FALSE /\ newerRef' = FALSE
    /\ Load(conv, target, [c \in Convs |-> NoEntry])
    /\ UNCHANGED <<server, wire, where, acks>>

----------------------------------------------------------------------------
(* The client: paging. *)

JumpToBottom ==
    /\ conv # NoConv /\ newerRef /\ Ready
    /\ Spend("user")
    /\ newer' = FALSE /\ view' = Nothing /\ arrived' = {}
    /\ newerRef' = FALSE /\ onScreen' = Nothing
    /\ cache' = [cache EXCEPT ![conv] = NoEntry]
    /\ deferred' = FALSE
    /\ Free(fetches) # {}
    /\ fetches' = Issue(fetches, [Ask("latest", conv, FALSE, 0) EXCEPT
                                    !.atStart = Shown(onScreen)])
    /\ UNCHANGED <<server, wire, where, older, seen, acks, number, late>>

PageUp ==
    /\ conv # NoConv /\ older /\ Under("older") = {} /\ Shown(onScreen) # {} /\ Ready
    /\ Spend("user")
    /\ Free(fetches) # {}
    /\ \E first \in Oldest(Shown(onScreen), 1) :
          fetches' = Issue(fetches, Ask("older", conv, TRUE, first))
    /\ UNCHANGED <<server, wire, where, screen, refs, seen, acks, cache, number, deferred,
                   history>>

PageDown ==
    /\ conv # NoConv /\ newerRef /\ Under("newer") = {} /\ Shown(onScreen) # {} /\ Ready
    /\ Spend("user")
    /\ Free(fetches) # {}
    /\ \E last \in Newest(Shown(onScreen), 1) :
          fetches' = Issue(fetches, Ask("newer", conv, TRUE, last))
    /\ UNCHANGED <<server, wire, where, screen, refs, seen, acks, cache, number, deferred,
                   history>>

\* A mutant: answers for another conversation are taken as well.
WantedAnywhere(f) == f.kind = "reconcile" => f.number = number

\* The answer of a request is for the page on screen, and no later reconcile was sent.
Wanted(f) == f.conv = conv /\ (f.kind = "reconcile" => f.number = number)
Landing(s, kind) == fetches[s].kind = kind /\ fetches[s].served /\ Ready
Done(s) == [fetches EXCEPT ![s] = NoFetch]

Dropped(s) ==
    /\ fetches[s].kind # "sent" /\ Landing(s, fetches[s].kind) /\ ~Wanted(fetches[s])
    /\ fetches' = Done(s)
    /\ UNCHANGED <<server, wire, where, screen, refs, seen, acks, cache, number, deferred,
                   history, left>>

TakeAcks(page) == acks' = [m \in Msgs |-> IF m \in Shown(page) THEN 0 ELSE acks[m]]

LandLatest(s) ==
    LET f == fetches[s]
        page == WithAcks(f.page, acks)
        differs == Differs(onScreen, page, f.older, f.atStart)
        merged == Reconciled(onScreen, page, f.older, f.atStart)
    IN  /\ Landing(s, "latest") \/ Landing(s, "reconcile")
        /\ Wanted(f)
        /\ TakeAcks(f.page)
        /\ view' = IF differs THEN merged ELSE view
        /\ seen' = IF differs THEN Shown(merged)
                   ELSE IF f.kind = "latest" THEN Shown(onScreen) ELSE seen
        /\ late' = IF ~differs /\ f.kind = "latest" THEN late \cup (Shown(view) \ Shown(onScreen))
                   ELSE late
        /\ older' = f.older
        /\ fetches' = Done(s)
        /\ UNCHANGED <<server, wire, where, newer, refs, cache, number, deferred, arrived, left>>

\* The set of seen messages, and the ref, follow only when React ran the update at once.
LandOlder(s) ==
    LET merged == AppendUnique(view, WithAcks(fetches[s].page, acks))
    IN  /\ Landing(s, "older") /\ Wanted(fetches[s])
        /\ TakeAcks(fetches[s].page)
        /\ view' = merged
        /\ \/ /\ onScreen = view /\ merged # view
              /\ onScreen' = merged /\ seen' = Shown(merged) /\ UNCHANGED late
           \/ UNCHANGED <<onScreen, seen>> /\ late' = late \cup (Shown(merged) \ seen)
        /\ older' = fetches[s].older
        /\ fetches' = Done(s)
        /\ UNCHANGED <<server, wire, where, newer, newerRef, cache, number, deferred, arrived,
                       left>>

LandNewer(s) ==
    LET page == WithAcks(fetches[s].page, acks)
    IN  /\ Landing(s, "newer") /\ Wanted(fetches[s])
        /\ TakeAcks(fetches[s].page)
        /\ view' = AppendUnseen(view, page, seen)
        /\ seen' = seen \cup Shown(page)
        /\ newer' = fetches[s].newer
        /\ IF ~newer' /\ deferred
           THEN /\ deferred' = FALSE /\ number' = number + 1
                /\ fetches' = Issue(Done(s), [Ask("reconcile", conv, FALSE, 0) EXCEPT
                                     !.number = number + 1, !.atStart = Shown(onScreen)])
           ELSE fetches' = Done(s) /\ UNCHANGED <<number, deferred>>
        /\ UNCHANGED <<server, wire, where, older, refs, cache, history, left>>

LandAround(s) ==
    LET f == fetches[s]
    IN  /\ Landing(s, "around") /\ Wanted(f)
        /\ TakeAcks(f.page)
        /\ view' = WithAcks(f.page, acks) /\ seen' = Shown(f.page)
        /\ older' = f.older /\ newer' = f.newer
        /\ arrived' = arrived \cap Shown(f.page)
        /\ fetches' = Done(s)
        /\ UNCHANGED <<server, wire, where, refs, cache, number, deferred, late, left>>

----------------------------------------------------------------------------
(* The client: events, and messages sent from here. *)

\* observeMessage: a buffered ACK is taken in any case; the message is appended when its
\* chat is on screen with the newest part, and goes into the cache when another page is.
Observe(m, sent, active) ==
    LET now == Higher(sent, acks[m])
    IN  /\ acks' = [acks EXCEPT ![m] = 0]
        /\ IF active
           THEN /\ IF newerRef \/ m \in seen THEN UNCHANGED <<view, seen, arrived>>
                   ELSE /\ seen' = seen \cup {m}
                        /\ view' = AddIfAbsent(view, m, now)
                        /\ arrived' = arrived \cup {m}
                /\ UNCHANGED cache
           ELSE /\ cache' \in AddedTo(cache, ConvOf[m], m, now, CacheSize)
                /\ UNCHANGED <<view, seen, arrived>>

\* receiveMessageAck and receiveMessageFailed: an ACK of a message that is not loaded
\* waits for it, a failed mark does not.
Receive(m, to) ==
    /\ IF to = 1 THEN UNCHANGED acks
       ELSE acks' = [acks EXCEPT ![m] =
                       IF m \notin Shown(onScreen) THEN Higher(@, to)
                       ELSE IF view[m] = <<>> THEN to ELSE 0]
    /\ view' = IF to = 1 \/ m \in Shown(onScreen) THEN MarkFirst(view, m, to) ELSE view
    /\ cache' = Marked(cache, m, to)
    /\ UNCHANGED <<seen, arrived>>

\* removeMessage.
Remove(m) ==
    /\ seen' = IF m \in Shown(onScreen) THEN seen \ {m} ELSE seen
    /\ view' = Without(view, m)
    /\ acks' = [acks EXCEPT ![m] = 0]
    /\ cache' = Purged(cache, m)
    /\ arrived' = arrived \ {m}

\* The next event of the socket is handled.
Deliver ==
    /\ events # <<>> /\ Ready
    /\ events' = Tail(events)
    /\ LET e == Head(events) IN
       CASE e.does = "stored" ->
              Observe(e.msg, e.mark, ConvOf[e.msg] = conv /\ pageKind = "chat")
         [] e.does = "marked" -> Receive(e.msg, e.mark)
         [] e.does = "deleted" -> Remove(e.msg)
    /\ UNCHANGED <<server, socket, where, older, newer, refs, requests, late, left>>

\* A message is sent from the chat; its answer is under way, and so is its event.
Send(m) ==
    /\ m \in NextMessage /\ ConvOf[m] = conv /\ pageKind = "chat" /\ Ready
    /\ Spend("send")
    /\ stored' = stored \cup {m} /\ UNCHANGED <<gone, mark>>
    /\ Push("stored", m)
    /\ Free(fetches) # {}
    /\ fetches' = Issue(fetches, [Ask("sent", conv, FALSE, m) EXCEPT !.served = TRUE])
    /\ UNCHANGED <<socket, where, screen, refs, seen, acks, cache, number, deferred, history>>

\* The answer is observed like an event while its conversation is still the active one.
LandSent(s) ==
    /\ Landing(s, "sent")
    /\ IF fetches[s].conv = conv THEN Observe(fetches[s].anchor, 0, TRUE)
       ELSE UNCHANGED <<view, seen, acks, cache, arrived>>
    /\ fetches' = Done(s)
    /\ UNCHANGED <<server, wire, where, older, newer, refs, number, deferred, late, left>>

----------------------------------------------------------------------------
World ==
    \/ \E m \in Msgs : Arrive(m) \/ Delete(m) \/ \E to \in Marks : Mark(m, to)
    \/ Close
    \/ \E s \in Slots : FetchFails(s)

User ==
    \/ \E c \in Convs \cup {NoConv}, kind \in {"chat", "info"} : Open(c, kind)
    \/ \E m \in Msgs : Search(m) \/ Send(m)
    \/ TargetReached \/ Reload \/ JumpToBottom \/ PageUp \/ PageDown

Land(s) ==
    Dropped(s) \/ LandLatest(s) \/ LandOlder(s) \/ LandNewer(s) \/ LandAround(s) \/ LandSent(s)

Client ==
    \/ Commit \/ Connect \/ Reconnect \/ Deliver
    \/ \E s \in Slots : Serve(s) \/ Land(s)

Next == World \/ User \/ Client

Spec == Init /\ [][Next]_vars

\* The browser renders, reconnects by its timer, handles what the socket delivers, and
\* every request is answered or fails.
Fairness ==
    /\ WF_vars(Commit)
    /\ WF_vars(Connect \/ Reconnect)
    /\ WF_vars(Deliver)
    /\ \A s \in Slots : WF_vars(Serve(s)) /\ WF_vars(Land(s))

FairSpec == Spec /\ Fairness

----------------------------------------------------------------------------
(* Properties. *)

TypeOK ==
    /\ stored \subseteq Msgs /\ gone \subseteq Msgs /\ stored \cap gone = {}
    /\ mark \in [Msgs -> Marks]
    /\ socket \in {"new", "up", "down"} /\ events \in Seq(Event)
    /\ conv \in Convs \cup {NoConv} /\ pageKind \in {"chat", "info"} /\ target \in 0 .. N
    /\ view \in Lists /\ onScreen \in Lists
    /\ older \in BOOLEAN /\ newer \in BOOLEAN /\ newerRef \in BOOLEAN
    /\ seen \subseteq Msgs /\ acks \in [Msgs -> Marks]
    /\ cache \in [Convs -> Entry]
    /\ fetches \in [Slots -> Fetch] /\ number \in Nat /\ deferred \in BOOLEAN
    /\ arrived \subseteq Msgs /\ late \subseteq Msgs /\ left \in [Kinds -> Nat]

\* Answers of a conversation the user has left, also those that no switch aborts, do not
\* reach the screen of another one or its cached copy (useConversationMessages.ts:551, 599).
OwnMessages ==
    /\ \A m \in Shown(view) : ConvOf[m] = conv
    /\ \A c \in Convs : \A m \in Shown(cache[c].msgs) : ConvOf[m] = c

\* A message that comes in an event, in the answer of its send and in pages of several
\* requests is on screen once (useConversationMessages.ts:736, 920), and so is its cached
\* copy; unless it came with an older page whose update React ran late (675), or was
\* still unrendered when the seen messages were reset to the rendered ones (566).
NoDuplicates ==
    \A m \in Msgs \ late :
       Len(view[m]) <= 1 /\ \A c \in Convs : Len(cache[c].msgs[m]) <= 1

\* A message the socket put on screen while requests were under way is not removed by
\* their older answers (messageIdsAtRequestStart, useConversationMessages.ts:229); the page
\* around a search result is an exception and replaces all that is on screen.
ArrivedStays == \A m \in arrived : m \in stored => m \in Shown(view)

\* No ACK waits in the buffer for a message that is on screen without it
\* (useConversationMessages.ts:437-468, 950-985).
AckNotStranded == Committed => \A m \in Shown(view) : acks[m] <= view[m][1]

\* The chat shows the newest page as the server has it, and inside the range of that page
\* nothing else.
Exact ==
    LET page == Newest(Rows(conv), PageSize)
        full == Cardinality(page) >= PageSize
    IN  /\ \A m \in page : view[m] = <<mark[m]>>
        /\ \A m \in Shown(view) \ page : ~Covers(Copies(page, mark), full, m)

\* Nobody changes anything any more, and all that is under way is the reconcile of a
\* reconnect that began from what is on screen.
OnlyReconciles ==
    /\ \A kind \in Kinds : left[kind] = 0
    /\ NextMessage = {} /\ events = <<>> /\ socket = "up" /\ Committed
    /\ ~newer /\ target = 0
    /\ \E s \in Slots :
          /\ fetches[s].kind = "reconcile" /\ ~fetches[s].held /\ ~fetches[s].served
          /\ fetches[s].conv = conv /\ fetches[s].number = number
          /\ fetches[s].atStart = Shown(view)
          /\ \A t \in Slots \ {s} : fetches[t].kind = "none"

\* Whatever was missed while the socket was down, and whatever older answers left on the
\* screen, the reconcile of a reconnect makes it right (useConversationMessages.ts:786).
ReconnectHeals == OnlyReconciles ~> Exact
=============================================================================
