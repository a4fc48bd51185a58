----------------------------- MODULE MessageLists -----------------------------
(***************************************************************************)
(* The message lists of the web client, and what the conversation hook and *)
(* its cache do to them.                                                    *)
(*                                                                         *)
(* Messages are numbered in the order in which the server stored them,     *)
(* which is the order the client sorts by.  A list gives every message the *)
(* copies it holds of it, each with the delivery mark that copy carries,   *)
(* so that a message shown twice can be told from one shown once; the order*)
(* inside a list is the display's and is left out.                         *)
(***************************************************************************)
EXTENDS Integers, Sequences, FiniteSets

CONSTANTS
    N,         \* number of messages
    MaxMark,   \* the highest ACK count
    PageSize,  \* messages of one page
    EntrySize  \* messages a cached conversation keeps

ASSUME NAssumption == N \in Nat /\ MaxMark \in Nat
ASSUME SizesAssumption == PageSize \in Nat \ {0} /\ EntrySize \in Nat \ {0}

Msgs == 1 .. N

\* The delivery mark of a copy: 0 is sent, 1 is failed, and from 2 on it is acked,
\* once more with every step.  A failed mark on an acked copy is not displayed.
Marks == 0 .. MaxMark
Lists == [Msgs -> Seq(Marks)]

Nothing == [m \in Msgs |-> <<>>]
Shown(list) == {m \in Msgs : list[m] # <<>>}
Higher(x, y) == IF x > y THEN x ELSE y

----------------------------------------------------------------------------
(* Pages the server sends. *)

Newest(S, n) == {m \in S : Cardinality({k \in S : k > m}) < n}
Oldest(S, n) == {m \in S : Cardinality({k \in S : k < m}) < n}

\* The rows of S with the marks the server has for them.
Copies(S, mark) == [m \in Msgs |-> IF m \in S THEN <<mark[m]>> ELSE <<>>]

----------------------------------------------------------------------------
(* What the client does to a list. *)

\* The buffered ACK of each message is put on its copies.
WithAcks(list, acks) == [m \in Msgs |-> [i \in DOMAIN list[m] |-> Higher(list[m][i], acks[m])]]

\* A mutant: ACK counts are added up.
MarkFirstAdds(list, m, mark) ==
    IF list[m] = <<>> THEN list ELSE [list EXCEPT ![m][1] = @ + mark]

\* Only the first copy of a message is found and marked.
MarkFirst(list, m, mark) ==
    IF list[m] = <<>> THEN list ELSE [list EXCEPT ![m][1] = Higher(@, mark)]

Without(list, m) == [list EXCEPT ![m] = <<>>]

AddIfAbsent(list, m, mark) ==
    IF list[m] = <<>> THEN [list EXCEPT ![m] = <<mark>>] ELSE list

AppendUnique(list, page) ==
    [m \in Msgs |-> IF list[m] = <<>> THEN page[m] ELSE list[m]]

\* A mutant: nothing is compared with what was appended before.
AppendAll(list, page, seen) == [m \in Msgs |-> list[m] \o page[m]]

\* A newer page is appended but for the messages in seen.
AppendUnseen(list, page, seen) ==
    [m \in Msgs |-> IF m \in seen THEN list[m] ELSE list[m] \o page[m]]

\* The range a page stands for: all of the conversation when it is not full.
Covers(page, full, m) ==
    full => \E low, high \in Shown(page) : low <= m /\ m <= high

\* A mutant: messages that came after the request was sent are not protected.
DeletedWhenever(current, page, full, atStart) ==
    {m \in Shown(current) \ Shown(page) : Covers(page, full, m)}

\* A message of the current list that the page lacks was deleted on the server, if
\* it is inside the range and was there when the request was sent.
Deleted(current, page, full, atStart) ==
    {m \in Shown(current) \ Shown(page) : m \in atStart /\ Covers(page, full, m)}

\* A mutant: copies are told apart by what they are, not by their marks.
DiffersInRows(current, page, full, atStart) ==
    Deleted(current, page, full, atStart) # {} \/ \E m \in Shown(page) : current[m] = <<>>

Differs(current, page, full, atStart) ==
    \/ Deleted(current, page, full, atStart) # {}
    \/ \E m \in Shown(page) :
          current[m] = <<>> \/ current[m][Len(current[m])] # page[m][1]

Reconciled(current, page, full, atStart) ==
    [m \in Msgs |-> IF m \in Shown(page) THEN page[m]
                    ELSE IF m \in Deleted(current, page, full, atStart) THEN <<>>
                    ELSE current[m]]

----------------------------------------------------------------------------
(* Cached conversations. *)

Entry == [kept : BOOLEAN, msgs : Lists, older : BOOLEAN]
NoEntry == [kept |-> FALSE, msgs |-> Nothing, older |-> FALSE]

\* A long list keeps its newest messages and has older ones on the server.
Normalized(list, older) ==
    LET newest == Newest(Shown(list), EntrySize)
    IN  [kept |-> TRUE,
         msgs |-> [m \in Msgs |-> IF m \in newest THEN list[m] ELSE <<>>],
         older |-> older \/ Shown(list) # newest]

Kept(cache) == {c \in DOMAIN cache : cache[c].kept}

\* The caches after conversation c was put in: when there are too many, one of the
\* others goes.  (The code drops the one used longest ago.)
Put(cache, c, entry, size) ==
    IF Cardinality(Kept(cache) \cup {c}) <= size
    THEN {[cache EXCEPT ![c] = entry]}
    ELSE {[cache EXCEPT ![c] = entry, ![d] = NoEntry] : d \in Kept(cache) \ {c}}

\* A message of a conversation that is not on screen.
AddedTo(cache, c, m, mark, size) ==
    IF ~cache[c].kept
    THEN Put(cache, c,
             [kept |-> TRUE, msgs |-> AddIfAbsent(Nothing, m, mark), older |-> TRUE], size)
    ELSE IF m \in Shown(cache[c].msgs) THEN {cache}
    ELSE {[cache EXCEPT ![c] = Normalized(AddIfAbsent(@.msgs, m, mark), @.older)]}

\* A mutant: only the screen is marked.
MarkedNowhere(cache, m, mark) == cache

Marked(cache, m, mark) ==
    [c \in DOMAIN cache |-> [cache[c] EXCEPT !.msgs = MarkFirst(@, m, mark)]]

Purged(cache, m) == [c \in DOMAIN cache |-> [cache[c] EXCEPT !.msgs = Without(@, m)]]
=============================================================================
