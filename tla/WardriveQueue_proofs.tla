------------------------ MODULE WardriveQueue_proofs ------------------------
(***************************************************************************)
(* Proofs about WardriveQueue for any radios, brokers, accounts, rows and  *)
(* bounds: no row that is owed is lost, and a broker is sent nothing that  *)
(* was in the queue when it was switched on.                               *)
(***************************************************************************)
EXTENDS WardriveQueue, TLAPS

\* The proof is about destinations whose place on the page's list does not depend on who is
\* logged in.
Firm(d) == d[1] \notin AccountBrokers

\* Nothing refers to rows that are not there yet.
WithinStored ==
    /\ \A d \in Dests, kind \in Kinds : marks[d][kind] <= stored
    /\ up.pc \in {"posted", "stored"} => up.last <= stored
    /\ \A d \in BrokerDests : since[d] <= stored /\ fw[d].rows \subseteq 1 .. stored

\* A row is owed to destinations of its own radio, and to a broker only while its switch is
\* on and it is on the list.
OwedToSwitched ==
    \A p \in owed :
        /\ RadioOf[p[2]] = p[1][2]
        /\ Firm(p[1]) /\ p[1][1] # Local => p[1] \in enabled /\ p[1][1] \in served

\* What a watermark has passed, and what is pruned, has arrived.
MarkedArrived ==
    \A p \in owed : Firm(p[1]) /\ p[2] <= marks[p[1]][KindOf[p[2]]] => Has(p[1], p[2])
PrunedArrived == \A p \in owed : Firm(p[1]) /\ p[2] \in gone => Has(p[1], p[2])

\* Of the rows of a kind up to n, those owed to a destination are among rows or have arrived.
Covered(d, kind, n, rows) ==
    \A p \in owed :
        p[1] = d /\ Firm(d) /\ KindOf[p[2]] = kind /\ p[2] <= n => Has(d, p[2]) \/ p[2] \in rows

UploadCovers ==
    up.pc \in {"posted", "stored"} =>
        /\ up.radio \in Radios
        /\ Covered(ToLocal(up.radio), up.kind, up.last, up.rows)
        /\ up.pc = "stored" => up.rows \subseteq received[ToLocal(up.radio)]

Busy(f) == f.pc \in {"sending", "sent", "taken"}

ForwardCovers ==
    \A d \in BrokerDests : Busy(fw[d]) =>
        /\ \A q \in fw[d].rows : Covered(d, fw[d].kind, q, fw[d].rows)
        /\ fw[d].pc # "sending" => fw[d].row \in fw[d].rows /\ \A q \in fw[d].rows : fw[d].row <= q
        /\ fw[d].pc = "taken" => fw[d].row \in received[d]

\* The broker being switched on is not on yet, so nothing is owed to it.
SwitchApart ==
    switching.pc # "none" => enabled \subseteq switching.base /\ switching.dests \cap switching.base = {}

IInv ==
    /\ TypeOK /\ WithinStored /\ OwedToSwitched /\ MarkedArrived /\ PrunedArrived
    /\ UploadCovers /\ ForwardCovers /\ SwitchApart

\* The watermark has passed the rows of a kind that were there when d was switched on.
Skipped(d, kind) ==
    \A r \in InQueue : KindOf[r] = kind /\ r <= since[d] => r <= marks[d][kind]

\* A broker that is on, or is switched on again by a switch under way, has skipped its
\* backlog; one that is being switched on has done so kind by kind.
BacklogSkipped ==
    /\ \A d \in enabled, kind \in Kinds : Skipped(d, kind)
    /\ switching.pc # "none" => \A d \in switching.base, kind \in Kinds : Skipped(d, kind)
    /\ switching.pc \in {"track", "set"} => \A d \in switching.dests : Skipped(d, "obs")
    /\ switching.pc = "set" => \A d \in switching.dests : Skipped(d, "track")

\* A forwarder runs only for a broker that is on, and works on later rows.
LaterRows ==
    \A d \in BrokerDests :
        /\ fw[d].pc # "none" => d \in enabled
        /\ Busy(fw[d]) => \A r \in fw[d].rows : r > since[d]

SkipInv == IInv /\ BacklogSkipped /\ LaterRows

-----------------------------------------------------------------------------
(* Who changes what *)

\* What the ledger of a row is made of changes in few steps.
ledger == <<database, received, aside, history>>

LEMMA LedgerSteps ==
    ASSUME Next
    PROVE  \/ UNCHANGED ledger
           \/ AddRow \/ Config \/ UploadStored \/ UploadRefused \/ ServerStores
           \/ \E n \in Rows : UpPrune(n)
           \/ \E d \in BrokerDests : \/ SwitchOff(d) \/ SwitchOn(d) \/ SkipBacklog(d)
                                    \/ BrokerTakes(d) \/ FwPubAck(d)
<1>. USE DEF ledger, database, history
<1>1. CASE UpTick \/ UpNext \/ UpRest \/ (\E k \in Radios, n \in Rows : UpSend(k, n))
    BY <1>1, Zenon DEF UpTick, UpNext, UpRest, UpSend
<1>2. CASE UploadDenied \/ UploadFails
    BY <1>2 DEF UploadDenied, UploadFails
<1>3. CASE SwitchedOn
    BY <1>3 DEF SwitchedOn
<1>4. CASE RadioLost \/ Reload \/ LogOut \/ SessionChanges \/ LoadMe \/ LoadMeFails
    BY <1>4 DEF RadioLost, Reload, LogOut, SessionChanges, LoadMe, LoadMeFails
<1>5. CASE \E k \in Radios : RadioConnect(k)
    BY <1>5 DEF RadioConnect
<1>6. CASE \E radios \in Accounts : LogIn(radios)
    BY <1>6 DEF LogIn
<1>7. CASE \E list \in SUBSET Brokers : OwnerLists(list)
    BY <1>7 DEF OwnerLists
<1>8. CASE \E d \in BrokerDests : FwConnectFails(d) \/ FwFails(d) \/ BrokerCloses(d)
    BY <1>8 DEF FwConnectFails, FwFails, BrokerCloses, FwOnly
<1>9. CASE \E d \in BrokerDests : FwTick(d) \/ FwConnected(d) \/ FwRead(d) \/ FwDrained(d) \/ FwHalts(d)
                                 \/ \E r \in Rows : FwSend(d, r)
    BY <1>9, Zenon DEF FwTick, FwConnected, FwRead, FwDrained, FwHalts, FwSend, FwOnly
<1>10. QED
    BY <1>1, <1>2, <1>3, <1>4, <1>5, <1>6, <1>7, <1>8, <1>9, Zenon
    DEF Next, Uploading, Answering, Switches, Outside, Forwarding

\* A tick of the uploader sends first, or only prunes.
LEMMA UpTickStep ==
    ASSUME UpTick
    PROVE  up'.pc \in {"next", "prune"}
<1>. DEFINE own == {k \in account.radios : \E r \in InQueue : RadioOf[r] = k}
            pc == IF account.in THEN "next" ELSE "prune"
<1>1. up' = [IdleUploader EXCEPT !.pc = pc, !.known = account.in, !.own = own]
    BY DEF UpTick
<1>2. pc \in {"next", "prune"}
    OBVIOUS
<1>. HIDE DEF own, pc
<1>3. QED
    BY <1>1, <1>2 DEF IdleUploader

\* The uploader's batch is chosen by UpSend and stored by ServerStores.
LEMMA UpSteps ==
    ASSUME Next, TypeOK
    PROVE  \/ up' = up \/ up'.pc \in {"idle", "next", "prune"}
           \/ ServerStores \/ \E k \in Radios, n \in Rows : UpSend(k, n)
<1>. USE DEF TypeOK, Uploader, IdleUploader
<1>0. CASE UpTick
    BY <1>0, UpTickStep
<1>1. CASE UpNext \/ UpRest
    BY <1>1 DEF UpNext, UpRest
<1>2. CASE UploadStored \/ UploadRefused \/ UploadDenied \/ UploadFails
    BY <1>2 DEF UploadStored, UploadRefused, UploadDenied, UploadFails, Stopped
<1>3. CASE Reload \/ \E n \in Rows : UpPrune(n)
    BY <1>3 DEF Reload, UpPrune
<1>4. CASE Switches
    BY <1>4, Zenon DEF Switches, Config, SwitchedOn, SwitchOff, SwitchOn, SkipBacklog
<1>5. CASE AddRow \/ RadioLost \/ LogOut \/ SessionChanges \/ LoadMe \/ LoadMeFails
    BY <1>5, Zenon DEF AddRow, RadioLost, LogOut, SessionChanges, LoadMe, LoadMeFails
<1>6. CASE \/ \E k \in Radios : RadioConnect(k)
           \/ \E radios \in Accounts : LogIn(radios)
           \/ \E list \in SUBSET Brokers : OwnerLists(list)
    BY <1>6, Zenon DEF RadioConnect, LogIn, OwnerLists
<1>7. CASE \E d \in BrokerDests : FwConnectFails(d) \/ FwFails(d) \/ BrokerCloses(d) \/ Forwarding(d)
    BY <1>7, Zenon DEF Forwarding, FwConnectFails, FwFails, BrokerCloses, FwOnly, FwTick, FwConnected,
        FwRead, FwDrained, FwHalts, FwSend, BrokerTakes, FwPubAck
<1>8. QED
    BY <1>0, <1>1, <1>2, <1>3, <1>4, <1>5, <1>6, <1>7, Zenon DEF Next, Uploading, Answering, Outside

\* A forwarder after a step of one of them.
LEMMA BecomesAt ==
    ASSUME TypeOK, NEW d \in BrokerDests, NEW f, Becomes(d, f), NEW e \in BrokerDests
    PROVE  fw'[e] = IF e = d THEN f ELSE fw[e]
<1>1. QED
    BY DEF Becomes, TypeOK

\* A forwarder keeps its rows or has none in hand, unless it reads, sends or is answered.
Same(f, g) == g.pc = f.pc /\ g.kind = f.kind /\ g.rows = f.rows /\ g.row = f.row

LEMMA RewiredSteps ==
    ASSUME NEW on, NEW list, NEW k, fw' = Rewired(on, list, k), NEW d \in BrokerDests
    PROVE  /\ fw'[d] = fw[d] \/ fw'[d] \in {NoForwarder, NewForwarder}
           /\ fw'[d].pc # "none" => d \in on
<1>1. fw'[d] = IF d \notin on \/ d[1] \notin list \/ d[2] # k THEN NoForwarder
               ELSE IF fw[d].pc = "none" THEN NewForwarder ELSE fw[d]
    BY DEF Rewired
<1>2. NoForwarder.pc = "none"
    BY DEF NoForwarder
<1>3. QED
    BY <1>1, <1>2

LEMMA FwSteps ==
    ASSUME Next, TypeOK, NEW d \in BrokerDests
    PROVE  \/ Same(fw[d], fw'[d])
           \/ ~Busy(fw'[d]) /\ fw'[d].rows \subseteq fw[d].rows
           \/ FwRead(d) \/ BrokerTakes(d) \/ FwPubAck(d) \/ \E r \in Rows : FwSend(d, r)
<1>a. fw[d] \in Forwarder
    BY DEF TypeOK
<1>b. NoForwarder.rows = {} /\ ~Busy(NoForwarder) /\ NewForwarder.rows = {} /\ ~Busy(NewForwarder)
    BY DEF NoForwarder, NewForwarder, Busy
<1>1. CASE UNCHANGED fw
    BY <1>1 DEF Same
<1>2. ASSUME NEW on, NEW list, NEW k, fw' = Rewired(on, list, k)
      PROVE  Same(fw[d], fw'[d]) \/ (~Busy(fw'[d]) /\ fw'[d].rows \subseteq fw[d].rows)
    BY <1>2, <1>b, RewiredSteps DEF Same
<1>3. CASE Reload
    BY <1>3, <1>b DEF Reload
<1>4. CASE Config \/ SwitchedOn \/ (\E e \in BrokerDests : SwitchOff(e)) \/ RadioLost
           \/ \E k \in Radios : RadioConnect(k)
    BY <1>2, <1>4 DEF Config, SwitchedOn, SwitchOff, RadioLost, RadioConnect
<1>5. CASE LogOut \/ LoadMe \/ LoadMeFails
    BY <1>1, <1>2, <1>5 DEF LogOut, LoadMe, LoadMeFails, DropAccountBrokers
<1>6. CASE \E e \in BrokerDests : FwConnectFails(e) \/ FwFails(e) \/ BrokerCloses(e) \/ Forwarding(e)
    <2>1. PICK e \in BrokerDests : FwConnectFails(e) \/ FwFails(e) \/ BrokerCloses(e) \/ Forwarding(e)
        BY <1>6
    <2>2. CASE e # d
        <3>1. ASSUME NEW f, Becomes(e, f) PROVE fw'[d] = fw[d]
            BY <2>2, <3>1, BecomesAt
        <3>2. fw'[d] = fw[d]
            BY <2>1, <3>1, Zenon DEF Forwarding, FwConnectFails, FwFails, BrokerCloses, FwTick, FwConnected,
                FwRead, FwDrained, FwHalts, FwSend, BrokerTakes, FwPubAck
        <3>3. QED
            BY <3>2 DEF Same
    <2>3. CASE e = d
        <3>1. CASE FwTick(d) \/ FwConnected(d)
            <4>0. \/ fw'[d] = [fw[d] EXCEPT !.pc = IF fw[d].client THEN "reading" ELSE "connecting"]
                  \/ fw'[d] = [fw[d] EXCEPT !.pc = "reading", !.client = TRUE]
                BY <3>1, BecomesAt, Zenon DEF FwTick, FwConnected
            <4>1. fw'[d].pc \in {"reading", "connecting"} /\ fw'[d].rows = fw[d].rows
                BY <4>0, <1>a DEF Forwarder
            <4>2. QED
                BY <4>1 DEF Busy
        <3>2. CASE FwConnectFails(d) \/ FwHalts(d) \/ FwFails(d)
            <4>0. fw'[d] \in {Rested(fw[d]), Rested([fw[d] EXCEPT !.client = FALSE])}
                BY <3>2, BecomesAt, Zenon DEF FwConnectFails, FwHalts, FwFails
            <4>1. fw'[d].pc = "idle" /\ fw'[d].rows = {}
                BY <4>0, <1>a DEF Rested, Forwarder
            <4>2. QED
                BY <4>1 DEF Busy
        <3>3. CASE FwDrained(d)
            <4>0. fw[d].pc = "reading" /\ fw'[d] \in {[fw[d] EXCEPT !.kind = "track"], Rested(fw[d])}
                BY <3>3, BecomesAt, Zenon DEF FwDrained
            <4>1. fw'[d].pc \in {"idle", "reading"} /\ fw'[d].rows \subseteq fw[d].rows
                BY <4>0, <1>a DEF Rested, Forwarder
            <4>2. QED
                BY <4>1 DEF Busy
        <3>4. CASE BrokerCloses(d)
            BY <3>4, <1>a, BecomesAt DEF BrokerCloses, Same, Forwarder
        <3>5. QED
            BY <2>1, <2>3, <3>1, <3>2, <3>3, <3>4, Zenon DEF Forwarding
    <2>4. QED
        BY <2>2, <2>3
<1>8. CASE AddRow \/ SessionChanges \/ UploadFails \/ Uploading \/ Answering
    BY <1>1, <1>8, Zenon DEF AddRow, SessionChanges, UploadFails, Uploading, Answering, UpTick, UpNext, UpRest,
        UpSend, UpPrune, UploadStored, ServerStores, UploadRefused, UploadDenied
<1>9. CASE \/ \E radios \in Accounts : LogIn(radios)
           \/ \E list \in SUBSET Brokers : OwnerLists(list)
           \/ \E e \in BrokerDests : SwitchOn(e) \/ SkipBacklog(e)
    BY <1>1, <1>9, Zenon DEF LogIn, OwnerLists, SwitchOn, SkipBacklog
<1>10. QED
    BY <1>3, <1>4, <1>5, <1>6, <1>8, <1>9, Zenon DEF Next, Switches, Outside

-----------------------------------------------------------------------------
(* Operators *)

\* An acknowledgement moves one watermark, and only forward.
LEMMA AckedAt ==
    ASSUME TypeOK, NEW d, NEW kind \in Kinds, NEW r \in 0 .. N
    PROVE  /\ Acked(d, kind, r) \in [Dests -> [Kinds -> 0 .. N]]
           /\ \A e \in Dests, k \in Kinds :
                  Acked(d, kind, r)[e][k] =
                      IF e = d /\ k = kind /\ r > marks[e][k] THEN r ELSE marks[e][k]
<1>1. marks \in [Dests -> [Kinds -> 0 .. N]] /\ N \in Nat
    BY RowsAssumption DEF TypeOK
<1>2. ASSUME NEW e \in Dests
      PROVE  /\ Acked(d, kind, r)[e] \in [Kinds -> 0 .. N]
             /\ \A k \in Kinds : Acked(d, kind, r)[e][k] =
                    IF e = d /\ k = kind /\ r > marks[e][k] THEN r ELSE marks[e][k]
    <2>1. marks[e] \in [Kinds -> 0 .. N]
        BY <1>1
    <2>2. CASE e = d
        <3>1. Acked(d, kind, r)[e] =
                  [marks[e] EXCEPT ![kind] = IF r > marks[e][kind] THEN r ELSE marks[e][kind]]
            BY <1>1, <2>2 DEF Acked
        <3>2. QED
            BY <1>1, <2>1, <2>2, <3>1
    <2>3. CASE e # d
        <3>1. Acked(d, kind, r)[e] = marks[e]
            BY <1>1, <2>3 DEF Acked
        <3>2. QED
            BY <2>1, <2>3, <3>1
    <2>4. QED
        BY <2>2, <2>3
<1>3. Acked(d, kind, r) = [e \in Dests |-> Acked(d, kind, r)[e]]
    BY <1>1 DEF Acked
<1>4. QED
    BY <1>2, <1>3

\* A forwarder after the switches, the list or the radio changed.
LEMMA RewiredType ==
    ASSUME TypeOK, NEW on, NEW list, NEW k
    PROVE  Rewired(on, list, k) \in [BrokerDests -> Forwarder]
<1>1. 0 \in 0 .. N
    BY RowsAssumption
<1>2. NoForwarder \in Forwarder
    BY <1>1 DEF NoForwarder, Forwarder, Kinds
<1>3. NewForwarder \in Forwarder
    BY <1>2 DEF NewForwarder, Forwarder
<1>4. QED
    BY <1>2, <1>3 DEF Rewired, TypeOK

LEMMA BecomesType ==
    ASSUME TypeOK, NEW d \in BrokerDests, NEW f \in Forwarder, Becomes(d, f)
    PROVE  fw' \in [BrokerDests -> Forwarder]
<1>1. QED
    BY DEF Becomes, TypeOK

\* The idle uploader is one.
LEMMA IdleType == IdleUploader \in Uploader
<1>1. QED
    BY RowsAssumption DEF IdleUploader, Uploader, Kinds

\* What waits is in the database.
LEMMA WaitingRows ==
    ASSUME TypeOK, NEW d, NEW kind
    PROVE  Waiting(d, kind) \subseteq 1 .. stored /\ 1 .. stored \subseteq Rows
<1>1. QED
    BY RowsAssumption DEF Waiting, InQueue, TypeOK, Rows

-----------------------------------------------------------------------------
(* Types *)

\* What every step keeps, apart from the ledger, the uploader and the forwarders.
OtherTypes ==
    /\ enabled \subseteq BrokerDests /\ switching \in Switching
    /\ served \subseteq Brokers /\ listed \subseteq Brokers
    /\ radio \in Radios \cup {NoRadio}
    /\ account \in Login /\ cached \in Login /\ session \in Login
    /\ refresh \in {"no", "start", "403", "offline"}

LEMMA LedgerTypes ==
    ASSUME TypeOK, ForwardCovers, Next
    PROVE  /\ stored' \in 0 .. N /\ gone' \subseteq 1 .. stored'
           /\ marks' \in [Dests -> [Kinds -> 0 .. N]]
           /\ received' \in [Dests -> SUBSET Rows] /\ aside' \subseteq Rows
           /\ owed' \subseteq Dests \X (1 .. stored') /\ since' \in [BrokerDests -> 0 .. N]
<1>. USE RowsAssumption DEF TypeOK
<1>1. CASE UNCHANGED ledger
    BY <1>1 DEF ledger, database, history
<1>2. CASE AddRow
    <2>1. stored' \in 1 .. N /\ stored' = stored + 1
        BY <1>2 DEF AddRow
    <2>2. OwedBy(RadioOf[stored']) \subseteq Dests
        BY <2>1 DEF OwedBy, Dests, BrokerDests, ToLocal, Rows
    <2>3. UNCHANGED <<gone, marks, received, aside, since>>
          /\ owed' = owed \cup (OwedBy(RadioOf[stored']) \X {stored'})
        BY <1>2 DEF AddRow
    <2>4. owed' \subseteq Dests \X (1 .. stored')
        BY <2>1, <2>2, <2>3
    <2>5. QED
        BY <2>1, <2>3, <2>4
<1>3. CASE Config \/ \E d \in BrokerDests : SwitchOff(d)
    BY <1>3 DEF Config, SwitchOff, database
<1>4. CASE \E n \in Rows : UpPrune(n)
    BY <1>4 DEF UpPrune, InQueue
<1>5. CASE UploadStored \/ UploadRefused
    <2>1. up.last \in 0 .. N /\ up.kind \in Kinds /\ up.rows \subseteq Rows
        BY DEF Uploader
    <2>2. Acked(ToLocal(up.radio), up.kind, up.last) \in [Dests -> [Kinds -> 0 .. N]]
        BY <2>1, AckedAt
    <2>3. QED
        BY <1>5, <2>1, <2>2 DEF UploadStored, UploadRefused, SetAside, history
<1>6. CASE ServerStores
    <2>1. up.rows \subseteq Rows
        BY DEF Uploader
    <2>2. QED
        BY <1>6, <2>1 DEF ServerStores, database, history
<1>7. CASE \E d \in BrokerDests : SwitchOn(d) \/ SkipBacklog(d)
    <2>1. PICK d \in BrokerDests : SwitchOn(d) \/ SkipBacklog(d)
        BY <1>7
    <2>2. CASE SwitchOn(d)
        BY <2>2 DEF SwitchOn, database
    <2>3. CASE SkipBacklog(d)
        <3>1. PICK r \in 0 .. stored : marks' = Acked(d, switching.pc, r)
            BY <2>3 DEF SkipBacklog
        <3>2. r \in 0 .. N /\ switching.pc \in Kinds
            BY <2>3 DEF SkipBacklog
        <3>3. marks' \in [Dests -> [Kinds -> 0 .. N]]
            BY <3>1, <3>2, AckedAt
        <3>4. QED
            BY <2>3, <3>3 DEF SkipBacklog, history
    <2>4. QED
        BY <2>1, <2>2, <2>3
<1>8. CASE \E d \in BrokerDests : BrokerTakes(d) \/ FwPubAck(d)
    <2>1. PICK d \in BrokerDests : BrokerTakes(d) \/ FwPubAck(d)
        BY <1>8
    <2>2. fw[d].row \in 0 .. N /\ fw[d].kind \in Kinds
        BY DEF Forwarder
    <2>3. CASE BrokerTakes(d)
        <3>1. fw[d].row \in Rows
            BY <2>3 DEF BrokerTakes, ForwardCovers, Busy, Forwarder
        <3>2. QED
            BY <2>3, <3>1 DEF BrokerTakes, FwOnly, database, history
    <2>4. CASE FwPubAck(d)
        <3>1. marks' \in [Dests -> [Kinds -> 0 .. N]]
            BY <2>2, <2>4, AckedAt DEF FwPubAck
        <3>2. QED
            BY <2>4, <3>1 DEF FwPubAck, FwOnly, history
    <2>5. QED
        BY <2>1, <2>3, <2>4
<1>9. QED
    BY <1>1, <1>2, <1>3, <1>4, <1>5, <1>6, <1>7, <1>8, LedgerSteps

\* The other variables, but for the uploader and the forwarders.
LEMMA PageTypes ==
    ASSUME TypeOK, Next
    PROVE  OtherTypes'
<1>. USE DEF TypeOK, OtherTypes
<1>. DEFINE same == UNCHANGED <<switches, brokers, radio, people>>
<1>1. CASE same
    BY <1>1 DEF switches, brokers, people
<1>2. CASE Uploading \/ AddRow \/ ServerStores \/ UploadRefused
    BY <1>1, <1>2, Zenon DEF Uploading, AddRow, ServerStores, UploadRefused, UpTick, UpNext,
        UpRest, UpSend, UpPrune, UploadStored
<1>3. CASE \E d \in BrokerDests : FwConnectFails(d) \/ FwFails(d) \/ BrokerCloses(d) \/ Forwarding(d)
    BY <1>1, <1>3, Zenon DEF Forwarding, FwConnectFails, FwFails, BrokerCloses, FwOnly, FwTick, FwConnected,
        FwRead, FwDrained, FwHalts, FwSend, BrokerTakes, FwPubAck
<1>4. CASE UploadDenied \/ UploadFails \/ RadioLost
    BY <1>4 DEF UploadDenied, UploadFails, Rechecks, RadioLost, switches, brokers, people
<1>5. CASE \E k \in Radios : RadioConnect(k)
    BY <1>5 DEF RadioConnect, switches, brokers, people
<1>6. LoggedOut \in Login /\ NoSwitching \in Switching
    BY DEF LoggedOut, Login, NoSwitching, Switching
<1>7. CASE Reload
    BY <1>6, <1>7 DEF Reload, brokers
<1>8. CASE LogOut \/ LoadMe \/ LoadMeFails
    BY <1>6, <1>8 DEF LogOut, LoadMe, LoadMeFails, Rechecks, DropAccountBrokers, switches, brokers
<1>9. CASE SessionChanges
    BY <1>6, <1>9 DEF SessionChanges, Login, switches, brokers
<1>10. CASE \E radios \in Accounts : LogIn(radios)
    BY <1>10, AccountsAssumption DEF LogIn, Login, switches, brokers
<1>11. CASE \E list \in SUBSET Brokers : OwnerLists(list)
    BY <1>11 DEF OwnerLists, switches, people
<1>12. CASE Config
    BY <1>12 DEF Config, people
<1>13. CASE \E d \in BrokerDests : SwitchOff(d)
    BY <1>13 DEF SwitchOff, brokers, people
<1>14. CASE \E d \in BrokerDests : SwitchOn(d)
    BY <1>14 DEF SwitchOn, brokers, people, Switching
<1>15. CASE \E d \in BrokerDests : SkipBacklog(d)
    BY <1>15 DEF SkipBacklog, brokers, people, Switching
<1>16. CASE SwitchedOn
    BY <1>6, <1>16 DEF SwitchedOn, brokers, people, Switching
<1>17. QED
    BY <1>2, <1>3, <1>4, <1>5, <1>7, <1>8, <1>9, <1>10, <1>11, <1>12, <1>13, <1>14, <1>15, <1>16, Zenon
    DEF Next, Answering, Switches, Outside

LEMMA UploaderType ==
    ASSUME TypeOK, Next
    PROVE  up' \in Uploader
<1>. USE DEF TypeOK
<1>a. up \in Uploader
    OBVIOUS
<1>1. CASE UpTick
    <2>. DEFINE own == {k \in account.radios : \E r \in InQueue : RadioOf[r] = k}
                pc == IF account.in THEN "next" ELSE "prune"
    <2>1. up' = [IdleUploader EXCEPT !.pc = pc, !.known = account.in, !.own = own]
        BY <1>1 DEF UpTick
    <2>2. pc \in {"next", "prune"} /\ account.in \in BOOLEAN /\ own \in SUBSET Radios
        BY DEF Login
    <2>. HIDE DEF own, pc
    <2>3. QED
        BY <2>1, <2>2, IdleType DEF Uploader
<1>2. CASE UpNext \/ UpRest
    BY <1>a, <1>2, IdleType DEF UpNext, UpRest, Uploader, Kinds
<1>3. CASE \E k \in Radios, n \in Rows : UpSend(k, n)
    <2>1. PICK k \in Radios, n \in Rows : UpSend(k, n)
        BY <1>3
    <2>. DEFINE batch == {r \in Waiting(ToLocal(k), up.kind) : r <= n}
    <2>2. up' = [up EXCEPT !.pc = "posted", !.radio = k, !.rows = batch, !.last = n]
        BY <2>1 DEF UpSend
    <2>3. batch \subseteq Rows /\ n \in 0 .. N
        BY WaitingRows, RowsAssumption DEF Rows
    <2>. HIDE DEF batch
    <2>4. QED
        BY <1>a, <2>2, <2>3 DEF Uploader
<1>4. CASE UploadStored \/ UploadRefused \/ UploadDenied \/ UploadFails \/ ServerStores
    <2>1. 0 \in 0 .. N
        BY RowsAssumption
    <2>2. QED
        BY <1>a, <1>4, <2>1 DEF UploadStored, UploadRefused, UploadDenied, UploadFails, ServerStores, Stopped,
            Uploader
<1>5. CASE Reload \/ \E n \in Rows : UpPrune(n)
    BY <1>5, IdleType DEF Reload, UpPrune
<1>6. CASE Switches
    BY <1>a, <1>6, Zenon DEF Switches, Config, SwitchedOn, SwitchOff, SwitchOn, SkipBacklog
<1>7. CASE AddRow \/ RadioLost \/ LogOut \/ SessionChanges \/ LoadMe \/ LoadMeFails
    BY <1>a, <1>7, Zenon DEF AddRow, RadioLost, LogOut, SessionChanges, LoadMe, LoadMeFails
<1>8. CASE \/ \E k \in Radios : RadioConnect(k)
           \/ \E radios \in Accounts : LogIn(radios)
           \/ \E list \in SUBSET Brokers : OwnerLists(list)
    BY <1>a, <1>8, Zenon DEF RadioConnect, LogIn, OwnerLists
<1>9. CASE \E d \in BrokerDests : FwConnectFails(d) \/ FwFails(d) \/ BrokerCloses(d) \/ Forwarding(d)
    BY <1>a, <1>9, Zenon DEF Forwarding, FwConnectFails, FwFails, BrokerCloses, FwOnly, FwTick, FwConnected,
        FwRead, FwDrained, FwHalts, FwSend, BrokerTakes, FwPubAck
<1>10. QED
    BY <1>1, <1>2, <1>3, <1>4, <1>5, <1>6, <1>7, <1>8, <1>9, Zenon DEF Next, Uploading, Answering, Outside

LEMMA ForwarderTypes ==
    ASSUME TypeOK, Next
    PROVE  fw' \in [BrokerDests -> Forwarder]
<1>1. CASE UNCHANGED fw
    BY <1>1 DEF TypeOK
<1>2. CASE \E d \in BrokerDests : FwConnectFails(d) \/ FwFails(d) \/ BrokerCloses(d) \/ Forwarding(d)
    <2>1. PICK d \in BrokerDests : FwConnectFails(d) \/ FwFails(d) \/ BrokerCloses(d) \/ Forwarding(d)
        BY <1>2
    <2>2. fw[d] \in Forwarder /\ 0 \in 0 .. N
        BY RowsAssumption DEF TypeOK
    <2>3. CASE FwTick(d)
        <3>. DEFINE pc == IF fw[d].client THEN "reading" ELSE "connecting"
        <3>1. pc \in {"reading", "connecting"}
            OBVIOUS
        <3>. HIDE DEF pc
        <3>2. [fw[d] EXCEPT !.pc = pc] \in Forwarder
            BY <2>2, <3>1 DEF Forwarder
        <3>3. QED
            BY <2>3, <3>2, BecomesType DEF FwTick, pc
    <2>4. CASE FwConnected(d)
        <3>1. [fw[d] EXCEPT !.pc = "reading", !.client = TRUE] \in Forwarder
            BY <2>2 DEF Forwarder
        <3>2. QED
            BY <2>4, <3>1, BecomesType DEF FwConnected
    <2>5. CASE FwConnectFails(d) \/ FwHalts(d) \/ FwFails(d)
        <3>1. Rested(fw[d]) \in Forwarder /\ Rested([fw[d] EXCEPT !.client = FALSE]) \in Forwarder
            BY <2>2 DEF Rested, Forwarder, Kinds
        <3>2. QED
            BY <2>5, <3>1, BecomesType DEF FwConnectFails, FwHalts, FwFails
    <2>6. CASE FwRead(d)
        <3>1. [fw[d] EXCEPT !.pc = "sending", !.rows = Waiting(d, fw[d].kind)] \in Forwarder
            BY <2>2, WaitingRows DEF Forwarder
        <3>2. QED
            BY <2>6, <3>1, BecomesType DEF FwRead
    <2>7. CASE FwDrained(d)
        <3>1. [fw[d] EXCEPT !.kind = "track"] \in Forwarder /\ Rested(fw[d]) \in Forwarder
            BY <2>2 DEF Rested, Forwarder, Kinds
        <3>2. QED
            BY <2>7, <3>1, BecomesType DEF FwDrained
    <2>8. CASE \E r \in Rows : FwSend(d, r)
        <3>1. PICK r \in Rows : FwSend(d, r)
            BY <2>8
        <3>2. r \in 0 .. N
            BY RowsAssumption DEF Rows
        <3>3. [fw[d] EXCEPT !.pc = "sent", !.row = r] \in Forwarder
            BY <2>2, <3>2 DEF Forwarder
        <3>4. QED
            BY <3>1, <3>3, BecomesType DEF FwSend
    <2>9. CASE BrokerTakes(d) \/ BrokerCloses(d)
        <3>1. [fw[d] EXCEPT !.pc = "taken"] \in Forwarder /\ [fw[d] EXCEPT !.client = FALSE] \in Forwarder
            BY <2>2 DEF Forwarder
        <3>2. QED
            BY <2>9, <3>1, BecomesType DEF BrokerTakes, BrokerCloses
    <2>10. CASE FwPubAck(d)
        <3>. DEFINE rest == fw[d].rows \ {fw[d].row}
                    pc == IF rest = {} THEN "reading" ELSE "sending"
        <3>1. pc \in {"reading", "sending"} /\ rest \subseteq Rows
            BY <2>2 DEF Forwarder
        <3>2. Becomes(d, [fw[d] EXCEPT !.pc = pc, !.rows = rest, !.row = 0])
            BY <2>10 DEF FwPubAck
        <3>. HIDE DEF rest, pc
        <3>3. [fw[d] EXCEPT !.pc = pc, !.rows = rest, !.row = 0] \in Forwarder
            BY <2>2, <3>1 DEF Forwarder
        <3>4. QED
            BY <3>2, <3>3, BecomesType
    <2>11. QED
        BY <2>1, <2>3, <2>4, <2>5, <2>6, <2>7, <2>8, <2>9, <2>10, Zenon DEF Forwarding
<1>3. CASE Config \/ SwitchedOn \/ (\E e \in BrokerDests : SwitchOff(e)) \/ RadioLost
           \/ \E k \in Radios : RadioConnect(k)
    BY <1>3, RewiredType DEF Config, SwitchedOn, SwitchOff, RadioLost, RadioConnect
<1>4. CASE LogOut \/ LoadMe \/ LoadMeFails
    BY <1>1, <1>4, RewiredType DEF LogOut, LoadMe, LoadMeFails, DropAccountBrokers
<1>5. CASE Reload
    <2>1. NoForwarder \in Forwarder
        BY RowsAssumption DEF NoForwarder, Forwarder, Kinds
    <2>2. QED
        BY <1>5, <2>1 DEF Reload
<1>6. CASE AddRow \/ SessionChanges \/ UploadFails \/ Uploading \/ Answering
    BY <1>1, <1>6, Zenon DEF AddRow, SessionChanges, UploadFails, Uploading, Answering, UpTick, UpNext, UpRest,
        UpSend, UpPrune, UploadStored, ServerStores, UploadRefused, UploadDenied
<1>7. CASE \/ \E radios \in Accounts : LogIn(radios)
           \/ \E list \in SUBSET Brokers : OwnerLists(list)
           \/ \E e \in BrokerDests : SwitchOn(e) \/ SkipBacklog(e)
    BY <1>1, <1>7, Zenon DEF LogIn, OwnerLists, SwitchOn, SkipBacklog
<1>8. QED
    BY <1>2, <1>3, <1>4, <1>5, <1>6, <1>7, Zenon DEF Next, Switches, Outside

LEMMA BudgetsType ==
    ASSUME TypeOK, Next
    PROVE  left' \in [Bounded -> Nat]
<1>1. left \in [Bounded -> Nat]
    BY DEF TypeOK
<1>2. ASSUME NEW kind \in Bounded, Spend(kind) PROVE left' \in [Bounded -> Nat]
    <2>1. left[kind] \in Nat /\ left[kind] - 1 \in Nat
        BY <1>1, <1>2 DEF Spend
    <2>2. QED
        BY <1>1, <1>2, <2>1 DEF Spend
<1>3. CASE UNCHANGED left
    BY <1>1, <1>3
<1>4. CASE Uploading \/ Answering \/ AddRow \/ RadioLost \/ LoadMe \/ Config \/ SwitchedOn
           \/ \E d \in BrokerDests : Forwarding(d) \/ SkipBacklog(d)
    BY <1>3, <1>4, Zenon DEF Uploading, Answering, AddRow, RadioLost, LoadMe, Config, SwitchedOn, Forwarding,
        SkipBacklog, UpTick, UpNext, UpRest, UpSend, UpPrune, UploadStored, ServerStores, UploadRefused,
        UploadDenied, FwTick, FwConnected, FwRead, FwDrained, FwHalts, FwSend, BrokerTakes, FwPubAck
<1>5. CASE Reload \/ LogOut \/ SessionChanges \/ LoadMeFails \/ UploadFails
           \/ (\E k \in Radios : RadioConnect(k)) \/ (\E radios \in Accounts : LogIn(radios))
           \/ (\E list \in SUBSET Brokers : OwnerLists(list))
           \/ \E d \in BrokerDests : SwitchOff(d) \/ SwitchOn(d) \/ FwConnectFails(d) \/ FwFails(d) \/ BrokerCloses(d)
    <2>1. UNCHANGED left \/ \E kind \in Bounded : Spend(kind)
        BY <1>5, Zenon DEF Reload, LogOut, SessionChanges, LoadMeFails, UploadFails, RadioConnect, LogIn,
            OwnerLists, SwitchOff, SwitchOn, FwConnectFails, FwFails, BrokerCloses, Bounded
    <2>2. QED
        BY <1>2, <1>3, <2>1
<1>6. QED
    BY <1>4, <1>5, Zenon DEF Next, Switches, Outside

LEMMA TypesKept ==
    ASSUME TypeOK, ForwardCovers, [Next]_vars
    PROVE  TypeOK'
<1>1. CASE Next
    BY <1>1, LedgerTypes, PageTypes, UploaderType, ForwarderTypes, BudgetsType DEF TypeOK, OtherTypes
<1>2. CASE UNCHANGED vars
    BY <1>2 DEF TypeOK, vars, database, switches, brokers, people, history
<1>3. QED
    BY <1>1, <1>2

-----------------------------------------------------------------------------
(* What a step does to the ledger *)

\* Rows are never taken back, only UpPrune deletes some, and only SwitchOn notes how many there
\* were when a destination was switched on.
LEMMA StoredGrows ==
    ASSUME TypeOK, Next
    PROVE  /\ stored \in Nat /\ stored' \in Nat /\ stored <= stored'
           /\ gone \subseteq gone'
           /\ (\E n \in Rows : UpPrune(n)) \/ gone' = gone
           /\ \A d \in BrokerDests : since'[d] = since[d] \/ (SwitchOn(d) /\ since'[d] = stored)
<1>. USE RowsAssumption DEF TypeOK
<1>1. CASE UNCHANGED ledger
    BY <1>1 DEF ledger, database, history
<1>2. CASE AddRow \/ Config \/ UploadStored \/ UploadRefused \/ ServerStores
    BY <1>2 DEF AddRow, Config, UploadStored, UploadRefused, ServerStores, database, history
<1>3. CASE \E n \in Rows : UpPrune(n)
    BY <1>3 DEF UpPrune
<1>4. CASE \E d \in BrokerDests : SwitchOff(d) \/ SkipBacklog(d) \/ BrokerTakes(d) \/ FwPubAck(d)
    BY <1>4 DEF SwitchOff, SkipBacklog, BrokerTakes, FwPubAck, FwOnly, database, history
<1>5. CASE \E d \in BrokerDests : SwitchOn(d)
    <2>1. PICK d \in BrokerDests : SwitchOn(d)
        BY <1>5
    <2>2. UNCHANGED database /\ since' = [since EXCEPT ![d] = stored]
        BY <2>1 DEF SwitchOn
    <2>3. \A e \in BrokerDests : since'[e] = IF e = d THEN stored ELSE since[e]
        BY <2>2
    <2>4. QED
        BY <2>1, <2>2, <2>3 DEF database
<1>6. QED
    BY <1>1, <1>2, <1>3, <1>4, <1>5, LedgerSteps, Zenon

\* The watermarks after an acknowledgement.
LEMMA AckedStep ==
    ASSUME TypeOK, NEW e, NEW k \in Kinds, NEW r \in 0 .. N, marks' = Acked(e, k, r),
           NEW d \in Dests, NEW kind \in Kinds
    PROVE  /\ marks[d][kind] <= marks'[d][kind]
           /\ marks'[d][kind] = marks[d][kind] \/ (d = e /\ kind = k /\ marks'[d][kind] = r)
           /\ d = e /\ kind = k => r <= marks'[d][kind]
<1>1. marks'[d][kind] = IF d = e /\ kind = k /\ r > marks[d][kind] THEN r ELSE marks[d][kind]
    BY AckedAt
<1>2. marks[d][kind] \in 0 .. N /\ N \in Nat
    BY RowsAssumption DEF TypeOK
<1>3. QED
    BY <1>1, <1>2

\* A watermark moves to the end of an answered batch, to an acknowledged row, or past the
\* backlog of a broker that is switched on.
LEMMA MarksMove ==
    ASSUME TypeOK, Next, NEW d \in Dests, NEW kind \in Kinds
    PROVE  /\ marks[d][kind] <= marks'[d][kind]
           /\ \/ marks'[d][kind] = marks[d][kind]
              \/ /\ UploadStored \/ UploadRefused
                 /\ d = ToLocal(up.radio) /\ kind = up.kind /\ marks'[d][kind] = up.last
              \/ /\ d \in BrokerDests /\ FwPubAck(d)
                 /\ kind = fw[d].kind /\ marks'[d][kind] = fw[d].row
              \/ d \in BrokerDests /\ SkipBacklog(d) /\ marks'[d][kind] <= stored
<1>a. marks[d][kind] \in 0 .. N /\ N \in Nat /\ stored \in 0 .. N
    BY RowsAssumption DEF TypeOK
<1>1. CASE UNCHANGED marks
    BY <1>a, <1>1
<1>2. CASE UploadStored \/ UploadRefused
    <2>1. up.last \in 0 .. N /\ up.kind \in Kinds
        BY DEF TypeOK, Uploader
    <2>2. marks' = Acked(ToLocal(up.radio), up.kind, up.last)
        BY <1>2 DEF UploadStored, UploadRefused, SetAside
    <2>3. /\ marks[d][kind] <= marks'[d][kind]
          /\ marks'[d][kind] = marks[d][kind]
             \/ (d = ToLocal(up.radio) /\ kind = up.kind /\ marks'[d][kind] = up.last)
        BY <2>1, <2>2, AckedStep, Zenon
    <2>4. QED
        BY <1>2, <2>3, Zenon
<1>3. CASE \E e \in BrokerDests : FwPubAck(e)
    <2>1. PICK e \in BrokerDests : FwPubAck(e)
        BY <1>3
    <2>2. fw[e].row \in 0 .. N /\ fw[e].kind \in Kinds
        BY DEF TypeOK, Forwarder
    <2>3. marks' = Acked(e, fw[e].kind, fw[e].row)
        BY <2>1 DEF FwPubAck
    <2>4. /\ marks[d][kind] <= marks'[d][kind]
          /\ marks'[d][kind] = marks[d][kind]
             \/ (d = e /\ kind = fw[e].kind /\ marks'[d][kind] = fw[e].row)
        BY <2>2, <2>3, AckedStep, Zenon
    <2>5. QED
        BY <2>1, <2>4, Zenon
<1>4. CASE \E e \in BrokerDests : SkipBacklog(e)
    <2>1. PICK e \in BrokerDests : SkipBacklog(e)
        BY <1>4
    <2>2. PICK r \in 0 .. stored : marks' = Acked(e, switching.pc, r)
        BY <2>1 DEF SkipBacklog
    <2>3. r \in 0 .. N /\ switching.pc \in Kinds
        BY <1>a, <2>1 DEF SkipBacklog
    <2>4. /\ marks[d][kind] <= marks'[d][kind]
          /\ marks'[d][kind] = marks[d][kind] \/ (d = e /\ kind = switching.pc /\ marks'[d][kind] = r)
        BY <2>2, <2>3, AckedStep, Zenon
    <2>5. r <= stored
        BY <1>a
    <2>6. QED
        BY <2>1, <2>4, <2>5, Zenon
<1>5. CASE \/ AddRow \/ Config \/ ServerStores \/ (\E n \in Rows : UpPrune(n))
           \/ \E e \in BrokerDests : SwitchOff(e) \/ SwitchOn(e) \/ BrokerTakes(e)
    BY <1>1, <1>5 DEF AddRow, Config, ServerStores, UpPrune, SwitchOff, SwitchOn, BrokerTakes, database
<1>6. CASE UNCHANGED ledger
    BY <1>1, <1>6 DEF ledger, database
<1>7. QED
    BY <1>2, <1>3, <1>4, <1>5, <1>6, LedgerSteps, Zenon

\* What a destination has, it keeps.
LEMMA ReceivedGrows ==
    ASSUME TypeOK, Next, NEW d \in Dests
    PROVE  received[d] \subseteq received'[d] /\ aside \subseteq aside'
<1>. USE DEF TypeOK
<1>1. CASE UNCHANGED ledger
    BY <1>1 DEF ledger
<1>2. CASE AddRow \/ Config \/ UploadStored \/ UploadRefused \/ \E n \in Rows : UpPrune(n)
    BY <1>2 DEF AddRow, Config, UploadStored, UploadRefused, UpPrune
<1>3. CASE ServerStores
    BY <1>3 DEF ServerStores
<1>4. CASE \E e \in BrokerDests : SwitchOff(e) \/ SwitchOn(e) \/ SkipBacklog(e) \/ FwPubAck(e)
    BY <1>4 DEF SwitchOff, SwitchOn, SkipBacklog, FwPubAck, FwOnly
<1>5. CASE \E e \in BrokerDests : BrokerTakes(e)
    BY <1>5 DEF BrokerTakes, FwOnly
<1>6. QED
    BY <1>1, <1>2, <1>3, <1>4, <1>5, LedgerSteps, Zenon

LEMMA HasGrows ==
    ASSUME TypeOK, Next, NEW d \in Dests, NEW r, Has(d, r)
    PROVE  Has(d, r)'
<1>1. QED
    BY ReceivedGrows DEF Has

\* What is owed after a step was owed before, or is the row just added.
LEMMA OwedSteps ==
    ASSUME TypeOK, Next, NEW p \in owed'
    PROVE  \/ p \in owed
           \/ /\ AddRow /\ p[1] \in OwedBy(RadioOf[stored + 1]) /\ p[2] = stored + 1
              /\ p \notin owed
<1>1. CASE UNCHANGED ledger
    BY <1>1 DEF ledger, history
<1>2. CASE AddRow
    BY <1>2 DEF AddRow
<1>3. CASE Config \/ UploadStored \/ UploadRefused \/ ServerStores \/ \E n \in Rows : UpPrune(n)
    BY <1>3 DEF Config, UploadStored, UploadRefused, ServerStores, UpPrune, history
<1>4. CASE \E d \in BrokerDests : \/ SwitchOff(d) \/ SwitchOn(d) \/ SkipBacklog(d)
                                  \/ BrokerTakes(d) \/ FwPubAck(d)
    BY <1>4 DEF SwitchOff, SwitchOn, SkipBacklog, BrokerTakes, FwPubAck, FwOnly, history
<1>5. QED
    BY <1>1, <1>2, <1>3, <1>4, LedgerSteps, Zenon

\* A pair of what is owed.
LEMMA OwedPair ==
    ASSUME TypeOK, NEW p \in owed
    PROVE  /\ p[1] \in Dests /\ p[2] \in 1 .. stored /\ p[2] \in Rows /\ KindOf[p[2]] \in Kinds
           /\ p[1][1] \in Brokers \cup {Local} /\ p[1][2] \in Radios
           /\ p[1][1] # Local => p[1] \in BrokerDests
           /\ p[1][1] = Local => p[1] = ToLocal(p[1][2]) /\ Firm(p[1])
<1>1. p[1] \in Dests /\ p[2] \in 1 .. stored
    BY DEF TypeOK
<1>2. p[2] \in Rows /\ KindOf[p[2]] \in Kinds
    BY <1>1, RowsAssumption DEF TypeOK, Rows
<1>3. /\ p[1][1] \in Brokers \cup {Local} /\ p[1][2] \in Radios
      /\ p[1][1] # Local => p[1] \in BrokerDests
      /\ p[1][1] = Local => p[1] = ToLocal(p[1][2]) /\ Firm(p[1])
    BY <1>1, PartiesAssumption DEF Dests, BrokerDests, ToLocal, Firm
<1>4. QED
    BY <1>1, <1>2, <1>3

-----------------------------------------------------------------------------
(* The inductive invariant *)

\* The upload that is sent and its answer.
LEMMA UpSendAt ==
    ASSUME TypeOK, NEW k \in Radios, NEW n \in Rows, UpSend(k, n)
    PROVE  /\ up'.pc = "posted" /\ up'.kind = up.kind /\ up'.radio = k /\ up'.last = n
           /\ up'.rows = {r \in Waiting(ToLocal(k), up.kind) : r <= n}
           /\ n \in Waiting(ToLocal(k), up.kind)
           /\ UNCHANGED <<stored, gone, marks, received, aside, owed, fw, enabled, served, switching, since>>
<1>. DEFINE batch == {r \in Waiting(ToLocal(k), up.kind) : r <= n}
<1>1. up \in Uploader
    BY DEF TypeOK
<1>2. up' = [up EXCEPT !.pc = "posted", !.radio = k, !.rows = batch, !.last = n]
    BY DEF UpSend
<1>3. n \in Waiting(ToLocal(k), up.kind)
      /\ UNCHANGED <<stored, gone, marks, received, aside, owed, fw, enabled, served, switching, since>>
    BY DEF UpSend, database, switches, brokers, history
<1>. HIDE DEF batch
<1>4. up'.pc = "posted" /\ up'.kind = up.kind /\ up'.radio = k /\ up'.last = n /\ up'.rows = batch
    BY <1>1, <1>2 DEF Uploader
<1>5. QED
    BY <1>3, <1>4 DEF batch

LEMMA ServerStoresAt ==
    ASSUME TypeOK, UploadCovers, ServerStores
    PROVE  /\ up.pc = "posted" /\ up'.kind = up.kind /\ up'.radio = up.radio /\ up'.last = up.last
           /\ up'.rows = up.rows /\ up.rows \subseteq received'[ToLocal(up.radio)]
           /\ UNCHANGED <<stored, gone, marks, owed, aside, fw>>
<1>1. up \in Uploader /\ ToLocal(up.radio) \in Dests
    BY DEF TypeOK, ServerStores, UploadCovers, ToLocal, Dests
<1>2. up.rows \subseteq received'[ToLocal(up.radio)]
    BY <1>1 DEF ServerStores, TypeOK
<1>3. up' = [up EXCEPT !.pc = "stored"] /\ up.pc = "posted"
      /\ UNCHANGED <<stored, gone, marks, owed, aside, fw>>
    BY DEF ServerStores, database, history
<1>4. QED
    BY <1>1, <1>2, <1>3 DEF Uploader

\* A forwarder that reads, sends and is answered.
LEMMA FwReadAt ==
    ASSUME TypeOK, NEW d \in BrokerDests, FwRead(d)
    PROVE  /\ fw'[d].pc = "sending" /\ fw'[d].kind = fw[d].kind
           /\ fw'[d].rows = Waiting(d, fw[d].kind)
           /\ UNCHANGED <<stored, gone, marks, received, aside, owed, since>>
<1>1. fw[d] \in Forwarder
    BY DEF TypeOK
<1>2. fw'[d] = [fw[d] EXCEPT !.pc = "sending", !.rows = Waiting(d, fw[d].kind)]
    BY BecomesAt DEF FwRead
<1>3. QED
    BY <1>1, <1>2 DEF FwRead, FwOnly, database, history, Forwarder

LEMMA FwSendAt ==
    ASSUME TypeOK, NEW d \in BrokerDests, NEW r \in Rows, FwSend(d, r)
    PROVE  /\ fw[d].pc = "sending" /\ fw'[d].pc = "sent" /\ fw'[d].kind = fw[d].kind
           /\ fw'[d].rows = fw[d].rows /\ fw'[d].row = r
           /\ r \in fw[d].rows /\ \A q \in fw[d].rows : r <= q
           /\ UNCHANGED <<stored, gone, marks, received, aside, owed, since>>
<1>1. fw[d] \in Forwarder
    BY DEF TypeOK
<1>2. fw'[d] = [fw[d] EXCEPT !.pc = "sent", !.row = r]
    BY BecomesAt DEF FwSend
<1>3. QED
    BY <1>1, <1>2 DEF FwSend, FwOnly, database, history, Forwarder

LEMMA BrokerTakesAt ==
    ASSUME TypeOK, NEW d \in BrokerDests, BrokerTakes(d)
    PROVE  /\ fw[d].pc = "sent" /\ fw'[d].pc = "taken" /\ fw'[d].kind = fw[d].kind
           /\ fw'[d].rows = fw[d].rows /\ fw'[d].row = fw[d].row
           /\ fw[d].row \in received'[d]
           /\ UNCHANGED <<stored, gone, marks, aside, owed, since>>
<1>1. fw[d] \in Forwarder /\ d \in Dests
    BY DEF TypeOK, Dests, BrokerDests
<1>2. fw'[d] = [fw[d] EXCEPT !.pc = "taken"]
    BY BecomesAt DEF BrokerTakes
<1>3. fw[d].row \in received'[d]
    BY <1>1 DEF BrokerTakes, TypeOK
<1>4. QED
    BY <1>1, <1>2, <1>3 DEF BrokerTakes, FwOnly, database, history, Forwarder

LEMMA FwPubAckAt ==
    ASSUME TypeOK, NEW d \in BrokerDests, FwPubAck(d)
    PROVE  /\ fw[d].pc = "taken" /\ fw'[d].pc \in {"reading", "sending"} /\ fw'[d].kind = fw[d].kind
           /\ fw'[d].rows = fw[d].rows \ {fw[d].row}
           /\ UNCHANGED <<stored, gone, received, aside, owed, since>>
<1>. DEFINE rest == fw[d].rows \ {fw[d].row}
            pc == IF rest = {} THEN "reading" ELSE "sending"
<1>1. fw[d] \in Forwarder
    BY DEF TypeOK
<1>2. fw'[d] = [fw[d] EXCEPT !.pc = pc, !.rows = rest, !.row = 0]
    BY BecomesAt DEF FwPubAck
<1>3. pc \in {"reading", "sending"}
    OBVIOUS
<1>. HIDE DEF pc
<1>4. QED
    BY <1>1, <1>2, <1>3 DEF FwPubAck, FwOnly, history, Forwarder

\* Nothing refers to rows that are not there yet.
LEMMA WithinStoredKept ==
    ASSUME IInv, Next
    PROVE  WithinStored'
<1>. USE DEF IInv
<1>1. stored \in Nat /\ stored' \in Nat /\ stored <= stored'
    BY StoredGrows
<1>2. ASSUME NEW d \in Dests, NEW kind \in Kinds PROVE marks'[d][kind] <= stored'
    <2>1. marks[d][kind] \in Int /\ marks'[d][kind] \in Int
        BY LedgerTypes DEF TypeOK
    <2>2. marks[d][kind] <= stored
        BY DEF WithinStored
    <2>3. CASE (UploadStored \/ UploadRefused) /\ marks'[d][kind] = up.last
        <3>1. up.last \in Int /\ up.last <= stored
            BY <2>3 DEF WithinStored, UploadStored, UploadRefused, TypeOK, Uploader
        <3>2. QED
            BY <1>1, <2>3, <3>1
    <2>4. CASE d \in BrokerDests /\ FwPubAck(d) /\ marks'[d][kind] = fw[d].row
        <3>1. fw[d].row \in 1 .. stored
            BY <2>4 DEF FwPubAck, ForwardCovers, WithinStored, Busy
        <3>2. QED
            BY <1>1, <2>4, <3>1
    <2>5. QED
        BY <1>1, <2>1, <2>2, <2>3, <2>4, MarksMove
<1>3. up'.pc \in {"posted", "stored"} => up'.last <= stored'
    <2>1. up.last \in Int
        BY DEF TypeOK, Uploader
    <2>2. CASE up' = up
        BY <1>1, <2>1, <2>2 DEF WithinStored
    <2>3. CASE ServerStores
        BY <1>1, <2>1, <2>3, ServerStoresAt DEF WithinStored
    <2>4. CASE \E k \in Radios, n \in Rows : UpSend(k, n)
        <3>1. PICK k \in Radios, n \in Rows : UpSend(k, n)
            BY <2>4
        <3>2. up'.last = n /\ n \in 1 .. stored
            BY <3>1, UpSendAt, WaitingRows
        <3>3. QED
            BY <1>1, <3>2
    <2>5. QED
        BY <2>2, <2>3, <2>4, UpSteps
<1>4. ASSUME NEW d \in BrokerDests PROVE since'[d] <= stored' /\ fw'[d].rows \subseteq 1 .. stored'
    <2>1. since[d] \in Int /\ since[d] <= stored /\ fw[d].rows \subseteq 1 .. stored
        BY DEF WithinStored, TypeOK
    <2>2. since'[d] <= stored'
        BY <1>1, <2>1, StoredGrows
    <2>3. fw'[d].rows \subseteq fw[d].rows \/ fw'[d].rows \subseteq 1 .. stored
        BY FwSteps, FwReadAt, FwSendAt, BrokerTakesAt, FwPubAckAt, WaitingRows DEF Same
    <2>4. QED
        BY <1>1, <2>1, <2>2, <2>3
<1>5. QED
    BY <1>2, <1>3, <1>4 DEF WithinStored

\* Which steps change the switches and the lists.
LEMMA PageSteps ==
    ASSUME Next
    PROVE  /\ \/ UNCHANGED switches \/ Reload \/ SwitchedOn \/ Config
              \/ \E d \in BrokerDests : SwitchOff(d) \/ SwitchOn(d) \/ SkipBacklog(d)
           /\ \/ UNCHANGED brokers \/ LogOut \/ LoadMe \/ LoadMeFails \/ Config
              \/ \E list \in SUBSET Brokers : OwnerLists(list)
<1>1. CASE Uploading \/ Answering
    BY <1>1, Zenon DEF Uploading, Answering, UpTick, UpNext, UpRest, UpSend, UpPrune, UploadStored,
        ServerStores, UploadRefused, UploadDenied
<1>2. CASE \E d \in BrokerDests : FwConnectFails(d) \/ FwFails(d) \/ BrokerCloses(d) \/ Forwarding(d)
    BY <1>2, Zenon DEF Forwarding, FwConnectFails, FwFails, BrokerCloses, FwOnly, FwTick, FwConnected,
        FwRead, FwDrained, FwHalts, FwSend, BrokerTakes, FwPubAck
<1>3. CASE AddRow \/ RadioLost \/ Reload \/ LogOut \/ SessionChanges \/ LoadMe \/ LoadMeFails \/ UploadFails
    BY <1>3, Zenon DEF AddRow, RadioLost, Reload, LogOut, SessionChanges, LoadMe, LoadMeFails, UploadFails
<1>4. CASE \/ \E k \in Radios : RadioConnect(k)
           \/ \E radios \in Accounts : LogIn(radios)
           \/ \E list \in SUBSET Brokers : OwnerLists(list)
    BY <1>4, Zenon DEF RadioConnect, LogIn, OwnerLists
<1>5. CASE Switches
    BY <1>5, Zenon DEF Switches, SwitchedOn, SwitchOff, SwitchOn, SkipBacklog
<1>6. QED
    BY <1>1, <1>2, <1>3, <1>4, <1>5, Zenon DEF Next, Outside

LEMMA EnabledSteps ==
    ASSUME TypeOK, Next
    PROVE  UNCHANGED enabled \/ Config \/ SwitchedOn \/ \E d \in BrokerDests : SwitchOff(d)
<1>1. CASE Reload \/ \E d \in BrokerDests : SwitchOn(d) \/ SkipBacklog(d)
    BY <1>1, Zenon DEF Reload, SwitchOn, SkipBacklog
<1>2. CASE UNCHANGED switches
    BY <1>2 DEF switches
<1>3. QED
    BY <1>1, <1>2, PageSteps, Zenon

\* Only the served list and the loss of the session change the page's list.
LEMMA ServedSteps ==
    ASSUME Next
    PROVE  Config \/ UNCHANGED served \/ served' = served \ AccountBrokers
<1>1. CASE LogOut \/ LoadMe \/ LoadMeFails
    BY <1>1 DEF LogOut, LoadMe, LoadMeFails, DropAccountBrokers, brokers
<1>2. CASE \E list \in SUBSET Brokers : OwnerLists(list)
    BY <1>2 DEF OwnerLists
<1>3. CASE UNCHANGED brokers
    BY <1>3 DEF brokers
<1>4. QED
    BY <1>1, <1>2, <1>3, PageSteps

LEMMA SwitchOnAt ==
    ASSUME TypeOK, NEW d \in BrokerDests, SwitchOn(d)
    PROVE  /\ switching.pc = "none" /\ d \notin enabled
           /\ switching'.pc = "obs" /\ switching'.dests = {d} /\ switching'.base = enabled
           /\ UNCHANGED <<stored, gone, marks, enabled, fw>> /\ since' = [since EXCEPT ![d] = stored]
<1>1. QED
    BY DEF SwitchOn, database

LEMMA SkipBacklogAt ==
    ASSUME TypeOK, NEW d \in BrokerDests, SkipBacklog(d)
    PROVE  /\ switching.pc \in Kinds /\ switching.dests = {d} /\ switching'.dests = {d}
           /\ switching'.base = switching.base
           /\ switching'.pc = IF switching.pc = "obs" THEN "track" ELSE "set"
           /\ UNCHANGED <<stored, gone, enabled, fw, owed, since>>
<1>. DEFINE pc == IF switching.pc = "obs" THEN "track" ELSE "set"
<1>1. switching \in Switching
    BY DEF TypeOK
<1>2. switching' = [switching EXCEPT !.pc = pc]
    BY DEF SkipBacklog
<1>3. switching'.pc = pc /\ switching'.dests = switching.dests /\ switching'.base = switching.base
    BY <1>1, <1>2 DEF Switching
<1>4. QED
    BY <1>3 DEF SkipBacklog, history

\* A switch under way goes on from where it was.
LEMMA SwitchingKept ==
    ASSUME TypeOK, Next, switching'.pc # "none"
    PROVE  \/ switching' = switching
           \/ \E d \in BrokerDests : SwitchOn(d)
           \/ switching.pc # "none" /\ switching'.base = switching.base
              /\ \E d \in BrokerDests : SkipBacklog(d)
<1>1. CASE UNCHANGED switches
    BY <1>1 DEF switches
<1>2. CASE Reload \/ SwitchedOn
    BY <1>2 DEF Reload, SwitchedOn, NoSwitching
<1>3. CASE Config \/ \E d \in BrokerDests : SwitchOff(d)
    BY <1>3 DEF Config, SwitchOff
<1>4. CASE \E d \in BrokerDests : SkipBacklog(d)
    BY <1>4, SkipBacklogAt DEF Kinds
<1>5. QED
    BY <1>1, <1>2, <1>3, <1>4, PageSteps, Zenon

LEMMA SwitchApartKept ==
    ASSUME TypeOK, SwitchApart, Next
    PROVE  SwitchApart'
<1>1. CASE UNCHANGED switches
    BY <1>1 DEF SwitchApart, switches
<1>2. CASE Reload \/ SwitchedOn
    BY <1>2 DEF SwitchApart, Reload, SwitchedOn, NoSwitching
<1>3. CASE Config \/ \E d \in BrokerDests : SwitchOff(d)
    BY <1>3 DEF SwitchApart, Config, SwitchOff
<1>4. CASE \E d \in BrokerDests : SwitchOn(d) \/ SkipBacklog(d)
    BY <1>4, SwitchOnAt, SkipBacklogAt DEF SwitchApart, Kinds
<1>5. QED
    BY <1>1, <1>2, <1>3, <1>4, PageSteps, Zenon

\* A broker goes off the page's list or its switch goes off only together with what it is
\* owed, unless it has the owner's account.
LEMMA OwedToSwitchedKept ==
    ASSUME IInv, Next
    PROVE  OwedToSwitched'
<1>. USE DEF IInv
<1>1. SUFFICES ASSUME NEW p \in owed'
               PROVE  /\ RadioOf[p[2]] = p[1][2]
                      /\ Firm(p[1]) /\ p[1][1] # Local => p[1] \in enabled' /\ p[1][1] \in served'
    BY DEF OwedToSwitched, Firm
<1>2. CASE p \notin owed
    <2>1. AddRow /\ p[1] \in OwedBy(RadioOf[stored + 1]) /\ p[2] = stored + 1
        BY <1>2, OwedSteps
    <2>2. UNCHANGED <<enabled, served>>
        BY <2>1 DEF AddRow, switches, brokers
    <2>3. QED
        BY <2>1, <2>2 DEF OwedBy, ToLocal
<1>3. CASE p \in owed
    <2>1. RadioOf[p[2]] = p[1][2]
        BY <1>3 DEF OwedToSwitched
    <2>2. SUFFICES ASSUME Firm(p[1]), p[1][1] # Local PROVE p[1] \in enabled' /\ p[1][1] \in served'
        BY <2>1
    <2>3. p[1] \in BrokerDests /\ p[1] \in enabled /\ p[1][1] \in served
        BY <1>3, <2>2, OwedPair DEF OwedToSwitched
    <2>4. p[1] \in enabled'
        <3>1. CASE Config
            BY <1>1, <2>2, <2>3, <3>1 DEF Config
        <3>2. CASE \E d \in BrokerDests : SwitchOff(d)
            BY <1>1, <2>3, <3>2 DEF SwitchOff
        <3>3. CASE SwitchedOn
            BY <2>3, <3>3 DEF SwitchedOn, SwitchApart
        <3>4. QED
            BY <2>3, <3>1, <3>2, <3>3, EnabledSteps
    <2>5. p[1][1] \in served'
        <3>1. CASE Config
            BY <1>1, <2>2, <2>3, <3>1 DEF Config
        <3>2. CASE served' = served \ AccountBrokers \/ UNCHANGED served
            BY <2>2, <2>3, <3>2 DEF Firm
        <3>3. QED
            BY <3>1, <3>2, ServedSteps
    <2>6. QED
        BY <2>4, <2>5
<1>4. QED
    BY <1>2, <1>3

\* What is covered stays so: what is owed only grows by newer rows, and what has arrived stays.
LEMMA CoveredKept ==
    ASSUME TypeOK, Next, NEW d \in Dests, NEW kind, NEW n \in Int, NEW rows, n <= stored,
           Covered(d, kind, n, rows)
    PROVE  Covered(d, kind, n, rows)'
<1>1. SUFFICES ASSUME NEW p \in owed', p[1] = d, Firm(d), KindOf[p[2]] = kind, p[2] <= n
               PROVE  Has(d, p[2])' \/ p[2] \in rows
    BY DEF Covered, Firm
<1>2. p \in owed
    <2>1. stored + 1 <= n => FALSE
        BY StoredGrows
    <2>2. QED
        BY <1>1, <2>1, OwedSteps
<1>3. Has(d, p[2]) \/ p[2] \in rows
    BY <1>1, <1>2 DEF Covered
<1>4. QED
    BY <1>3, HasGrows

\* A batch of all that waits up to a row covers it.
LEMMA WaitingCovers ==
    ASSUME IInv, NEW d \in Dests, NEW kind \in Kinds, NEW n \in Int, NEW rows,
           \A r \in Waiting(d, kind) : r <= n => r \in rows
    PROVE  Covered(d, kind, n, rows)
<1>1. SUFFICES ASSUME NEW p \in owed, p[1] = d, Firm(d), KindOf[p[2]] = kind, p[2] <= n, ~Has(d, p[2])
               PROVE  p[2] \in rows
    BY DEF Covered
<1>2. p[2] \notin gone /\ p[2] \in 1 .. stored
    BY <1>1, OwedPair DEF IInv, PrunedArrived
<1>3. RadioOf[p[2]] = d[2]
    BY <1>1 DEF IInv, OwedToSwitched
<1>4. ~(p[2] <= marks[d][kind])
    BY <1>1 DEF IInv, MarkedArrived
<1>5. marks[d][kind] \in Int /\ p[2] \in Int
    BY <1>2 DEF IInv, TypeOK
<1>6. p[2] \in Waiting(d, kind)
    BY <1>1, <1>2, <1>3, <1>4, <1>5 DEF Waiting, InQueue
<1>7. QED
    BY <1>1, <1>6

LEMMA UploadCoversKept ==
    ASSUME IInv, Next
    PROVE  UploadCovers'
<1>. USE DEF IInv
<1>1. SUFFICES ASSUME NEW d, NEW kind, NEW n, NEW rows, up'.pc \in {"posted", "stored"},
                      d = ToLocal(up'.radio), kind = up'.kind, n = up'.last, rows = up'.rows
               PROVE  /\ up'.radio \in Radios
                      /\ Covered(d, kind, n, rows)'
                      /\ up'.pc = "stored" => rows \subseteq received'[d]
    BY DEF UploadCovers, Covered, Has, Firm, ToLocal
<1>2. ASSUME up.pc \in {"posted", "stored"}, d = ToLocal(up.radio), kind = up.kind, n = up.last, rows = up.rows
      PROVE  up.radio \in Radios /\ d \in Dests /\ Covered(d, kind, n, rows)'
    <2>1. up.radio \in Radios /\ d \in Dests /\ n \in Int /\ n <= stored
        BY <1>2 DEF UploadCovers, WithinStored, ToLocal, Dests, TypeOK, Uploader
    <2>2. Covered(d, kind, n, rows)
        BY <1>2 DEF UploadCovers
    <2>3. QED
        BY <2>1, <2>2, CoveredKept
<1>3. CASE up' = up
    <2>1. up.radio \in Radios /\ d \in Dests /\ Covered(d, kind, n, rows)'
        BY <1>1, <1>2, <1>3
    <2>2. up.pc = "stored" => rows \subseteq received[d]
        BY <1>1, <1>3 DEF UploadCovers
    <2>3. QED
        BY <1>3, <2>1, <2>2, ReceivedGrows
<1>4. CASE ServerStores
    <2>1. /\ up.pc = "posted" /\ up'.kind = up.kind /\ up'.radio = up.radio /\ up'.last = up.last
          /\ up'.rows = up.rows /\ up.rows \subseteq received'[ToLocal(up.radio)]
        BY <1>4, ServerStoresAt
    <2>2. d = ToLocal(up.radio)
        BY <1>1, <2>1 DEF ToLocal
    <2>3. QED
        BY <1>1, <1>2, <2>1, <2>2
<1>5. CASE \E k \in Radios, m \in Rows : UpSend(k, m)
    <2>1. PICK k \in Radios, m \in Rows : UpSend(k, m)
        BY <1>5
    <2>2. /\ up'.pc = "posted" /\ up'.kind = up.kind /\ up'.radio = k /\ up'.last = m
          /\ up'.rows = {r \in Waiting(ToLocal(k), up.kind) : r <= m}
          /\ m \in Waiting(ToLocal(k), up.kind)
          /\ UNCHANGED <<received, aside, owed>>
        BY <2>1, UpSendAt
    <2>3. d = ToLocal(k) /\ d \in Dests
        BY <1>1, <2>2 DEF ToLocal, Dests
    <2>4. kind \in Kinds /\ n \in Int /\ \A r \in Waiting(d, kind) : r <= n => r \in rows
        BY <1>1, <2>2, <2>3 DEF TypeOK, Uploader, Rows
    <2>5. Covered(d, kind, n, rows)
        BY <2>3, <2>4, WaitingCovers
    <2>6. Covered(d, kind, n, rows)'
        BY <2>2, <2>5 DEF Covered, Has, Firm
    <2>7. up'.radio \in Radios /\ up'.pc # "stored"
        BY <2>2
    <2>8. QED
        BY <2>6, <2>7
<1>6. QED
    BY <1>1, <1>3, <1>4, <1>5, UpSteps

LEMMA ForwardCoversKept ==
    ASSUME IInv, Next
    PROVE  ForwardCovers'
<1>. USE DEF IInv
<1>1. SUFFICES ASSUME NEW d \in BrokerDests, NEW f, f = fw'[d], Busy(f)
               PROVE  /\ \A q \in f.rows : Covered(d, f.kind, q, f.rows)'
                      /\ f.pc # "sending" => f.row \in f.rows /\ \A q \in f.rows : f.row <= q
                      /\ f.pc = "taken" => f.row \in received'[d]
    BY Zenon DEF ForwardCovers, Busy
<1>2. /\ d \in Dests /\ fw[d].rows \subseteq Int
      /\ \A q \in fw[d].rows : q <= stored
      /\ stored \in Int
    BY DEF TypeOK, WithinStored, Dests, BrokerDests
<1>3. ASSUME NEW kind, NEW rows, NEW q \in rows, Busy(fw[d]), kind = fw[d].kind, rows = fw[d].rows
      PROVE  Covered(d, kind, q, rows)'
    <2>1. Covered(d, kind, q, rows)
        BY <1>3, Zenon DEF ForwardCovers
    <2>2. QED
        BY <1>2, <1>3, <2>1, CoveredKept
<1>4. CASE Same(fw[d], f)
    <2>1. f.pc = fw[d].pc /\ f.kind = fw[d].kind /\ f.rows = fw[d].rows /\ f.row = fw[d].row
        BY <1>4 DEF Same
    <2>2. Busy(fw[d])
        BY <1>1, <2>1 DEF Busy
    <2>3. \A q \in f.rows : Covered(d, f.kind, q, f.rows)'
        BY <1>3, <2>1, <2>2
    <2>4. QED
        BY <2>1, <2>2, <2>3, ReceivedGrows, <1>2 DEF ForwardCovers
<1>5. CASE FwRead(d)
    <2>1. /\ f.pc = "sending" /\ f.kind = fw[d].kind /\ f.rows = Waiting(d, fw[d].kind)
          /\ UNCHANGED <<received, aside, owed>>
        BY <1>1, <1>5, FwReadAt
    <2>2. f.kind \in Kinds /\ f.rows \subseteq Int
        BY <2>1, WaitingRows DEF TypeOK, Forwarder
    <2>3. ASSUME NEW q \in f.rows PROVE Covered(d, f.kind, q, f.rows)'
        <3>1. Covered(d, f.kind, q, f.rows)
            BY <1>2, <2>1, <2>2, <2>3, WaitingCovers
        <3>2. QED
            BY <2>1, <3>1 DEF Covered, Has, Firm
    <2>4. QED
        BY <2>1, <2>3
<1>6. CASE \E r \in Rows : FwSend(d, r)
    <2>1. PICK r \in Rows : FwSend(d, r)
        BY <1>6
    <2>2. /\ fw[d].pc = "sending" /\ f.pc = "sent" /\ f.kind = fw[d].kind
          /\ f.rows = fw[d].rows /\ f.row = r /\ r \in f.rows /\ \A q \in f.rows : r <= q
        BY <1>1, <2>1, FwSendAt
    <2>3. \A q \in f.rows : Covered(d, f.kind, q, f.rows)'
        BY <1>3, <2>2 DEF Busy
    <2>4. QED
        BY <2>2, <2>3
<1>7. CASE BrokerTakes(d)
    <2>1. /\ fw[d].pc = "sent" /\ f.pc = "taken" /\ f.kind = fw[d].kind
          /\ f.rows = fw[d].rows /\ f.row = fw[d].row /\ f.row \in received'[d]
        BY <1>1, <1>7, BrokerTakesAt
    <2>2. \A q \in f.rows : Covered(d, f.kind, q, f.rows)'
        BY <1>3, <2>1 DEF Busy
    <2>3. QED
        BY <2>1, <2>2 DEF ForwardCovers, Busy
<1>8. CASE FwPubAck(d)
    <2>1. /\ fw[d].pc = "taken" /\ f.pc = "sending" /\ f.kind = fw[d].kind
          /\ f.rows = fw[d].rows \ {fw[d].row}
        BY <1>1, <1>8, FwPubAckAt DEF Busy
    <2>2. Busy(fw[d]) /\ fw[d].row \in received'[d]
        BY <1>2, <2>1, ReceivedGrows DEF ForwardCovers, Busy
    <2>3. ASSUME NEW q \in f.rows, NEW rows, NEW row, rows = fw[d].rows, row = fw[d].row
          PROVE  Covered(d, f.kind, q, f.rows)'
        <3>1. Covered(d, f.kind, q, rows)'
            BY <1>3, <2>1, <2>2, <2>3
        <3>2. f.rows = rows \ {row} /\ row \in received'[d]
            BY <2>1, <2>2, <2>3
        <3>3. QED
            BY <3>1, <3>2 DEF Covered, Has
    <2>4. QED
        BY <2>1, <2>3
<1>9. QED
    BY <1>1, <1>4, <1>5, <1>6, <1>7, <1>8, FwSteps

\* A watermark passes only what has arrived.
LEMMA MarkedArrivedKept ==
    ASSUME IInv, Next
    PROVE  MarkedArrived'
<1>. USE DEF IInv
<1>1. SUFFICES ASSUME NEW p \in owed', Firm(p[1]), p[2] <= marks'[p[1]][KindOf[p[2]]]
               PROVE  Has(p[1], p[2])'
    BY DEF MarkedArrived, Firm
<1>2. CASE p \notin owed
    <2>1. AddRow /\ p[1] \in OwedBy(RadioOf[stored + 1]) /\ p[2] = stored + 1
        BY <1>2, OwedSteps
    <2>2. UNCHANGED marks /\ stored + 1 \in Rows /\ stored \in Nat
        BY <2>1, StoredGrows, RowsAssumption DEF AddRow, Rows, TypeOK
    <2>3. p[1] \in Dests /\ KindOf[p[2]] \in Kinds
        BY <2>1, <2>2, RowsAssumption DEF OwedBy, Dests, BrokerDests, ToLocal, TypeOK
    <2>4. marks[p[1]][KindOf[p[2]]] \in Int /\ marks[p[1]][KindOf[p[2]]] <= stored
        BY <2>3 DEF WithinStored, TypeOK
    <2>5. QED
        BY <1>1, <2>1, <2>2, <2>4
<1>3. CASE p \in owed
    <2>1. p[1] \in Dests /\ p[2] \in Int /\ KindOf[p[2]] \in Kinds
        BY <1>3, OwedPair
    <2>2. SUFFICES ASSUME ~Has(p[1], p[2]) PROVE Has(p[1], p[2])'
        BY <2>1, HasGrows
    <2>3. marks'[p[1]][KindOf[p[2]]] # marks[p[1]][KindOf[p[2]]]
        BY <1>1, <1>3, <2>2 DEF MarkedArrived
    <2>4. CASE /\ UploadStored \/ UploadRefused
               /\ p[1] = ToLocal(up.radio) /\ KindOf[p[2]] = up.kind
               /\ marks'[p[1]][KindOf[p[2]]] = up.last
        <3>1. /\ up.pc \in {"posted", "stored"} /\ (UploadStored => up.pc = "stored")
              /\ (UploadRefused => aside' = aside \cup up.rows)
            BY <2>4 DEF UploadStored, UploadRefused
        <3>2. p[2] \in up.rows
            BY <1>1, <1>3, <2>2, <2>4, <3>1 DEF UploadCovers, Covered
        <3>3. CASE UploadStored
            BY <2>2, <2>4, <3>1, <3>2, <3>3 DEF UploadCovers, Has
        <3>4. CASE UploadRefused
            BY <2>4, <3>1, <3>2, <3>4 DEF Has, ToLocal
        <3>5. QED
            BY <2>4, <3>3, <3>4
    <2>5. CASE /\ p[1] \in BrokerDests /\ FwPubAck(p[1]) /\ KindOf[p[2]] = fw[p[1]].kind
               /\ marks'[p[1]][KindOf[p[2]]] = fw[p[1]].row
        <3>. DEFINE f == fw[p[1]]
        <3>1. f.pc = "taken" /\ Busy(f)
            BY <2>5, FwPubAckAt DEF IInv, Busy
        <3>2. f.row \in f.rows /\ (\A q \in f.rows : f.row <= q) /\ f.row \in received[p[1]]
            BY <2>5, <3>1 DEF ForwardCovers
        <3>3. Covered(p[1], f.kind, f.row, f.rows)
            BY <2>5, <3>1, <3>2 DEF ForwardCovers
        <3>4. p[2] \in f.rows
            BY <1>1, <1>3, <2>2, <2>5, <3>3 DEF Covered
        <3>5. f.row \in Int /\ f.row <= p[2] /\ p[2] <= f.row
            BY <1>1, <2>1, <2>5, <3>2, <3>4 DEF TypeOK, Forwarder
        <3>6. p[2] = f.row
            BY <2>1, <3>5
        <3>7. QED
            BY <2>2, <3>2, <3>6 DEF Has
    <2>6. CASE p[1] \in BrokerDests /\ SkipBacklog(p[1])
        <3>1. p[1][1] # Local
            BY <2>6, PartiesAssumption DEF BrokerDests
        <3>2. p[1] \in enabled
            BY <1>1, <1>3, <3>1 DEF OwedToSwitched
        <3>3. p[1] \in switching.dests /\ switching.pc # "none"
            BY <2>6, SkipBacklogAt DEF Kinds
        <3>4. QED
            BY <3>2, <3>3 DEF SwitchApart
    <2>7. QED
        BY <2>1, <2>3, <2>4, <2>5, <2>6, MarksMove
<1>4. QED
    BY <1>2, <1>3

\* A row is pruned when every destination it is owed to has it, or when it is owed to none.
LEMMA PrunedArrivedKept ==
    ASSUME IInv, Next
    PROVE  PrunedArrived'
<1>. USE DEF IInv
<1>1. SUFFICES ASSUME NEW p \in owed', Firm(p[1]), p[2] \in gone'
               PROVE  Has(p[1], p[2])'
    BY DEF PrunedArrived, Firm
<1>2. CASE p \notin owed
    <2>1. AddRow /\ p[2] = stored + 1
        BY <1>2, OwedSteps
    <2>2. gone' = gone /\ gone \subseteq 1 .. stored /\ stored \in Nat
        BY <2>1, StoredGrows DEF AddRow, TypeOK
    <2>3. QED
        BY <1>1, <2>1, <2>2
<1>3. CASE p \in owed
    <2>1. /\ p[1] \in Dests /\ p[2] \in Int /\ KindOf[p[2]] \in Kinds /\ p[1][2] \in Radios
          /\ p[1][1] = Local => p[1] = ToLocal(p[1][2])
          /\ p[1][1] # Local => p[1] \in BrokerDests
        BY <1>3, OwedPair
    <2>2. CASE p[2] \in gone
        BY <1>1, <1>3, <2>1, <2>2, HasGrows DEF PrunedArrived
    <2>3. CASE p[2] \notin gone
        <3>1. PICK n \in Rows : UpPrune(n)
            BY <1>1, <2>3, StoredGrows
        <3>2. p[2] <= n /\ (AckedByAll(p[2]) \/ OtherAccounts(p[2]))
            BY <1>1, <2>3, <3>1 DEF UpPrune
        <3>3. ~(p[2] <= n /\ OtherAccounts(p[2]))
            BY <1>1, <3>1 DEF UpPrune
        <3>4. p[1] \in OwedBy(RadioOf[p[2]])
            BY <1>1, <1>3, <2>1 DEF OwedToSwitched, OwedBy
        <3>5. marks[p[1]][KindOf[p[2]]] >= p[2]
            BY <3>2, <3>3, <3>4 DEF AckedByAll
        <3>6. marks[p[1]][KindOf[p[2]]] \in Int
            BY <2>1 DEF TypeOK
        <3>7. Has(p[1], p[2])
            BY <1>1, <1>3, <2>1, <3>5, <3>6 DEF MarkedArrived
        <3>8. QED
            BY <2>1, <3>7, HasGrows
    <2>4. QED
        BY <2>2, <2>3
<1>4. QED
    BY <1>2, <1>3

LEMMA InvInit ==
    ASSUME Init
    PROVE  IInv
<1>. USE DEF Init
<1>1. 0 \in 0 .. N /\ 0 \in Nat
    BY RowsAssumption
<1>2. NoForwarder \in Forwarder /\ NoForwarder.rows = {} /\ ~Busy(NoForwarder)
    BY <1>1 DEF NoForwarder, Forwarder, Busy, Kinds
<1>3. LoggedOut \in Login /\ NoSwitching \in Switching /\ NoSwitching.pc = "none" /\ IdleUploader.pc = "idle"
    BY DEF LoggedOut, Login, NoSwitching, Switching, IdleUploader
<1>4. marks \in [Dests -> [Kinds -> 0 .. N]] /\ \A d \in Dests, kind \in Kinds : marks[d][kind] = 0
    BY <1>1
<1>5. TypeOK
    BY <1>1, <1>2, <1>3, <1>4, IdleType, BoundsAssumption DEF TypeOK
<1>6. WithinStored /\ UploadCovers
    BY <1>1, <1>2, <1>3, <1>4 DEF WithinStored, UploadCovers
<1>7. OwedToSwitched /\ MarkedArrived /\ PrunedArrived
    BY DEF OwedToSwitched, MarkedArrived, PrunedArrived
<1>8. ForwardCovers
    BY <1>2 DEF ForwardCovers
<1>9. SwitchApart
    BY <1>3 DEF SwitchApart
<1>10. QED
    BY <1>5, <1>6, <1>7, <1>8, <1>9 DEF IInv

LEMMA InvKept ==
    ASSUME IInv, [Next]_vars
    PROVE  IInv'
<1>1. CASE Next
    BY <1>1, TypesKept, WithinStoredKept, OwedToSwitchedKept, MarkedArrivedKept, PrunedArrivedKept, UploadCoversKept,
        ForwardCoversKept, SwitchApartKept DEF IInv
<1>2. CASE UNCHANGED vars
    <2>. USE DEF vars, database, switches, brokers, people, history
    <2>1. TypeOK' /\ WithinStored' /\ OwedToSwitched'
        BY <1>2 DEF IInv, TypeOK, WithinStored, OwedToSwitched, Firm
    <2>2. MarkedArrived' /\ PrunedArrived'
        BY <1>2 DEF IInv, MarkedArrived, PrunedArrived, Has, Firm
    <2>3. UploadCovers' /\ ForwardCovers'
        BY <1>2 DEF IInv, UploadCovers, ForwardCovers, Covered, Has, Firm, ToLocal, Busy
    <2>4. SwitchApart'
        BY <1>2 DEF IInv, SwitchApart
    <2>5. QED
        BY <2>1, <2>2, <2>3, <2>4 DEF IInv
<1>3. QED
    BY <1>1, <1>2

-----------------------------------------------------------------------------
(* Theorems *)

\* The variables of the queue, the page, the uploader and the forwarders keep their types for
\* any radios, brokers, rows and bounds.
THEOREM WardriveTypes == Spec => []TypeOK
<1>1. IInv => TypeOK
    BY DEF IInv
<1>2. QED
    BY <1>1, InvInit, InvKept, PTL DEF Spec

\* No row that is owed to RTFM-EV or to a broker without the owner's account leaves the queue,
\* or is passed by its watermark, before it has arrived or was set aside.
THEOREM NoRowIsLost == Spec => []NothingLost
<1>1. IInv => NothingLost
    <2>1. SUFFICES ASSUME IInv, NEW p \in owed, Firm(p[1]), ~Has(p[1], p[2])
                   PROVE  Ahead(p[1], p[2])
        BY DEF NothingLost, Firm
    <2>2. p[2] \notin gone /\ ~(p[2] <= marks[p[1]][KindOf[p[2]]])
        BY <2>1 DEF IInv, PrunedArrived, MarkedArrived
    <2>3. p[2] \in Int /\ marks[p[1]][KindOf[p[2]]] \in Int
        BY <2>1, OwedPair DEF IInv, TypeOK
    <2>4. QED
        BY <2>2, <2>3 DEF Ahead
<1>2. QED
    BY <1>1, InvInit, InvKept, PTL DEF Spec

-----------------------------------------------------------------------------
(* From then on *)

\* A backlog that was skipped stays so until the broker is switched on again.
LEMMA SkippedKept ==
    ASSUME IInv, Next, NEW d \in BrokerDests, ~SwitchOn(d), NEW kind \in Kinds, Skipped(d, kind)
    PROVE  Skipped(d, kind)'
<1>. USE DEF IInv
<1>1. SUFFICES ASSUME NEW r \in InQueue', KindOf[r] = kind, r <= since'[d]
               PROVE  r <= marks'[d][kind]
    BY DEF Skipped
<1>2. since'[d] = since[d] /\ since[d] \in Int /\ since[d] <= stored /\ stored \in Nat /\ stored' \in Nat
    BY StoredGrows DEF TypeOK, WithinStored
<1>3. r \in 1 .. stored' /\ r \notin gone'
    BY <1>1 DEF InQueue
<1>4. r \in InQueue
    BY <1>1, <1>2, <1>3, StoredGrows DEF InQueue
<1>5. r <= marks[d][kind]
    BY <1>1, <1>2, <1>4 DEF Skipped
<1>6. d \in Dests
    BY DEF Dests, BrokerDests
<1>7. marks[d][kind] <= marks'[d][kind] /\ marks[d][kind] \in Int /\ marks'[d][kind] \in Int
    BY <1>6, MarksMove, LedgerTypes DEF TypeOK
<1>8. QED
    BY <1>3, <1>5, <1>7

\* Queue.mark with lastId puts the watermark of a kind past what is in the queue.
LEMMA SkipBacklogSkips ==
    ASSUME IInv, Next, NEW d \in BrokerDests, SkipBacklog(d), NEW kind, kind = switching.pc
    PROVE  Skipped(d, kind)'
<1>. USE DEF IInv
<1>1. PICK r \in 0 .. stored : Newest(kind, r) /\ marks' = Acked(d, kind, r)
    BY DEF SkipBacklog
<1>2. kind \in Kinds /\ d \in Dests /\ r \in 0 .. N
    BY RowsAssumption DEF SkipBacklog, Dests, BrokerDests, TypeOK
<1>3. r <= marks'[d][kind] /\ marks'[d][kind] \in Int
    BY <1>1, <1>2, AckedStep, LedgerTypes
<1>4. InQueue' = InQueue /\ InQueue \subseteq Int
    BY SkipBacklogAt DEF InQueue
<1>5. \A q \in InQueue : KindOf[q] = kind => q <= r
    BY <1>1 DEF Newest
<1>6. ASSUME NEW q \in InQueue', KindOf[q] = kind PROVE q <= marks'[d][kind]
    <2>1. q \in InQueue /\ q \in Int /\ r \in Int
        BY <1>1, <1>4, <1>6
    <2>2. q <= r
        BY <1>5, <1>6, <2>1
    <2>3. QED
        BY <1>3, <2>1, <2>2
<1>7. QED
    BY <1>6 DEF Skipped

LEMMA BacklogSkippedKept ==
    ASSUME IInv, BacklogSkipped, Next
    PROVE  BacklogSkipped'
<1>. USE DEF IInv
<1>1. enabled \subseteq BrokerDests /\ switching.base \subseteq BrokerDests /\ switching.dests \subseteq BrokerDests
    BY DEF TypeOK, Switching
<1>2. ASSUME NEW d \in enabled, NEW kind \in Kinds PROVE Skipped(d, kind)'
    <2>1. ~SwitchOn(d)
        BY <1>1, SwitchOnAt
    <2>2. Skipped(d, kind)
        BY DEF BacklogSkipped
    <2>3. QED
        BY <1>1, <2>1, <2>2, SkippedKept
<1>3. ASSUME switching.pc # "none", NEW d \in BrokerDests, NEW kind \in Kinds, Skipped(d, kind)
      PROVE  Skipped(d, kind)'
    <2>1. ~SwitchOn(d)
        BY <1>3, SwitchOnAt
    <2>2. QED
        BY <1>3, <2>1, SkippedKept
<1>4. ASSUME NEW d \in enabled', NEW kind \in Kinds PROVE Skipped(d, kind)'
    <2>1. CASE d \in enabled
        BY <1>2, <2>1
    <2>2. CASE d \notin enabled
        <3>1. SwitchedOn
            BY <1>4, <2>2, EnabledSteps DEF Config, SwitchOff
        <3>2. switching.pc = "set" /\ d \in switching.base \cup switching.dests
            BY <1>4, <3>1 DEF SwitchedOn
        <3>3. Skipped(d, kind)
            BY <3>2 DEF BacklogSkipped, Kinds
        <3>4. QED
            BY <1>1, <1>3, <3>2, <3>3
    <2>3. QED
        BY <2>1, <2>2
<1>5. ASSUME switching'.pc # "none", NEW d \in switching'.base, NEW kind \in Kinds
      PROVE  Skipped(d, kind)'
    <2>1. CASE \E e \in BrokerDests : SwitchOn(e)
        BY <1>2, <1>5, <2>1, SwitchOnAt
    <2>2. CASE switching.pc # "none" /\ switching'.base = switching.base
        BY <1>1, <1>3, <1>5, <2>2 DEF BacklogSkipped
    <2>3. QED
        BY <1>5, <2>1, <2>2, SwitchingKept
<1>6. ASSUME switching'.pc \in {"track", "set"}, NEW d \in switching'.dests PROVE Skipped(d, "obs")'
    <2>1. CASE \E e \in BrokerDests : SkipBacklog(e)
        <3>1. PICK e \in BrokerDests : SkipBacklog(e)
            BY <2>1
        <3>2. d = e /\ switching.dests = {d} /\ switching.pc \in Kinds
            BY <1>6, <3>1, SkipBacklogAt
        <3>3. CASE switching.pc = "obs"
            BY <3>1, <3>2, <3>3, SkipBacklogSkips
        <3>4. CASE switching.pc = "track"
            BY <1>3, <3>2, <3>4 DEF BacklogSkipped, Kinds
        <3>5. QED
            BY <3>2, <3>3, <3>4 DEF Kinds
    <2>2. CASE switching' = switching
        <3>1. switching.pc # "none" /\ d \in BrokerDests /\ "obs" \in Kinds /\ Skipped(d, "obs")
            BY <1>1, <1>6, <2>2 DEF BacklogSkipped, Kinds
        <3>2. QED
            BY <1>3, <3>1
    <2>3. QED
        BY <1>6, <2>1, <2>2, SwitchingKept, SwitchOnAt
<1>7. ASSUME switching'.pc = "set", NEW d \in switching'.dests PROVE Skipped(d, "track")'
    <2>1. CASE \E e \in BrokerDests : SkipBacklog(e)
        <3>1. PICK e \in BrokerDests : SkipBacklog(e)
            BY <2>1
        <3>2. d = e /\ switching.pc = "track"
            BY <1>7, <3>1, SkipBacklogAt DEF Kinds
        <3>3. QED
            BY <3>1, <3>2, SkipBacklogSkips
    <2>2. CASE switching' = switching
        <3>1. switching.pc # "none" /\ d \in BrokerDests /\ "track" \in Kinds /\ Skipped(d, "track")
            BY <1>1, <1>7, <2>2 DEF BacklogSkipped, Kinds
        <3>2. QED
            BY <1>3, <3>1
    <2>3. QED
        BY <1>7, <2>1, <2>2, SwitchingKept, SwitchOnAt
<1>8. QED
    BY <1>4, <1>5, <1>6, <1>7 DEF BacklogSkipped

\* A forwarder starts only for a broker that is on, and stops with its switch.
LEMMA RunningIsOn ==
    ASSUME TypeOK, Next, NEW d \in BrokerDests, fw'[d].pc # "none"
    PROVE  d \in enabled' \/ (fw[d].pc # "none" /\ enabled' = enabled)
<1>1. CASE UNCHANGED fw /\ UNCHANGED enabled
    BY <1>1
<1>2. CASE Config \/ SwitchedOn \/ \E e \in BrokerDests : SwitchOff(e)
    BY <1>2, RewiredSteps DEF Config, SwitchedOn, SwitchOff
<1>3. CASE RadioLost \/ \E k \in Radios : RadioConnect(k)
    BY <1>3, RewiredSteps DEF RadioLost, RadioConnect, switches
<1>4. CASE LogOut \/ LoadMe \/ LoadMeFails
    BY <1>1, <1>4, RewiredSteps DEF LogOut, LoadMe, LoadMeFails, DropAccountBrokers, switches
<1>5. CASE Reload
    BY <1>5 DEF Reload, NoForwarder
<1>6. CASE \E e \in BrokerDests : FwConnectFails(e) \/ FwFails(e) \/ BrokerCloses(e) \/ Forwarding(e)
    <2>1. PICK e \in BrokerDests : FwConnectFails(e) \/ FwFails(e) \/ BrokerCloses(e) \/ Forwarding(e)
        BY <1>6
    <2>2. enabled' = enabled
        BY <2>1, Zenon DEF Forwarding, FwConnectFails, FwFails, BrokerCloses, FwOnly, switches, FwTick,
            FwConnected, FwRead, FwDrained, FwHalts, FwSend, BrokerTakes, FwPubAck
    <2>3. CASE e # d
        <3>1. ASSUME NEW f, Becomes(e, f) PROVE fw'[d] = fw[d]
            BY <2>3, <3>1, BecomesAt
        <3>2. fw'[d] = fw[d]
            BY <2>1, <3>1, Zenon DEF Forwarding, FwConnectFails, FwFails, BrokerCloses, FwTick, FwConnected,
                FwRead, FwDrained, FwHalts, FwSend, BrokerTakes, FwPubAck
        <3>3. QED
            BY <2>2, <3>2
    <2>4. CASE e = d
        <3>1. CASE BrokerCloses(d)
            <4>1. fw'[d].pc = fw[d].pc
                BY <3>1, BecomesAt DEF BrokerCloses, TypeOK, Forwarder
            <4>2. QED
                BY <2>2, <4>1
        <3>2. CASE ~BrokerCloses(d)
            <4>1. fw[d].pc \in {"idle", "connecting", "reading", "sending", "sent", "taken"}
                BY <2>1, <2>4, <3>2 DEF Forwarding, FwConnectFails, FwFails, FwTick, FwConnected,
                    FwRead, FwDrained, FwHalts, FwSend, BrokerTakes, FwPubAck
            <4>2. QED
                BY <2>2, <4>1
        <3>3. QED
            BY <3>1, <3>2
    <2>5. QED
        BY <2>3, <2>4
<1>7. CASE AddRow \/ SessionChanges \/ UploadFails \/ Uploading \/ Answering
    BY <1>1, <1>7, Zenon DEF AddRow, SessionChanges, UploadFails, Uploading, Answering, UpTick, UpNext, UpRest,
        UpSend, UpPrune, UploadStored, ServerStores, UploadRefused, UploadDenied, switches
<1>8. CASE \/ \E radios \in Accounts : LogIn(radios)
           \/ \E list \in SUBSET Brokers : OwnerLists(list)
           \/ \E e \in BrokerDests : SwitchOn(e) \/ SkipBacklog(e)
    BY <1>1, <1>8, Zenon DEF LogIn, OwnerLists, SwitchOn, SkipBacklog, switches
<1>9. QED
    BY <1>2, <1>3, <1>4, <1>5, <1>6, <1>7, <1>8, Zenon DEF Next, Switches, Outside

LEMMA LaterRowsKept ==
    ASSUME SkipInv, Next
    PROVE  LaterRows'
<1>. USE DEF SkipInv, IInv
<1>1. ASSUME NEW d \in BrokerDests, fw'[d].pc # "none" PROVE d \in enabled'
    BY <1>1, RunningIsOn DEF LaterRows
<1>2. ASSUME NEW d \in BrokerDests, Busy(fw'[d]), NEW r \in fw'[d].rows PROVE r > since'[d]
    <2>1. CASE FwRead(d)
        <3>1. fw'[d].rows = Waiting(d, fw[d].kind) /\ since' = since
            BY <2>1, FwReadAt
        <3>2. r \in InQueue /\ KindOf[r] = fw[d].kind /\ r > marks[d][fw[d].kind]
            BY <1>2, <3>1 DEF Waiting
        <3>3. d \in enabled /\ fw[d].kind \in Kinds /\ d \in Dests
            BY <2>1 DEF LaterRows, FwRead, TypeOK, Forwarder, Dests, BrokerDests
        <3>4. Skipped(d, fw[d].kind)
            BY <3>3 DEF BacklogSkipped
        <3>5. ~(r <= since[d])
            <4>1. marks[d][fw[d].kind] \in Int /\ r \in Int
                BY <3>2, <3>3 DEF TypeOK, InQueue
            <4>2. QED
                BY <3>2, <3>4, <4>1 DEF Skipped
        <3>6. since[d] \in Int /\ r \in Int
            BY <3>2 DEF TypeOK, InQueue
        <3>7. QED
            BY <3>1, <3>5, <3>6
    <2>2. CASE Busy(fw[d]) /\ r \in fw[d].rows
        <3>1. r > since[d] /\ d \in enabled
            BY <2>2 DEF LaterRows, Busy
        <3>2. since'[d] = since[d]
            BY <3>1, StoredGrows, SwitchOnAt
        <3>3. QED
            BY <3>1, <3>2
    <2>3. QED
        BY <1>2, <2>1, <2>2, FwSteps, FwSendAt, BrokerTakesAt, FwPubAckAt DEF Busy, Same
<1>3. QED
    BY <1>1, <1>2 DEF LaterRows

LEMMA SkipInit ==
    ASSUME Init
    PROVE  BacklogSkipped /\ LaterRows
<1>1. enabled = {} /\ switching.pc = "none" /\ \A d \in BrokerDests : fw[d].pc = "none"
    BY DEF Init, NoSwitching, NoForwarder
<1>2. QED
    BY <1>1 DEF BacklogSkipped, LaterRows, Busy

LEMMA SkipInvKept ==
    ASSUME SkipInv, [Next]_vars
    PROVE  SkipInv'
<1>1. CASE Next
    BY <1>1, InvKept, BacklogSkippedKept, LaterRowsKept DEF SkipInv
<1>2. CASE UNCHANGED vars
    <2>1. IInv'
        BY <1>2, InvKept DEF SkipInv
    <2>2. BacklogSkipped' /\ LaterRows'
        BY <1>2 DEF SkipInv, BacklogSkipped, LaterRows, Skipped, InQueue, Busy, vars, database, switches, history
    <2>3. QED
        BY <2>1, <2>2 DEF SkipInv
<1>3. QED
    BY <1>1, <1>2

\* A broker is sent no row that was in the queue when it was last switched on.
THEOREM ForwardsOnlyLaterRows == Spec => OnlyFromThenOn
<1>1. ASSUME SkipInv, Next, NEW d \in BrokerDests, NEW r \in Rows, FwSend(d, r)
      PROVE  r > since[d]
    <2>1. fw[d].pc = "sending" /\ r \in fw[d].rows
        BY <1>1 DEF FwSend
    <2>2. QED
        BY <1>1, <2>1 DEF SkipInv, LaterRows, Busy
<1>2. SkipInv /\ [Next]_vars => [\A d \in BrokerDests, r \in Rows : FwSend(d, r) => r > since[d]]_vars
    BY <1>1
<1>3. Init => SkipInv
    BY InvInit, SkipInit DEF SkipInv
<1>4. QED
    BY <1>2, <1>3, SkipInvKept, PTL DEF Spec, OnlyFromThenOn
=============================================================================
