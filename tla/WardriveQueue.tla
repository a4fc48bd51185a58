---------------------------- MODULE WardriveQueue ----------------------------
(***************************************************************************)
(* The queue of the wardrive page.  Every reception and every track of a   *)
(* drive becomes a row in the browser's database before anything is sent,  *)
(* and stays until each destination it is owed has it: RTFM-EV's own copy  *)
(* and every broker switched on for the radio.  A destination has a        *)
(* watermark for each kind of row.  The uploader drains the queue for      *)
(* RTFM-EV, one radio of the account at a time; a forwarder drains it for  *)
(* one broker while its radio is connected.  Both work in ticks that await *)
(* the network, while rows come in, brokers are switched, the account and  *)
(* the list of brokers change and the page is reloaded.                    *)
(*                                                                         *)
(* Rows have one numbering in the order in which they are added, where the *)
(* database numbers each kind.  Brokers of the observer format, which take *)
(* no tracks, are left out.  Queue.ack, which reads the watermark and      *)
(* writes it in two transactions, is one step: acks of one destination do  *)
(* not overlap, as a forwarder that is stopped loses its connection at     *)
(* once and with it the PUBACK it waits for.                               *)
(***************************************************************************)
EXTENDS Integers, FiniteSets

CONSTANTS
    Radios, NoRadio,
    Brokers, Local,  \* who gets rows: brokers, and RTFM-EV
    AccountBrokers,  \* brokers with the owner's account, shown to logged-in drivers only
    N,               \* number of rows
    RadioOf, KindOf, \* radio and kind of each row
    Refused,         \* rows that RTFM-EV refuses as such
    Accounts,        \* the radios of each account somebody may log in to
    Batch,           \* rows of one upload
    Budgets          \* bound: combinations of how often each of Bounded happens

\* What the bounds count.
Bounded == {"fail",    \* requests and connections that fail
            "switch",  \* switches of a broker
            "list",    \* changes of the broker list by the owner
            "link",    \* radios connected
            "account", \* changes of the account
            "reload"}  \* page reloads

Rows == 1 .. N
Kinds == {"obs", "track"}
BrokerDests == Brokers \X Radios
Dests == (Brokers \cup {Local}) \X Radios
ToLocal(k) == <<Local, k>>

ASSUME PartiesAssumption ==
    NoRadio \notin Radios /\ Local \notin Brokers /\ AccountBrokers \subseteq Brokers
ASSUME RowsAssumption ==
    N \in Nat /\ RadioOf \in [Rows -> Radios] /\ KindOf \in [Rows -> Kinds] /\ Refused \subseteq Rows
ASSUME AccountsAssumption == Accounts \subseteq SUBSET Radios
ASSUME BoundsAssumption == Batch \in Nat \ {0} /\ Budgets \subseteq [Bounded -> Nat]

\* Somebody logged in, with the radios of the account.
Login == [in : BOOLEAN, radios : SUBSET Radios]
LoggedOut == [in |-> FALSE, radios |-> {}]

\* A tick of the uploader: the radios it serves, and the rows it is sending.
Uploader == [pc : {"idle", "next", "posted", "stored", "prune"}, known : BOOLEAN,
             own : SUBSET Radios, kind : Kinds, radio : Radios \cup {NoRadio},
             rows : SUBSET Rows, last : 0 .. N]
IdleUploader == [pc |-> "idle", known |-> FALSE, own |-> {}, kind |-> "obs", radio |-> NoRadio,
                 rows |-> {}, last |-> 0]

\* A forwarder: the kind and the rows it is working through, the row it is publishing, and
\* whether it has a connection.
Forwarder == [pc : {"none", "idle", "connecting", "reading", "sending", "sent", "taken"},
              kind : Kinds, rows : SUBSET Rows, row : 0 .. N, client : BOOLEAN]
NoForwarder == [pc |-> "none", kind |-> "obs", rows |-> {}, row |-> 0, client |-> FALSE]
NewForwarder == [NoForwarder EXCEPT !.pc = "idle"]

\* A broker being switched on, and the switches as they were when that began.
Switching == [pc : {"none", "obs", "track", "set"}, dests : SUBSET BrokerDests,
              base : SUBSET BrokerDests]
NoSwitching == [pc |-> "none", dests |-> {}, base |-> {}]

VARIABLES
    stored,    \* number of rows added to the database
    gone,      \* rows pruned from it
    marks,     \* the watermark of each destination and kind
    enabled,   \* destinations switched on (kept in the browser)
    switching, \* a switch under way
    served,    \* the brokers on the page's list (kept in the browser)
    listed,    \* the server: the owner's list
    radio,     \* the connected radio
    account,   \* the page: who is logged in
    cached,    \* the page: who was, for an offline start (kept in the browser)
    refresh,   \* the page reads the account: at its start, after a 403, as long as it is offline
    session,   \* the server: the session of the browser's cookie
    up,        \* the uploader
    fw,        \* the forwarder of each broker destination
    received,  \* rows each destination has
    aside,     \* rows RTFM-EV refused as such
    owed,      \* history: pairs of a destination and a row it is to get
    since,     \* history: rows there were when a destination was last switched on
    left       \* what is left of the budgets

database == <<stored, gone, marks>>
switches == <<enabled, switching>>
brokers == <<served, listed>>
people == <<account, cached, refresh, session>>
history == <<owed, since>>
vars == <<database, switches, brokers, radio, people, up, fw, received, aside, history, left>>

----------------------------------------------------------------------------
Spend(kind) == left[kind] > 0 /\ left' = [left EXCEPT ![kind] = @ - 1]

InQueue == (1 .. stored) \ gone

\* batchForRadio: rows of the radio after the watermark.
Waiting(d, kind) ==
    {r \in InQueue : RadioOf[r] = d[2] /\ KindOf[r] = kind /\ r > marks[d][kind]}

\* A mutant: the watermark is the next row to send.
AckedNext(d, kind, r) == [marks EXCEPT ![d][kind] = r + 1]
\* Queue.ack: never backwards.
Acked(d, kind, r) == [marks EXCEPT ![d][kind] = IF r > @ THEN r ELSE @]

\* destsFor: the destinations a row of the radio is owed to.
OwedBy(k) == {ToLocal(k)} \cup {d \in enabled : d[1] \in served /\ d[2] = k}

\* The forwarders after a change of the switches, of the list or of the radio: one for each
\* broker on the list that is switched on for the connected radio.
Rewired(on, list, k) ==
    [d \in BrokerDests |->
        IF d \notin on \/ d[1] \notin list \/ d[2] # k THEN NoForwarder
        ELSE IF fw[d].pc = "none" THEN NewForwarder ELSE fw[d]]

Init ==
    /\ stored = 0 /\ gone = {} /\ marks = [d \in Dests |-> [k \in Kinds |-> 0]]
    /\ enabled = {} /\ switching = NoSwitching
    /\ served = Brokers \ AccountBrokers /\ listed = Brokers
    /\ radio \in Radios
    /\ account = LoggedOut /\ cached = LoggedOut /\ refresh = "no" /\ session = LoggedOut
    /\ up = IdleUploader /\ fw = [d \in BrokerDests |-> NoForwarder]
    /\ received = [d \in Dests |-> {}] /\ aside = {}
    /\ owed = {} /\ since = [d \in BrokerDests |-> 0]
    /\ left \in Budgets

----------------------------------------------------------------------------
(* The drive and its radio. *)

\* A row of the connected radio; the last ones come in when the radio is already gone.
AddRow ==
    /\ stored < N /\ radio \in {RadioOf[stored + 1], NoRadio}
    /\ stored' = stored + 1
    /\ owed' = owed \cup (OwedBy(RadioOf[stored']) \X {stored'})
    /\ UNCHANGED <<gone, marks, switches, brokers, radio, people, up, fw, received, aside, since, left>>

RadioConnect(k) ==
    /\ radio = NoRadio /\ Spend("link")
    /\ radio' = k /\ fw' = Rewired(enabled, served, k)
    /\ UNCHANGED <<database, switches, brokers, people, up, received, aside, history>>

RadioLost ==
    /\ radio # NoRadio
    /\ radio' = NoRadio /\ fw' = Rewired(enabled, served, NoRadio)
    /\ UNCHANGED <<database, switches, brokers, people, up, received, aside, history, left>>

\* The database and what is kept in the browser survive a reload.
Reload ==
    /\ Spend("reload")
    /\ switching' = NoSwitching /\ radio' = NoRadio
    /\ account' = LoggedOut /\ refresh' = "start"
    /\ up' = IdleUploader /\ fw' = [d \in BrokerDests |-> NoForwarder]
    /\ UNCHANGED <<database, enabled, brokers, cached, session, received, aside, history>>

----------------------------------------------------------------------------
(* Who is logged in. *)

\* dropAccountBrokers: brokers with the owner's account go from the page, their switches stay.
DropAccountBrokers ==
    /\ served' = served \ AccountBrokers
    /\ fw' = Rewired(enabled, served', radio)
    /\ UNCHANGED listed

\* A call that gets no answer sets the page offline, which then reads the account again.
Rechecks == {refresh, IF refresh = "no" THEN "offline" ELSE refresh}

LogIn(radios) ==
    /\ Spend("account")
    /\ session' = [in |-> TRUE, radios |-> radios] /\ account' = session' /\ cached' = session'
    /\ UNCHANGED <<database, switches, brokers, radio, refresh, up, fw, received, aside, history>>

\* The brokers with the owner's account go first; when the call fails or its answer is lost,
\* the page goes on as logged in.
LogOut ==
    /\ account.in /\ Spend("account")
    /\ DropAccountBrokers
    /\ \/ /\ session' = LoggedOut /\ account' = LoggedOut /\ cached' = LoggedOut
          /\ UNCHANGED refresh
       \/ /\ session' \in {session, LoggedOut} /\ refresh' \in Rechecks
          /\ UNCHANGED <<account, cached>>
    /\ UNCHANGED <<database, switches, radio, up, received, aside, history>>

\* The server ends the session, or takes a radio off the account.
SessionChanges ==
    /\ session.in /\ Spend("account")
    /\ \/ session' = LoggedOut
       \/ \E k \in session.radios : session' = [session EXCEPT !.radios = @ \ {k}]
    /\ UNCHANGED <<database, switches, brokers, radio, account, cached, refresh, up, fw, received,
                   aside, history>>

\* loadMe with an answer of the server: the account, or nobody (401).
LoadMe ==
    /\ refresh # "no" /\ refresh' = "no"
    /\ account' = session /\ cached' = session
    /\ IF session.in THEN UNCHANGED <<brokers, fw>> ELSE DropAccountBrokers
    /\ UNCHANGED <<database, switches, radio, session, up, received, aside, history, left>>

\* loadMe without one: offline the page starts with the last account; after an error of the
\* server nobody is logged in.
LoadMeFails ==
    /\ refresh # "no" /\ Spend("fail")
    /\ \/ /\ account' = IF refresh = "start" THEN cached ELSE account
          /\ refresh' \in IF refresh = "403" THEN {"no", "offline"} ELSE {"offline"}
          /\ UNCHANGED <<brokers, fw>>
       \/ /\ account' = LoggedOut /\ refresh' = "no"
          /\ DropAccountBrokers
    /\ UNCHANGED <<database, switches, radio, cached, session, up, received, aside, history>>

----------------------------------------------------------------------------
(* The brokers. *)

OwnerLists(list) ==
    /\ list # listed /\ Spend("list")
    /\ listed' = list
    /\ UNCHANGED <<database, switches, served, radio, people, up, fw, received, aside, history>>

\* The served list arrives: the switches of other brokers go (keepOnly).
Config ==
    /\ account.in /\ session.in
    /\ served' = listed
    /\ enabled' = {d \in enabled : d[1] \in listed}
    /\ fw' = Rewired(enabled', listed, radio)
    /\ owed' = {p \in owed : p[1][1] \in listed \cup {Local}}
    /\ UNCHANGED <<database, switching, listed, radio, people, up, received, aside, since, left>>

SwitchOff(d) ==
    /\ d \in enabled /\ d[1] \in served /\ radio = d[2] /\ Spend("switch")
    /\ enabled' = enabled \ {d}
    /\ fw' = Rewired(enabled', served, radio)
    /\ owed' = {p \in owed : p[1] # d}
    /\ UNCHANGED <<database, switching, brokers, radio, people, up, received, aside, since>>

\* One broker at a time is switched on.
SwitchOn(d) ==
    /\ switching.pc = "none" /\ d \notin enabled /\ d[1] \in served /\ radio = d[2]
    /\ Spend("switch")
    /\ switching' = [pc |-> "obs", dests |-> {d}, base |-> enabled]
    /\ since' = [since EXCEPT ![d] = stored]
    /\ UNCHANGED <<database, enabled, brokers, radio, people, up, fw, received, aside, owed>>

\* A mutant: the newest row of the wrong kind.
NewestObs(kind, r) ==
    /\ r = 0 \/ (r \in InQueue /\ KindOf[r] = "obs")
    /\ \A q \in InQueue : KindOf[q] = "obs" => q <= r
\* lastId: the newest row of the kind in the queue, 0 when there is none.
Newest(kind, r) ==
    /\ r = 0 \/ (r \in InQueue /\ KindOf[r] = kind)
    /\ \A q \in InQueue : KindOf[q] = kind => q <= r

\* enableBroker: what is in the queue is not for this broker.
SkipBacklog(d) ==
    /\ switching.pc \in Kinds /\ switching.dests = {d}
    /\ \E r \in 0 .. stored : Newest(switching.pc, r) /\ marks' = Acked(d, switching.pc, r)
    /\ switching' = [switching EXCEPT !.pc = IF @ = "obs" THEN "track" ELSE "set"]
    /\ UNCHANGED <<stored, gone, enabled, brokers, radio, people, up, fw, received, aside,
                   history, left>>

SwitchedOn ==
    /\ switching.pc = "set"
    /\ enabled' = switching.base \cup switching.dests
    /\ switching' = NoSwitching
    /\ fw' = Rewired(enabled', served, radio)
    /\ UNCHANGED <<database, brokers, radio, people, up, received, aside, history, left>>

----------------------------------------------------------------------------
(* The uploader. *)

UpTick ==
    /\ up.pc = "idle"
    /\ up' = [IdleUploader EXCEPT
                  !.pc = IF account.in THEN "next" ELSE "prune",
                  !.known = account.in,
                  !.own = {k \in account.radios : \E r \in InQueue : RadioOf[r] = k}]
    /\ UNCHANGED <<database, switches, brokers, radio, people, fw, received, aside, history, left>>

\* A batch is also cut where the drive changes: any first rows of those waiting.
UpSend(k, n) ==
    LET waiting == Waiting(ToLocal(k), up.kind)
        batch == {r \in waiting : r <= n}
    IN  /\ up.pc = "next" /\ k \in up.own /\ n \in waiting /\ Cardinality(batch) <= Batch
        /\ up' = [up EXCEPT !.pc = "posted", !.radio = k, !.rows = batch, !.last = n]
        /\ UNCHANGED <<database, switches, brokers, radio, people, fw, received, aside, history, left>>

\* Receptions first, then tracks.
UpNext ==
    /\ up.pc = "next" /\ \A k \in up.own : Waiting(ToLocal(k), up.kind) = {}
    /\ up' = IF up.kind = "obs" THEN [up EXCEPT !.kind = "track"] ELSE [up EXCEPT !.pc = "prune"]
    /\ UNCHANGED <<database, switches, brokers, radio, people, fw, received, aside, history, left>>

Allowed == session.in /\ up.radio \in session.radios

ServerStores ==
    /\ up.pc = "posted" /\ Allowed /\ up.rows \cap Refused = {}
    /\ received' = [received EXCEPT ![ToLocal(up.radio)] = @ \cup up.rows]
    /\ up' = [up EXCEPT !.pc = "stored"]
    /\ UNCHANGED <<database, switches, brokers, radio, people, fw, aside, history, left>>

UploadStored ==
    /\ up.pc = "stored"
    /\ marks' = Acked(ToLocal(up.radio), up.kind, up.last)
    /\ up' = [up EXCEPT !.pc = "next", !.radio = NoRadio, !.rows = {}, !.last = 0]
    /\ UNCHANGED <<stored, gone, switches, brokers, radio, people, fw, received, aside, history, left>>

\* An upload that did not succeed ends the sending of this tick.
Stopped == [up EXCEPT !.pc = "prune", !.radio = NoRadio, !.rows = {}, !.last = 0]

\* A mutant: the refused batch is tried again and again.
SetAsideNot == marks
SetAside == Acked(ToLocal(up.radio), up.kind, up.last)

\* 400, 422: the batch is set aside for good.
UploadRefused ==
    /\ up.pc = "posted" /\ Allowed /\ up.rows \cap Refused # {}
    /\ aside' = aside \cup up.rows
    /\ marks' = SetAside
    /\ up' = Stopped
    /\ UNCHANGED <<stored, gone, switches, brokers, radio, people, fw, received, history, left>>

\* 401, and 403, after which the page reads the account again.
UploadDenied ==
    /\ up.pc = "posted" /\ ~Allowed
    /\ up' = Stopped
    /\ refresh' = IF session.in /\ refresh # "start" THEN "403" ELSE refresh
    /\ UNCHANGED <<database, switches, brokers, radio, account, cached, session, fw, received, aside,
                   history, left>>

\* No network, a server error or a lost answer: the rows stay.
UploadFails ==
    /\ up.pc \in {"posted", "stored"} /\ Spend("fail")
    /\ up' = Stopped /\ refresh' \in Rechecks
    /\ UNCHANGED <<database, switches, brokers, radio, account, cached, session, fw, received, aside,
                   history>>

\* A mutant: the brokers are not asked.
AckedLocally(r) == marks[ToLocal(RadioOf[r])][KindOf[r]] >= r
AckedByAll(r) == \A d \in OwedBy(RadioOf[r]) : marks[d][KindOf[r]] >= r
\* Logged out, nobody's rows count as another account's.
OtherAccounts(r) == up.known /\ account.in /\ RadioOf[r] \notin account.radios

\* Rows up to n are old: those go that every destination has, and those of another account,
\* whoever has them.  The page prunes at most once an hour.
UpPrune(n) ==
    /\ up.pc = "prune"
    /\ gone' = gone \cup {r \in InQueue : r <= n /\ (AckedByAll(r) \/ OtherAccounts(r))}
    /\ owed' = {p \in owed : ~(p[2] <= n /\ OtherAccounts(p[2]))}
    /\ up' = IdleUploader
    /\ UNCHANGED <<stored, marks, switches, brokers, radio, people, fw, received, aside, since, left>>

UpRest ==
    /\ up.pc = "prune"
    /\ up' = IdleUploader
    /\ UNCHANGED <<database, switches, brokers, radio, people, fw, received, aside, history, left>>

----------------------------------------------------------------------------
(* The forwarders. *)

Becomes(d, f) == fw' = [fw EXCEPT ![d] = f]
FwOnly == UNCHANGED <<switches, brokers, radio, people, up, aside, history>>

FwTick(d) ==
    /\ fw[d].pc = "idle"
    /\ Becomes(d, [fw[d] EXCEPT !.pc = IF fw[d].client THEN "reading" ELSE "connecting"])
    /\ FwOnly /\ UNCHANGED <<database, received, left>>

FwConnected(d) ==
    /\ fw[d].pc = "connecting"
    /\ Becomes(d, [fw[d] EXCEPT !.pc = "reading", !.client = TRUE])
    /\ FwOnly /\ UNCHANGED <<database, received, left>>

\* A mutant: the tick does not end, and no other starts.
RestedRunning(f) == [f EXCEPT !.kind = "obs", !.rows = {}, !.row = 0]
\* A tick ends; the next one begins with the receptions.
Rested(f) == [f EXCEPT !.pc = "idle", !.kind = "obs", !.rows = {}, !.row = 0]

\* The radio does not sign, or there is no connection.
FwConnectFails(d) ==
    /\ fw[d].pc = "connecting" /\ Spend("fail")
    /\ Becomes(d, Rested(fw[d]))
    /\ FwOnly /\ UNCHANGED <<database, received>>

FwRead(d) ==
    LET rows == Waiting(d, fw[d].kind)
    IN  /\ fw[d].pc = "reading" /\ rows # {}
        /\ Becomes(d, [fw[d] EXCEPT !.pc = "sending", !.rows = rows])
        /\ FwOnly /\ UNCHANGED <<database, received, left>>

FwDrained(d) ==
    /\ fw[d].pc = "reading" /\ Waiting(d, fw[d].kind) = {}
    /\ Becomes(d, IF fw[d].kind = "obs" THEN [fw[d] EXCEPT !.kind = "track"] ELSE Rested(fw[d]))
    /\ FwOnly /\ UNCHANGED <<database, received, left>>

FwSend(d, r) ==
    /\ fw[d].pc = "sending" /\ fw[d].client
    /\ r \in fw[d].rows /\ \A q \in fw[d].rows : r <= q
    /\ Becomes(d, [fw[d] EXCEPT !.pc = "sent", !.row = r])
    /\ FwOnly /\ UNCHANGED <<database, received, left>>

\* Without a connection nothing more is read in this tick.
FwHalts(d) ==
    /\ fw[d].pc = "sending" /\ ~fw[d].client
    /\ Becomes(d, Rested(fw[d]))
    /\ FwOnly /\ UNCHANGED <<database, received, left>>

BrokerTakes(d) ==
    /\ fw[d].pc = "sent"
    /\ received' = [received EXCEPT ![d] = @ \cup {fw[d].row}]
    /\ Becomes(d, [fw[d] EXCEPT !.pc = "taken"])
    /\ FwOnly /\ UNCHANGED <<database, left>>

\* The PUBACK: the row is acknowledged in the queue.
FwPubAck(d) ==
    LET f == fw[d]
        rest == f.rows \ {f.row}
    IN  /\ f.pc = "taken" /\ f.client
        /\ marks' = Acked(d, f.kind, f.row)
        /\ Becomes(d, [f EXCEPT !.pc = IF rest = {} THEN "reading" ELSE "sending", !.rows = rest,
                                !.row = 0])
        /\ FwOnly /\ UNCHANGED <<stored, gone, received, left>>

\* The connection is gone, or no PUBACK comes in time: the connection is dropped.
FwFails(d) ==
    /\ fw[d].pc \in {"sent", "taken"}
    /\ IF fw[d].client THEN Spend("fail") ELSE UNCHANGED left
    /\ Becomes(d, Rested([fw[d] EXCEPT !.client = FALSE]))
    /\ FwOnly /\ UNCHANGED <<database, received>>

BrokerCloses(d) ==
    /\ fw[d].client /\ Spend("fail")
    /\ Becomes(d, [fw[d] EXCEPT !.client = FALSE])
    /\ FwOnly /\ UNCHANGED <<database, received>>

----------------------------------------------------------------------------
Uploading ==
    \/ UpTick \/ UpNext \/ UploadStored \/ UpRest
    \/ \E k \in Radios, n \in Rows : UpSend(k, n)
    \/ \E n \in Rows : UpPrune(n)

Answering == ServerStores \/ UploadRefused \/ UploadDenied

Forwarding(d) ==
    FwTick(d) \/ FwConnected(d) \/ FwRead(d) \/ FwDrained(d) \/ FwHalts(d)
    \/ BrokerTakes(d) \/ FwPubAck(d)
    \/ \E r \in Rows : FwSend(d, r)

Switches ==
    \/ Config \/ SwitchedOn
    \/ \E d \in BrokerDests : SwitchOff(d) \/ SwitchOn(d) \/ SkipBacklog(d)

Outside ==
    \/ AddRow \/ RadioLost \/ Reload \/ LogOut \/ SessionChanges \/ LoadMe \/ LoadMeFails
    \/ UploadFails
    \/ \E k \in Radios : RadioConnect(k)
    \/ \E radios \in Accounts : LogIn(radios)
    \/ \E list \in SUBSET Brokers : OwnerLists(list)
    \/ \E d \in BrokerDests : FwConnectFails(d) \/ FwFails(d) \/ BrokerCloses(d)

Next == Uploading \/ Answering \/ Switches \/ Outside \/ \E d \in BrokerDests : Forwarding(d)

Spec == Init /\ [][Next]_vars

\* The timers of the page run, and what is asked of the server is answered, but for the reads
\* of an offline page, which end once an upload gets through.  A publish without a connection
\* is rejected.
Fairness ==
    /\ WF_vars(Uploading) /\ WF_vars(Answering) /\ WF_vars(refresh # "offline" /\ LoadMe)
    /\ \A d \in BrokerDests :
           WF_vars(Forwarding(d)) /\ WF_vars(~fw[d].client /\ FwFails(d))

FairSpec == Spec /\ Fairness

----------------------------------------------------------------------------
(* Properties. *)

TypeOK ==
    /\ stored \in 0 .. N /\ gone \subseteq 1 .. stored
    /\ marks \in [Dests -> [Kinds -> 0 .. N]]
    /\ enabled \subseteq BrokerDests /\ switching \in Switching
    /\ served \subseteq Brokers /\ listed \subseteq Brokers
    /\ radio \in Radios \cup {NoRadio}
    /\ account \in Login /\ cached \in Login /\ session \in Login
    /\ refresh \in {"no", "start", "403", "offline"}
    /\ up \in Uploader /\ fw \in [BrokerDests -> Forwarder]
    /\ received \in [Dests -> SUBSET Rows] /\ aside \subseteq Rows
    /\ owed \subseteq Dests \X (1 .. stored) /\ since \in [BrokerDests -> 0 .. N]
    /\ left \in [Bounded -> Nat]

Has(d, r) == r \in received[d] \/ (d[1] = Local /\ r \in aside)
Ahead(d, r) == r \notin gone /\ r > marks[d][KindOf[r]]

\* A row that is owed to a destination is there, or set aside by RTFM-EV, or still waits for
\* it in the queue, however uploads, forwards, switches, prunes, changes of the account and
\* reloads fall.  Of brokers with the owner's account this is not said (queue.ts:1-4,
\* uploader.ts:5-12).
NothingLost ==
    \A p \in owed : p[1][1] \notin AccountBrokers => Has(p[1], p[2]) \/ Ahead(p[1], p[2])

\* The same of every broker that is on the page's list: "stays until every destination it is
\* owed has it" (queue.ts:1-3).
StaysUntilTaken ==
    \A p \in owed : p[1][1] \in served \cup {Local} => Has(p[1], p[2]) \/ Ahead(p[1], p[2])

\* A broker is sent nothing that was in the queue when it was last switched on
\* (forwarder.ts:223-224).
OnlyFromThenOn ==
    [][\A d \in BrokerDests, r \in Rows : FwSend(d, r) => r > since[d]]_vars

\* What waits for RTFM-EV's copy of a radio gets there or is set aside, as long as the radio
\* stays on the account of somebody who stays logged in (uploader.ts:5-12).
UploadsDrain ==
    \A k \in Radios :
        <>[](/\ account.in /\ k \in account.radios
             /\ session.in /\ k \in session.radios) =>
        <>[](\A kind \in Kinds : Waiting(ToLocal(k), kind) = {})

\* A broker gets what it is owed, as long as it stays switched on and the radio connected
\* (forwarder.ts:1-5).
ForwardsDrain ==
    \A d \in BrokerDests :
        <>[](fw[d].pc # "none") => <>[](\A p \in owed : p[1] = d => p[2] \in received[d])
=============================================================================
