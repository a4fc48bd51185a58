# RTFM-EV: formal models of the radio backend and the web client

RTFM-EV is a web client for MeshCore mesh radios. A Python backend (`src/app`,
FastAPI on one asyncio event loop) owns the serial, BLE or TCP link to a
*companion* radio, an SQLite database and a WebSocket to the browsers; a React
frontend (`src/frontend`) shows messages and unread counts, and has a page for
*wardriving* that talks to a radio itself and uploads what it hears. This
directory holds TLA+ models of the parts where several tasks, callbacks or
requests, an unreliable radio or network and restarts meet, the TLC runs that
check them, and TLAPS proofs.

Backend:

- `DmDelivery`, `DmStatus`: outgoing direct messages and what is promised of them
- `DmDelivery_proofs`: proofs about `DmDelivery` for every value of its constants
- `TempRadio`: temporary radio settings and frequency scans
- `TempRadio_proofs`: proofs about `TempRadio`
- `TempRadioSound`: `TempRadio` with the gaps of the code after which a companion
  may be stranded
- `TempRadioSound_proofs`: that there are no other gaps
- `ChannelSlots`: the channel slots of the companion and the cache of them
- `ChannelSlots_proofs`: proofs about the cache of `ChannelSlots`

Web client:

- `MessageLists`: the pure functions on message lists and on the conversation cache
- `MessageLists_proofs`: lemmas about those functions
- `ConversationView`: the conversation on screen, its cache, requests and events
- `ConversationView_proofs`: proofs about `ConversationView`
- `UnreadCounts`: unread counts, read cursors and what the user marks
- `UnreadCounts_proofs`: proofs about `UnreadCounts`
- `WardriveQueue`: the queue of the wardrive page, its uploader and forwarders
- `WardriveQueue_proofs`: proofs about `WardriveQueue`

`MC*.tla` and `MC*.cfg` are small instances of these for TLC, and `PROJECT.json`
lists components, runs, mutants, the map to the source, findings and hazards.
Check a run with, for example, `tlc -config MCDmDelivery_one.cfg MCDmDelivery`,
the proofs with `tlapm DmDelivery_proofs.tla` and so on for the eight modules of
proofs.

## 1. Inventory

How concurrency looks in the backend: one event loop, so a stretch without an
`await` is atomic and every `await` lets any other task run. Shared state lives
in module-level dictionaries and in singletons (`radio_manager`, `temp_radio`,
`radio_scan`). Commands to the radio are serialised by one *radio operation
lock* (`radio.py`, `radio_operation`); every command may fail, answer late, or
land although its answer is lost. The process may stop at any `await`, and only
the database survives.

In the browser callbacks are atomic up to an `await` as well, but there are two
further gaps. React applies the updates a handler queued, and the effects that
copy the result into the refs that handlers read, some time after the handler.
And requests overtake each other: an answer is a snapshot of the server at some
moment between sending and arrival, while WebSocket events arrive in order and
are lost while the socket is down.

| Component | State | Operations | What makes it correct |
| --- | --- | --- | --- |
| Direct messages (`services/message_send.py`, `dm_ack_tracker.py`, `dm_ack_apply.py`, `routers/messages.py`, `repository/messages.py`) | message rows; tables of pending, buffered and failed ACK codes; deleted marks; one retry task per DM | send, retry, match ACK, verdict, hold for a late ACK, delete, resend, startup | an ACK is not lost and beats the verdict; the record of what went on air stays; every DM is decided |
| Temporary radio settings (`services/temp_radio.py`, `radio_scan.py`, `radio_commands.py`, `routers/radio.py`) | stored session; expiry task; service lock; scan task; cached `self_info` | start, undo, restore, extend, expire, reconcile, scan, PATCH | no companion is left on temporary settings; nothing changed elsewhere is overwritten; a session ends |
| Channel slots (`radio.py`, `message_send.py`, `radio_sync.py`, `queued_channel_ingest.py`, `channel_set_apply.py`) | slots and queue of the radio; send cache; pending slot map | send, load, loadout, sync, drain, fetch, poll, audit, teardown | a message goes out on its own channel; a queued frame is filed under its own channel |
| Message view (`App.tsx`, `hooks/useConversationMessages.ts`, `useConversationNavigation.ts`, `useConversationActions.ts`, `useRealtimeAppState.ts`) | list on screen, paging flags, refs, cache of conversations, ACKs seen early, requests | open, reload, page, jump to a search result, send, apply events, reconcile after a reconnect | each message once, in its own conversation; an older answer does not undo a newer event; a reconnect leads back to what the server has |
| Unread counts (`hooks/useUnreadCounts.ts`, `useRealtimeAppState.ts`) | counts, first unread message, read boundary, suppression, requests | event, open, mark read or unread, mark all read, snapshot with retries | nothing unread is without a badge, an open conversation has none, what was seen is read on the server |
| WebSocket client (`useWebSocket.ts`) | connection, reconnect timer | connect, deliver, reconnect | after a reconnect what was missed is fetched |
| Wardrive queue (`wardrive/queue.ts`, `uploader.ts`, `forwarder.ts`, `useForwarding.ts`, `WardriveApp.tsx`) | rows and watermarks in IndexedDB; switches; account; broker list; one uploader, one forwarder per broker and radio | add a row, upload, forward, acknowledge, prune, switch on and off, log in and out | a row stays until everyone it is owed to has it; a broker gets nothing from before it was switched on; the queue drains |
| Radio connection (`radio.py`, `radio_lifecycle.py`) | connection, setup flags, pause | connect, set up, monitor, pause, library reconnect | one setup at a time; a wanted connection comes back |
| Channel sends (`message_send.py`) | reserved timestamps, echo watchdog tasks | send, resend, reserve a timestamp, watch for echoes | no two sends share a timestamp; at most the allowed resends |
| Send pacing (`send_pacer.py`) | time of the last send | wait for a slot | spacing, and no waiter starves |
| Host repeater (`host_repeater_tx.py`) | queue, arm state, scheduler task | forward, arm, disarm, settings | no forward after disarm; the queue stays within its limit |
| Contacts on the radio (`radio_sync.py`) | reconcile task, capacity | snapshot, load, evict | a contact is on the radio when it is needed |
| Message ingest (`messages.py`, `dm_ingest.py`, `packet_processor.py`) | message rows, paths | store, deduplicate | one row per message, whatever copies come |
| Fanout (`fanout/manager.py`, `mqtt_base.py`) | modules, restart locks, connection task | reload, remove, dispatch, stop | one running module per enabled configuration |
| Gateway (`gateway/supervisor.py`) | child processes, desired state, backoff | tick, start, stop | a stopped child is not left running |
| Database restore (`services/db_restore.py`) | staged, pending and live files | stage, apply at startup, report | a crash leaves the old or the new database |
| Others | see `PROJECT.json` | | |

Interactions. In the backend sends, loadouts, syncs, temporary switches and
polls all go through the radio operation lock. The post-connect setup syncs
channels, drains the queue, starts auto-fetch and then lets `temp_radio`
reconcile its stored session. ACK codes come in through event handlers and the
packet processor and meet the send and retry tasks only in the tracker's tables
and in the row. The scanner drives temporary sessions through the service lock
and is driven by packet activity. A PATCH of the radio settings ends a session.

The browser gets `message`, `message_acked` and `message_deleted` events; one
handler feeds them to the message view and to the unread counts. A reconnect
reconciles the view and refreshes the counts; a sent message comes back both as
the answer to its POST and as an event. In the wardrive page the radio's
notifications add rows, the switches say which brokers are owed them, the
uploader's and the forwarders' acknowledgements move watermarks, and the
uploader's prune reads all watermarks and all switches at the end of each tick.

Hard behaviours: a value read before an `await` and used after it (deleted
mark, ACK count, companion key, `self_info`, the list a request was sent for,
the switches a toggle began with); two tasks updating one row; a command that
landed without an answer; cancellation in the middle of a switch; a setup that
is cut off and repeated; a crash between saving and switching; answers applied
out of order; an upload the server stored whose answer was lost; a queue pruned
while its readers change. `PROJECT.json` lists them as hazards with their lines.

## 2. The models

### DmDelivery

One record per message row (`row`), one task per message (`pc`, `attempt`,
`held`), the three tracker tables (`pending`, `buffered`, `failedAcks`), the
deleted marks, the requests that delete and resend, ACK handlers between their
two awaits (`acking`), and the radio. The request is `StartSend`, `Acquire`,
`Store`, `Transmit`, `Return` and then `Confirm`, `SettleSilent`,
`SettleRefused` or `ConfirmFails`, and `Track`; the retry task is `Wake`,
`Acquire`, `Transmit`, `Return`, `Recheck`, `Track`, then `LastWake`,
`MarkFailed`, `HoldFailed`. `HearAck` claims a code and `CountAck` counts it.
`Restart` drops everything but the table and marks pending rows unknown.

`DmStatus` is the abstract specification: the life of a message as a reader of
the database sees it. `ImplementsStatus` is the refinement; the mapping
(`Phase`) is a function of the row and of whether the request has stored it.

What the radio did and what the request learns of it are apart. `Transmit` puts
the attempt on air or does not; `Answers` then allows silence and an error for
either (an error or an exception is also what a lost answer looks like), and a
code only for an attempt that is on air. `SettleRefused` deletes the row on
every error, as the code does, on air or not.

Left out or assumed: an ACK code is the pair of message and attempt (the
timestamp allocator keeps codes of different messages apart); a buffered ACK
outlives the radio's answer and a deleted mark outlives the retry loop, as the
constants in the tracker intend; of the database writes only the status write
after a send may fail; one delete request per message at a time; path outcomes,
flood scope, contact loading and the local meshcomod contact do not change the
control and are abstracted.

### TempRadio

`radio` is what each companion has in flash, `known` the cached `self_info`,
`sess` the stored session, `op` the operation that holds the service lock with
the command it is at (`wait` for the radio lock, `sent`, `landed`), `timer` the
expiry task, `scan`, `takeover` and `ext` the scanner, its successor and a
queued extension, `patch` the settings page. `TempRadioSound` adds one history
variable, `sound`, and names the steps (gaps) after which the code may lose
track of a companion: `Blind` (a session is started or ended on a `self_info`
that does not say what the radio is on), `Hasty` (a start over a session of which
the radio is on neither the normal nor the temporary settings), `Unconfirmed` (a
command without an answer that did not land is taken for done), `Stray` (another
companion is connected when a switch gets the radio lock), `Overtaken` (new
normal settings during a switch) and `PageRace` (the settings page decided about
a session before the lock, and the decision is out of date). `home` is what the user of a
companion regards as normal; the code has no such variable, it only serves the
properties. Starts, undos and restores share the command steps `Acquire`,
`Land`, `SwitchOk`, `SwitchSilent` and `SwitchFails`. Time is a small clock.

Left out or assumed: region, client-repeat bit, opt-ins, the explicit "make
this my new normal" flag and the OpenHop refusal; temporary settings differ
from normal ones; every connect reads `self_info` (the meshcore library does);
a PATCH applies or is refused; the service lock is FIFO only in that a queued
extension precedes a later start (other orders are all included).

### ChannelSlots

`chan` and `queue` are the radio; `slotOf` and `keyAt` are the two dictionaries
of the send cache, `pend` the map for queued frames; `op` is the operation that
holds the radio lock. A send plans a slot (`SendStart`), loads its channel
(`SetLands`, then `SendLoaded`, `SendNotLoaded` or `SendUnanswered`) and
transmits. A loadout reads the slots, loads what is missing into empty ones and
notes all slots at the end. The sync reads, remembers and clears each slot; the
setup continues with the drain and starts auto-fetch; the poll loop drains and
audits. `Fetch` is the only step that needs no lock. `reuse` tells the
transports apart and never changes.

Left out or assumed: the cache evicts any cached channel (the code: the least
recently used one, a subset); names, flood scope and path-hash override; the
option that skips the sync; only frames heard while no link was up are judged,
since a raw packet takes precedence over the queued copy of any other; nobody
else writes the slots; a connect takes the lock for its setup at once.

### ConversationView and MessageLists

`MessageLists` translates the pure functions of `useConversationMessages.ts`. A
list maps each message to its copies on screen (none, one, or several where the
code could show a duplicate), each with its *mark*, which stands for ACK count
and paths; the order on screen is that of the messages. `Reconciled`,
`AppendUnseen`, `MarkFirst`, `WithAcks` and the operators on the cache (`Put`,
`AddedTo`, `Marked`, `Purged`) are what the handlers apply.

In `ConversationView` the server (`stored`, `gone`, `mark`) changes by itself
and queues an event if the socket is up. `view`, `older` and `newer` are the
React state including queued updates, `onScreen` and `newerRef` the refs that
handlers read, and `Commit` is the render with its effects that copies one to
the other. A click renders at once. Each request is a slot in `fetches`:
`Serve` answers it with a snapshot of the server, `Land` is the continuation
after the `await`, with the checks on aborts, on the conversation now open and
on `latestReconcileRequestId`. `Deliver` is one WebSocket event. `Prompt` says
whether every update is rendered before the next event, as in an idle browser,
or may lag behind any number of events.

Left out or assumed: order by time of reception, paths and reactions beyond the
mark; the text of an optimistic copy. `arrived` (what the socket put on screen
and no user step took away) and `late` (messages that were on screen while their
content was not in `seenMessageContent`) are history variables.

### UnreadCounts

The server has messages in order and a read cursor per conversation (`readTo`).
The client has `counts`, `first` (`firstUnreadIds`), the read boundary that is
sent by a timer (`boundary`), `hushed` (`suppressAutoReadKeyRef`), and the GET
and POST requests under way. `DeliverOpen` and `DeliverOther` are the event
handler; `Apply`, `Retry` and `Superseded` the continuation of GET /unreads,
whose answer is dropped or asked for again if the counts changed meanwhile, up
to `Attempts` times. `Open`, `MarkRead`, `MarkAllRead`, `MarkUnread` and its
answer `UnreadMarked` are the user's steps; `Rerender` is the effect of the open
conversation running again for a new object. Marking all read is two
transactions of the server, the contacts and then the channels (`Answered`).
`middle` is `hasNewerMessagesRef`: after a search (`AroundShows`) the list may
end before the newest message, and `DeliverOpen` then neither shows nor reads
nor counts what comes, until the user jumps to the bottom (`JumpToBottom`) or
leaves. `trust`, `kept`, `owed` and `passed` are history variables that the
properties need; `passed` holds the messages that came in the middle and that no
snapshot counted since.

Left out or assumed: outgoing messages, mentions, muted conversations and the
title of the tab; pages below a search result that are fetched one by one (the
list goes to the bottom at once or not at all).

### WardriveQueue

`stored`, `gone` and `marks` are the database; `enabled` and `switching` the
brokers switched on per radio; `served` and `listed` the page's and the owner's
list of brokers; `account`, `cached`, `refresh` and `session` who is logged in,
for the page and for the server. A log-out drops the brokers with the owner's
account first and may then fail, and a call that gets no answer sets the page
offline, which makes it read the account again (`Rechecks`). `up` is a tick of the uploader at the await it
is at: `UpTick`, then per radio and kind `UpSend`, `ServerStores`,
`UploadStored`, `UploadRefused`, `UploadDenied` or `UploadFails`, and `UpPrune`
at its end. `fw` has a forwarder for each broker and radio: `FwTick`,
`FwConnected`, `FwRead`, `FwSend`, `BrokerTakes`, `FwPubAck`, with
`FwFails` and `BrokerCloses` at any place. `Rewired` is the effect that creates
and stops forwarders as switches, list and radio change. `owed` (who a row is
for, fixed when it is added) and `since` are history variables; `received` and
`aside` is what others have.

Left out or assumed: rows have one numbering in order of arrival where the
database numbers each kind; `Queue.ack` is one step; brokers of the observer
format, which take no tracks; one switch at a time; the forwarder of a
destination that is rebuilt waits for nothing of its predecessor; the limit on
batches per tick, which only makes ticks shorter; the content of rows.

## 3. Runs

Each property has a mutant: a plausible bug in a mapped definition under which
TLC finds the property violated.

| Run | What it shows |
| --- | --- |
| `dm_one` | One DM, three attempts, each ACK heard up to twice, deletes, one restart, one failed status write. Safety, refinement of `DmStatus`, a delete stops every attempt that has not passed its check, and under fairness every accepted DM is decided. |
| `dm_resend` | Two rows: a failed DM and its resends, interleaved with late ACKs and deletes of either. The old record goes only once the copy of a resend is recorded. |
| `dm_lost` | A disagreement (section 5). |
| `temp_switches` | Two companions, two starts with a refused command or a crash, one start with settings changed elsewhere, the settings page during a switch, a stopped scan with a lost answer, an unconfirmed command: a companion is stranded only after one of the six gaps; a session touches only its companion, has an owner and is not ended early; under fairness it ends or is parked. |
| `temp_stranded` | A disagreement (section 5). |
| `temp_relink` | A disagreement (section 5). |
| `slots` | Three channels on two slots, with and without reuse. As long as every `set_channel` was answered (`Answered`), messages go out on their own channel and the cache is true; the cache stays one-to-one, a look-up is current and frames are filed right; and a wrong entry that an unanswered load left does not last. |
| `view_prompt` | Navigation, a search, reloads, paging, sends, marks, deletions, a lost socket and a failed request with prompt rendering: no message in another conversation or in its cached copy, what the socket brought is not lost to an older answer, no ACK waits beside its message. |
| `view_slow` | The same with rendering that lags behind, pages of one message and searches into the middle: no duplicates (apart from `late`), and the reconcile of a reconnect makes the newest page what the server has. |
| `unread_safe` | An open conversation has no count, nothing unread is without one apart from `passed`, a manual unread mark stays, and what was seen as it came gets read on the server. |
| `wardrive_safe` | Two radios, three rows, uploads that fail, are denied or refused, a broker switched, listed and closed, accounts, prunes, a reload: no owed row is lost, nothing from before the switch is forwarded, and both queues drain. |
| `wardrive_lost` | A disagreement (section 5). |

Bounds. Three attempts of a DM are the code's own (`DM_SEND_MAX_ATTEMPTS`), two are enough for
the runs with two messages; of the three attempts of a snapshot
(`UNREAD_FETCH_MAX_ATTEMPTS`) the run has two, one that is repeated and a last one. A code heard twice is enough for a
duplicate; one restart reaches every place a task can be cut off. `ResendsOnly`
keeps the two-message run to one typed message and its resend, since unrelated
messages share nothing but the send slot. In the other models every event that
is not a consequence of earlier ones (a start, a click, a refusal, a lost
answer, a crash, a closed socket, ...) is counted, and `Budgets` says which
combinations a run allows; each combination is the smallest in which the cases
of a hazard meet. Two temporary settings and sessions that start at different times let one session
replace another and outlast it; three channels on two slots force evictions, and
each further slot or channel only repeats them. In the client models three
messages of two conversations give a conversation with a middle and another one
to go to; pages and cached copies of one or two messages make lists overflow;
two requests under way are enough for each pair to overtake each other. In
`WardriveQueue` two rows of one radio fill a batch and a row of a second radio
belongs to another account; row 1 is one RTFM-EV refuses. Symmetry
(`Permutations` of channels, messages, temporary settings or companions) is used
in safety runs only. Deadlock checking is off: when the bounded events are used
up the system really rests.

Fairness.

- `DmDelivery`: weak fairness of the steps a task takes by itself (the event
  loop runs every ready task) and strong fairness of taking the radio (asyncio
  locks wake waiters in order); requests, ACKs and failures owe nothing.
- `TempRadio`: the clock runs, and weak fairness of the steps of started tasks,
  since each awaited command returns or raises.
- `ChannelSlots`: the same, plus a poll loop that polls when the lock stays
  free; it skips its turn when the lock is taken, so no strong fairness is
  assumed for it.
- `ConversationView`: the browser renders, its reconnect timer fires, the socket
  delivers, each request is answered and its continuation runs.
- `UnreadCounts`: the timer of a read boundary fires, and each POST reaches the
  server or fails. Nothing is assumed of the user or of GET requests.
- `WardriveQueue`: the uploader's and the forwarders' timers fire and their
  awaits return, the server answers, the page reads the account at its start and
  after a 403 (the reads of an offline page are owed nothing, since they end once
  an upload gets through), and a publish on a closed connection is rejected. That a broker or the
  server takes what is sent is not owed while the budget allows failures; the
  properties ask what happens once the conditions they name last.

## 4. Proofs

`DmDelivery_proofs` proves for every set of messages, every number of attempts
above one and all bounds:

- `TypeCorrect`, `FailedIsNotAcked`, `EachCodeHeldOnce`, `PendingHasSend`;
- `ImplementsDmStatus`: every behaviour is one of `DmStatus`;
- `RecordIsKept`: a row goes only by the user's delete, by a resend whose own
  copy is recorded, or with an error or a failed status write while its send is
  unsettled; so never for a silent radio, a retry or a restart (that an error
  loses the record of a message on air is run `dm_lost`);
- `DeletesStopRetries`: when a message is marked as deleted, only the attempt its
  task is at can still go on air, wherever the task waits, and none after it;
- `LatestAckClaimed`: an ACK heard for the latest registered attempt while its
  window is open is being counted or was, unless the message is deleted.

The properties are not inductive. `IInv` adds, for every message, what the row
may be given where its task is (`RowShape`) and what the tracker may hold
(`TrackerShape`): while a row is not stored, is being sent or is unknown,
neither table knows a code of it and no handler is counting for it, and a code
moves to the grace table only when the task has ended. Without it an ACK could
arrive for a pending row, or a verdict could meet an ACK. Each action gets a
lemma step per conjunct it disturbs; most actions touch one message, and
`Local` carries the others over. The refinement follows from the same
invariant: `PhaseStep` shows that each action moves each message along an arrow
of `DmStatus` or not at all.
`RecordIsKept` needs to know what is on air (`AirShape`): only attempts the task
has come to, and the first one wherever an answer or a resend presumes it.
`DeletesStopRetries` needs that attempts go on air one after the other, and that
each later one passes the check of `Wake` first (`Stopping`, `NoneAfter`).
`LatestAckClaimed` needs that the tracker knows codes of past attempts only
(`Registered`), that a failed message, and one that is being replaced, has
stopped retrying (`FailedOver`), and where an ACK is before it is counted
(`AckShape`): buffered while its code is not registered, and after that the code
stays pending for as long as nobody heard it.

`ChannelSlots_proofs` proves for any channels, any number of slots and all
bounds, with slot reuse and without:

- `SlotTypes`, and `OneOwner`: the cache's two dictionaries stay inverse;
- `CacheIsTrue` and `SendsAreOnOwnChannel`: as long as every `set_channel`
  returned a result (`Answered`; section 5 says what happens without it), the
  cache is true and messages go out on their own channel;
- `LookupsAreCurrent`: under the same condition, and if no load landed that was
  reported as an error, the channel that is looked up for a slot while no
  operation runs is the one the radio has there, or none;
- `OfflineFramesFiled`: a frame the radio queued while it had no link is filed in
  the channel it was sent on, unless a command failed or a link was dropped.

The argument has two layers. `IInv` is about structure alone: a loadout knows
where its channels are and loads only slots it found free (`ApplyShape`), so the
slots it notes at the end are distinct, which is what keeps the dictionaries
inverse. `Truth` adds the radio: the only channel the cache can still have in the
slot a send loads is the one it evicts (`SendShape`), so a load that fails after
it landed is repaired by dropping that one; a sync works with an empty cache; a
loadout never loads a slot of a cached channel. That a send finds an unclaimed
slot while the cache has room is a counting argument over the one-to-one cache
(`FreeSlotUnclaimed`).
The second map is right outside of loads (`PendTrue`), which for a loadout needs
that a channel it still has to load has no place yet (`Unplaced`). The last
theorem follows the frames from the link's end to the drain: the setup runs
undisturbed (`SetupShape`), and the channel of every queued frame is still in its
slot or was put into the second map before the slot was cleared (`Remembered`).

`WardriveQueue_proofs` proves for any radios, brokers, accounts and rows, every
size of a batch and all bounds:

- `WardriveTypes`;
- `NoRowIsLost`: whoever a row is owed to has it, or it is still in the queue
  ahead of its watermark; for RTFM-EV and every broker that is not an account
  broker (for those `wardrive_lost` shows the opposite);
- `ForwardsOnlyLaterRows`: a broker is sent nothing that was in the queue when
  it was last switched on, for every broker.

Neither follows from types and itself. A watermark moves past a row when an
answer comes, so what is under way must be known to cover it: `UploadCovers`
says that every row owed to RTFM-EV up to the last row of the batch under way is
in the batch or has arrived, and that all of the batch has arrived once the
server stored it; `ForwardCovers` says the same, row by row, of what a forwarder
has read. `MarkedArrived` and `PrunedArrived` are the two halves of the property
(what a watermark has passed, and what is deleted); `OwedToSwitched` says that a
destination a row is owed to is still counted by the prune, so the row cannot be
deleted before it arrived; `SwitchApart` says that a broker whose watermark is
being moved past the backlog is not on yet, so that nothing is owed to it.
`SkipInv` adds for the second theorem that
the watermark of a switched-on broker has passed the backlog (`BacklogSkipped`)
and that a forwarder only holds later rows (`LaterRows`).
Both invariants were first checked with TLC, with account brokers and without.

`UnreadCounts_proofs` proves for any conversations, any number of messages and
requests, and all bounds:

- `UnreadTypes`;
- `OpenHasNoCount`: the open conversation has no count;
- `MarkedStaysUnread`: what was marked unread while it is open, with nothing
  about it under way, stays unread until the user reads it;
- `NothingIsHidden`: when all is settled after a current snapshot, a message that
  is unread on the server and never was on screen is announced by a count, unless
  it came while its conversation was open in the middle (`passed`, section 5).

Types need `PostsMatch`: serving a request to mark a message unread sets the
cursor before that message, so the request must be about a message.
`MarkedStaysUnread` needs `MarkHolds`: while the mark stands, an open conversation is left
alone (`hushed`), and neither a request under way nor a read boundary is about
it. `MarkStep` shows that every step that sends a read finds another
conversation open, or finds the marked one left alone; a mark set while
something about the conversation is under way is not covered, because a read
boundary is not cancelled (section 5).
`NothingIsHidden` needs `CountsKnow`: a conversation without a count misses
nothing, apart from what an event or a POST under way will tell; and
`LoadKnows`, the same of the snapshot that is awaited, whose answer may become
the counts. The first attempt to prove it failed on a snapshot that is applied
while the conversation the user has just marked unread is still open, and TLC
found the behaviour once the bounds had a second opening, a mark and a dropped
socket: the count is dropped, and leaving the conversation hides the message
(section 5). Such a snapshot, and a request to mark unread itself, no longer
count as current in `trust`.

`ConversationView_proofs`, on the lemmas of `MessageLists_proofs` (what each list
function keeps, adds and may show twice), proves for any conversations and
messages, any sizes of pages and cached copies, and all bounds:

- `ViewTypes`;
- `NoDuplicateRows`: no message twice, on screen or in the cache, with prompt
  rendering and with late, apart from messages in `late`;
- with prompt rendering (`Prompt`; section 5 says what happens without it)
  `OwnMessagesOnly`, `NoAckStranded` and `ArrivedAreKept`.

`OwnMessagesOnly` needs `OwnInv`: a page fetched for a conversation holds only
its messages, a request that may still land is for the conversation now open, and
what React state and refs hold belongs to it as well. `NoAckStranded` needs
`AckInv`: an ACK waits only for a message that is nowhere, so every way a message
gets on screen or into the cache has to take it along (`AckHeld`).
`NoDuplicateRows` needs `DupInv`: every message in the view is in the set of seen
contents or in `late` (`ViewSeen`), pages are free of repetitions, and so are
the lists. It showed that the older version of the property was not inductive
for a reason in the code (section 5), which TLC then reached with a larger bound;
`late` is the exception it got. `ArrivedAreKept` needs `ArrivedInv`: every
message that arrived is known to the landing request as one that is not to be
taken for deleted (`AllKnown`), and a snapshot has no gaps (`SnapshotWhole`).

`TempRadio_proofs` proves for any companions, settings, durations and budgets:

- `RadioTypes`;
- `SessionsHaveOwners`: an active session on its connected companion has a task,
  a scan or a queued extension that ends it, in every behaviour;
- `CommandsStayHome`, if the companion is not exchanged while a switch waits for
  the radio lock (`temp_relink` shows what happens if it is);
- `TimersOnTime`, if no scan is stopped inside a switch of its own: a stopped one
  leaves the retry of its own expired task behind, which may end a later session
  early (section 5).

The types need to say what an idle operation holds. `OwnerInv` adds which of the
scan, its stop request and the settings page may be under way together (`Aside`),
and has to count a scan's own restore as nobody's, because stopping the scan cuts
it off.

`TempRadioSound_proofs` proves `GapsAreAll`, for any companions, settings and
budgets and for every behaviour of `TempRadio`: as long as none of the six gaps
was entered, a companion is on its normal settings, or the stored session knows
them and recognises what the radio is on, at every await of a start, an undo or
a restore. So no refused command, lost answer, dropped link, cancelled scan, edit
elsewhere, save of the settings page or crash strands a companion in another way.
None of the six can be left out: without any one of them TLC finds the property
violated within three starts and one or two other events (`temp_stranded` passes
through `Hasty`, `temp_relink` through `Stray`). The invariant (`Core`) adds to
the property that an operation works on a session that remembers the normal
settings, and that what it replaced is of the same companion (`AtWork`); that a
command has done what it was for once it landed (`Wired`); that a session that
outlives wrong information on its radio still has its normal settings (`Stale`);
what the settings page ends (`Ending`); and that nobody's normal settings are
temporary ones (`Plain`).

Assumptions used: those named in the modules (`NoMsgAssumption`,
`AttemptsAssumption`, `BoundsAssumption`, `KeysAssumption`, `SlotsAssumption`,
`PartiesAssumption`, `RowsAssumption`, `AccountsAssumption`,
`ConvsAssumption`, `ConvOfAssumption`, `MessagesAssumption`, `SwitchAssumption`,
`NAssumption`, `SizesAssumption`, `SettingsAssumption`, `TimeAssumption`,
`BudgetsAssumption`), which TLC evaluates in the runs. Every invariant and
action property of the passing runs is stated by a theorem. Only model-checked is
liveness, since fairness and `ENABLED` are out of the prover's reach:
`EveryDmDecided`, `EndsOrParked`, `CacheHeals`, `ReconnectHeals`, `SeenGetsRead`,
`UploadsDrain` and `ForwardsDrain`. Induction over data is out of reach too: the
lemmas on lists are about what the list functions keep, add and repeat.

## 5. Where the code and its documentation disagree

With a run (details and quotations in `PROJECT.json`):

- `dm_lost`: an error, an exception or a failed status write after the radio took
  a message deletes its row, although it was stored first so that this could not
  happen (`message_send.py:875-883`);
- `temp_stranded`: three starts and two dropped links leave a companion on
  temporary settings that no record knows (`temp_radio.py:257`);
- `temp_relink`: a switch waiting for the radio lock goes to whatever companion
  is connected when it gets it.
- `wardrive_lost`: logging out takes the brokers with the owner's account off the
  page's list but leaves their switches on; a prune meanwhile deletes rows they
  never got, and after the next login they go on without them.

Also visible in the models, and written into the properties as exceptions, into
history variables (the gaps of `TempRadioSound` among them), or kept out of the
budgets of the passing runs, without a run of their own. Direct messages:

- a retry that waits for the radio sends a message deleted meanwhile (the one
  attempt `DeleteStopsRetries` lets through);
- a resend deletes a row that a late ACK just delivered;
- an ACK of an early attempt heard between the end of its window and the verdict
  is only buffered, and the DM is marked failed (`dm_ack_tracker.py:63`);
- a retry may register a code after the message's codes were cleared, so a
  delivered DM still holds one (`message_send.py:688`).

Temporary settings:

- a restore trusts stale `self_info` and ends a session whose radio is still on
  temporary settings (`Blind`);
- a restore or an undo whose command was not answered ends the session although
  the command did not land (`Unconfirmed`, `radio_commands.py:177`);
- an undo that fails leaves no expiry task until the next connect
  (`temp_radio.py:320`; "parked" in `EndsOrParked`);
- a start between connect and reconcile keeps outdated normal settings and
  overwrites what was changed elsewhere (`Hasty`, `temp_radio.py:243`);
- an extension queued by a scan entry that fails lengthens the user's session
  (`temp_radio.py:386`);
- a scan stopped in its switch can leave the radio on the entry's settings
  (`radio_scan.py:216`);
- a scan stopped in its switch leaves the retry of an expired task behind, which
  can end a session that is started later before its time (`TimersOnTime`);
- a save of the settings page can be overwritten by a waiting restore
  (`PageRace`, `Overtaken`; `routers/radio.py:731`).

Channel slots:

- a `set_channel` without a result leaves the evicted channel in the cache;
- an error in the drain ends it and clears the map, so the frames still queued are
  filed as of an unknown channel (`OfflineFrameFiled` exempts failed commands);
- a setup repeated after a library reconnect drains while auto-fetch runs
  (`radio_lifecycle.py:322`).

Message view (`useConversationMessages.ts`):

- a deleted message newer than all that was fetched stays on screen while the
  page is full (259-262), and so does one that was deleted while its conversation
  was only in the cache (226-227 against 588);
- an older page whose state update React runs late leaves its messages out of
  `seenMessageContent` (660-675), and a latest page that does not differ resets
  the set to what is rendered (566); after a search a newer page may then append
  such a message a second time (736-741), while the comment at 925-928 counts on
  visible messages staying in the set;
- a page around a search result overwrites a message that an event put there
  while it was under way;
- reaching the target of a search drops a reconcile that was deferred (829-830);
- with a late commit a message can enter the view, and through it the cache, of
  the conversation that was just left (`OwnMessages` is checked with prompt
  rendering only);
- an older snapshot can take back an ACK that an event brought, or show a
  deleted message again until the next reconcile;
- a switch between a contact's info page and its chat aborts a load under way
  and starts none, since both are the same conversation (378-382);
- the first connection never reconciles (`useWebSocket.ts:99`), so a message
  between the first page and that connection is only seen after a reload or a later reconnect.

Unread counts (`useUnreadCounts.ts`):

- a message that comes while its conversation is open with newer messages not
  loaded is neither shown, read nor counted (`useConversationMessages.ts:1051-1053`
  with 365-382), so after leaving it is unread without a badge until the next
  snapshot (`passed`);
- a read boundary whose POST is lost is not sent again (`owed` is emptied then);
- `firstUnreadIds` need not be the oldest unread message after a snapshot met
  an event (40 against 280 and 329-331);
- a message that a snapshot counts and whose event comes afterwards is counted
  twice;
- marking the open conversation unread shows no badge after leaving it, since its
  snapshot is applied while it is still open;
- marking unread does not cancel a read boundary that waits for its timer;
- a message that a page showed before its event came gets no read boundary;
- the unbounded read of a conversation (300-308) also covers messages that arrive
  before the request does (against 311-313);
- the third attempt applies its snapshot even if it is stale.

Wardrive:

- a switch that is turned while another one is being turned is lost
  (`useForwarding.ts:143-153`; the model turns one at a time);
- a forwarder that is rebuilt while its predecessor's row is in flight publishes
  that row a second time (`useForwarding.ts:82-83`);
- a 401 does not pause the uploader: the next tick tries again;
- a server error while the page asks for the account leaves it logged out until
  a reload.

## 6. Plan

Done: three components of the backend and three of the web client. Next:

1. Proofs: abstract specifications for more components, and refinement proofs
   for them, as `DmStatus` has.
2. `RadioLifecycle`: connect, setup with timeout and retry, monitor, pause,
   library reconnect; abstract specification: a wanted connection is set up
   exactly once per link. `ChannelSlots` and `TempRadio` take its connect steps
   as given.
3. `HostRepeaterTx`: arm, disarm, queue, scheduler, guard; no forward after a
   disarm, an armed repeater has a scheduler, the queue limit.
4. `FanoutManager` with the connection loop of `MqttBase`: one running module
   per enabled configuration, none after a removal.
5. `OutgoingTimestamps` and the echo watchdog of channel sends; `DmDelivery`
   assumes what `OutgoingTimestamps` would prove, that codes differ. Then
   `DbRestore` and `GatewaySupervisor`.

## 7. Not modelled

`PROJECT.json` gives the reason for each component. In the backend: byte formats
and cryptography, WebSocket fan-out, spam heuristics, push, metrics, maps and
trackers, single-statement storage, and the components of the plan above. In the
web client: everything that computes what to draw from what the modelled hooks
hold (components, settings pages, maps, the packet feed, the network graph),
which has no state shared between concurrent actors, and on the wardrive page
the radio link and the recording of tracks and receptions, which the model sees
as rows that are added.
