----------------------------- MODULE DmDelivery -----------------------------
(***************************************************************************)
(* Delivery of outgoing direct messages (DMs) in the RTFM-EV backend: the  *)
(* request that stores and sends a DM, the background task that retries it *)
(* until an ACK arrives, the handlers that match incoming ACK codes, the   *)
(* delete and resend requests, and a restart of the process.               *)
(*                                                                         *)
(* Everything runs on one asyncio event loop, so a stretch of code without *)
(* an await is one atomic action and every await is a place where another  *)
(* task may run.  One radio serves one send at a time.                     *)
(*                                                                         *)
(* An ACK code is a hash of the text, the timestamp and the attempt; the   *)
(* timestamp allocator keeps the codes of different messages apart, so a   *)
(* code is modelled by the pair <<message, attempt>>.                      *)
(***************************************************************************)
EXTENDS Naturals, FiniteSets

CONSTANTS
    Msgs,         \* identifiers of the message rows that can be created
    NoMsg,        \* stands for "no message"
    MaxAttempts,  \* DM_SEND_MAX_ATTEMPTS
    MaxHeard,     \* bound: how often one ACK code is heard
    MaxCrashes,   \* bound: restarts of the process
    MaxDbFaults   \* bound: status writes the database refuses

ASSUME NoMsgAssumption == NoMsg \notin Msgs
ASSUME AttemptsAssumption == MaxAttempts \in Nat /\ MaxAttempts > 1
ASSUME BoundsAssumption == {MaxHeard, MaxCrashes, MaxDbFaults} \subseteq Nat

Codes == Msgs \X (0 .. MaxAttempts - 1)
CodesOf(m) == {m} \X (0 .. MaxAttempts - 1)

\* send_status of a row; "none" is a message without a row.
Status == {"none", "pending", "confirmed", "unknown"}
Row == [status : Status, acked : Nat, failed : BOOLEAN]
NoRow == [status |-> "none", acked |-> 0, failed |-> FALSE]
NewRow == [status |-> "pending", acked |-> 0, failed |-> FALSE]

\* Where the task of a DM is: first the request (attempt 0), then the retry task.
Places == {"unsent", "waitRadio", "store", "transmit", "returning",
           "code", "nocode", "silent", "refused",
           "track", "matched", "sleep", "verdict", "hold", "ended"}

VARIABLES
    row,       \* the messages table
    pc,        \* where the task of a message is
    attempt,   \* the attempt the task is at (its loop variable)
    held,      \* ack_codes of the retry task
    replaces,  \* the failed message a resend replaces
    resend,    \* where the resend request is, indexed by the new message
    del,       \* where the delete request of a message is
    acking,    \* ACK handlers that claimed a message and have not counted yet
    radio,     \* the message that holds the send slot and the radio lock
    air,       \* attempts that went on air
    heard,     \* how often the ACK of an attempt was heard
    pending,   \* _pending_acks
    buffered,  \* _buffered_acks
    failedAcks, \* _failed_acks
    deleted,   \* _deleted_message_ids
    crashes,   \* restarts so far
    dbFaults   \* refused writes so far

taskVars == <<pc, attempt, held>>
requestVars == <<replaces, resend, del>>
trackerVars == <<pending, buffered, failedAcks, deleted>>
worldVars == <<air, heard>>
faultVars == <<crashes, dbFaults>>
vars == <<row, taskVars, requestVars, acking, radio, worldVars, trackerVars, faultVars>>

TypeOK ==
    /\ row \in [Msgs -> Row]
    /\ pc \in [Msgs -> Places]
    /\ attempt \in [Msgs -> 0 .. MaxAttempts]
    /\ held \in [Msgs -> SUBSET Codes]
    /\ replaces \in [Msgs -> Msgs \cup {NoMsg}]
    /\ resend \in [Msgs -> {"no", "sending", "clear", "drop"}]
    /\ del \in [Msgs -> {"no", "found", "marked"}]
    /\ acking \in [Msgs -> Nat]
    /\ radio \in Msgs \cup {NoMsg}
    /\ air \subseteq Codes
    /\ heard \in [Codes -> 0 .. MaxHeard]
    /\ pending \subseteq Codes
    /\ buffered \subseteq Codes
    /\ failedAcks \subseteq Codes
    /\ deleted \subseteq Msgs
    /\ crashes \in 0 .. MaxCrashes
    /\ dbFaults \in 0 .. MaxDbFaults

Init ==
    /\ row = [m \in Msgs |-> NoRow]
    /\ pc = [m \in Msgs |-> "unsent"]
    /\ attempt = [m \in Msgs |-> 0]
    /\ held = [m \in Msgs |-> {}]
    /\ replaces = [m \in Msgs |-> NoMsg]
    /\ resend = [m \in Msgs |-> "no"]
    /\ del = [m \in Msgs |-> "no"]
    /\ acking = [m \in Msgs |-> 0]
    /\ radio = NoMsg
    /\ air = {}
    /\ heard = [c \in Codes |-> 0]
    /\ pending = {} /\ buffered = {} /\ failedAcks = {}
    /\ deleted = {}
    /\ crashes = 0 /\ dbFaults = 0

-----------------------------------------------------------------------------
(* The messages table.  Every UPDATE leaves a missing row missing.         *)

Exists(m) == row[m].status # "none"
IsAcked(m) == row[m].acked > 0
\* Mutated form of Update: an upsert brings a deleted row back.
UpdateUpserts(m, new) == row' = [row EXCEPT ![m] = new]

Update(m, new) == row' = [row EXCEPT ![m] = IF Exists(m) THEN new ELSE NoRow]

UpdateStatus(m, s) == Update(m, [row[m] EXCEPT !.status = s])
IncrementAck(m) ==
    Update(m, [status |-> "confirmed", acked |-> row[m].acked + 1, failed |-> FALSE])
\* Mutated form of CanMarkFailed: the UPDATE does not look at the ACK count.
CanMarkFailedAlways(m) == Exists(m)

CanMarkFailed(m) == Exists(m) /\ row[m].acked = 0
DropRow(m) == row' = [row EXCEPT ![m] = NoRow]

(* The ACK tracker.                                                        *)
Code(m) == <<m, attempt[m]>>

\* Mutated form of WaitOver: entries expire after one ACK window.
WaitOverAtOnce(c) == c[2] < attempt[c[1]]

\* An entry lives for twice its ACK window and the task waits 1.2 windows after
\* an attempt: what may be expired is the code of an attempt whose wait is over.
WaitOver(c) ==
    \/ c[2] + 1 < attempt[c[1]]
    \/ c[2] + 1 = attempt[c[1]] /\ pc[c[1]] # "sleep"
\* A buffered ACK lives 30 seconds, longer than the radio takes to answer.
SendUnderWay(c) ==
    /\ c = Code(c[1])
    /\ pc[c[1]] \in {"transmit", "returning", "code", "track"}

\* cleanup_expired_acks: which entries may be dropped when an ACK is handled.
Expirable == [pending : SUBSET {c \in pending : WaitOver(c)},
              buffered : SUBSET {c \in buffered : ~SendUnderWay(c)},
              failed : SUBSET failedAcks]

ClearCodes(m, p, f) ==
    /\ pending' = p \ CodesOf(m)
    /\ failedAcks' = f \ CodesOf(m)

Goto(m, place) == pc' = [pc EXCEPT ![m] = place]

-----------------------------------------------------------------------------
(* send_direct_message_to_contact: the request.                            *)

StartSend(m) ==
    /\ pc[m] = "unsent"
    /\ Goto(m, "waitRadio")
    /\ UNCHANGED <<row, attempt, held, requestVars, acking, radio, worldVars,
                   trackerVars, faultVars>>

\* resend_direct_message: the router reads the old row, then sends a new message.
StartResend(o, m) ==
    /\ pc[m] = "unsent" /\ o # m
    /\ Exists(o) /\ row[o].failed /\ ~IsAcked(o)
    /\ Goto(m, "waitRadio")
    /\ replaces' = [replaces EXCEPT ![m] = o]
    /\ resend' = [resend EXCEPT ![m] = "sending"]
    /\ UNCHANGED <<row, attempt, held, del, acking, radio, worldVars, trackerVars, faultVars>>

\* The send slot and the radio lock; a retry goes on to transmit at once.
Acquire(m) ==
    /\ pc[m] = "waitRadio" /\ radio = NoMsg
    /\ radio' = m
    /\ Goto(m, IF attempt[m] = 0 THEN "store" ELSE "transmit")
    /\ UNCHANGED <<row, attempt, held, requestVars, acking, worldVars, trackerVars, faultVars>>

\* Mutated form of RequestOver: the resend goes on whatever came of the new send.
RequestOverAnyway(m, accepted) ==
    resend' = [resend EXCEPT ![m] = IF @ = "sending" THEN "clear" ELSE @]

\* The request is over: a resend goes on only after a send the radio accepted.
RequestOver(m, accepted) ==
    resend' = [resend EXCEPT ![m] =
                   IF @ = "sending" THEN IF accepted THEN "clear" ELSE "no" ELSE @]

\* The radio is not connected, or a step before the row is stored fails.
AbortSend(m) ==
    /\ attempt[m] = 0
    /\ \/ pc[m] = "waitRadio" /\ radio' = radio
       \/ pc[m] = "store" /\ radio' = NoMsg
    /\ Goto(m, "ended")
    /\ RequestOver(m, FALSE)
    /\ UNCHANGED <<row, attempt, held, replaces, del, acking, worldVars, trackerVars, faultVars>>

\* create_outgoing_direct_message: the row exists before the radio is asked.
Store(m) ==
    /\ pc[m] = "store"
    /\ row' = [row EXCEPT ![m] = NewRow]
    /\ Goto(m, "transmit")
    /\ UNCHANGED <<attempt, held, requestVars, acking, radio, worldVars, trackerVars, faultVars>>

\* send_msg: the radio puts the attempt on air, or it does not.
Transmit(m) ==
    /\ pc[m] = "transmit"
    /\ air' \in {air, air \cup {Code(m)}}
    /\ Goto(m, "returning")
    /\ UNCHANGED <<row, attempt, held, requestVars, acking, radio, heard, trackerVars, faultVars>>

\* What send_msg returns: MSG_SENT with or without a code, nothing, or an error; it
\* may raise too.  Only MSG_SENT says that the attempt is on air: silence, an error
\* (a lost answer is one for the library) and an exception leave it open.
Answers(m) ==
    {"silent", "refused"} \cup (IF Code(m) \in air THEN {"code", "nocode"} ELSE {})

\* Mutated form of NextAttempt: the attempt is not counted.
NextAttemptFree(m) ==
    /\ attempt' = [attempt EXCEPT ![m] = IF @ = 0 THEN 1 ELSE @]
    /\ Goto(m, "sleep")

\* The task moves on to the next attempt and sleeps for the ACK window first.
NextAttempt(m) ==
    /\ attempt' = [attempt EXCEPT ![m] = @ + 1]
    /\ Goto(m, "sleep")

Return(m) ==
    /\ pc[m] = "returning"
    /\ radio' = NoMsg
    /\ \E answer \in Answers(m) :
          IF attempt[m] > 0 /\ answer \in {"silent", "refused"}
          THEN NextAttempt(m)
          ELSE Goto(m, answer) /\ UNCHANGED attempt
    /\ UNCHANGED <<row, held, requestVars, acking, worldVars, trackerVars, faultVars>>

-----------------------------------------------------------------------------
(* The request settles the row according to the radio's answer.            *)

Confirm(m) ==
    /\ attempt[m] = 0 /\ pc[m] \in {"code", "nocode"}
    /\ UpdateStatus(m, "confirmed")
    /\ IF pc[m] = "code"
       THEN Goto(m, "track") /\ UNCHANGED resend
       ELSE Goto(m, "ended") /\ RequestOver(m, TRUE)
    /\ UNCHANGED <<attempt, held, replaces, del, acking, radio, worldVars,
                   trackerVars, faultVars>>

\* The status write raises: the generic handler deletes the row.
ConfirmFails(m) ==
    /\ attempt[m] = 0 /\ pc[m] \in {"code", "nocode"}
    /\ dbFaults < MaxDbFaults
    /\ dbFaults' = dbFaults + 1
    /\ DropRow(m)
    /\ Goto(m, "ended")
    /\ RequestOver(m, FALSE)
    /\ UNCHANGED <<attempt, held, replaces, del, acking, radio, worldVars, trackerVars, crashes>>

\* Mutated form of SettleSilent: no answer is treated like any other failed send.
SettleSilentDrops(m) ==
    /\ attempt[m] = 0 /\ pc[m] = "silent"
    /\ DropRow(m)
    /\ Goto(m, "ended")
    /\ RequestOver(m, FALSE)
    /\ UNCHANGED <<attempt, held, replaces, del, acking, radio, worldVars,
                   trackerVars, faultVars>>

\* No answer: the outcome is unknown and the row is kept.
SettleSilent(m) ==
    /\ attempt[m] = 0 /\ pc[m] = "silent"
    /\ UpdateStatus(m, "unknown")
    /\ Goto(m, "ended")
    /\ RequestOver(m, FALSE)
    /\ UNCHANGED <<attempt, held, replaces, del, acking, radio, worldVars,
                   trackerVars, faultVars>>

\* An error or an exception: the row is removed again, on air or not.
SettleRefused(m) ==
    /\ attempt[m] = 0 /\ pc[m] = "refused"
    /\ DropRow(m)
    /\ Goto(m, "ended")
    /\ RequestOver(m, FALSE)
    /\ UNCHANGED <<attempt, held, replaces, del, acking, radio, worldVars,
                   trackerVars, faultVars>>

\* track_pending_ack and what follows it, for the request and for a retry: an ACK
\* that was heard before its code was registered is claimed on the spot.
Track(m) ==
    /\ pc[m] = "track"
    /\ held' = [held EXCEPT ![m] = @ \cup {Code(m)}]
    /\ IF Code(m) \in buffered
       THEN /\ buffered' = buffered \ {Code(m)}
            /\ ClearCodes(m, pending, failedAcks)
            /\ Goto(m, "matched")
            /\ UNCHANGED <<attempt, resend>>
       ELSE /\ pending' = pending \cup {Code(m)}
            /\ NextAttempt(m)
            /\ IF attempt[m] = 0 THEN RequestOver(m, TRUE) ELSE UNCHANGED resend
            /\ UNCHANGED <<buffered, failedAcks>>
    /\ UNCHANGED <<row, replaces, del, acking, radio, worldVars, deleted, faultVars>>

CountOwnAck(m) ==
    /\ pc[m] = "matched"
    /\ IncrementAck(m)
    /\ Goto(m, "ended")
    /\ IF attempt[m] = 0 THEN RequestOver(m, TRUE) ELSE UNCHANGED resend
    /\ UNCHANGED <<attempt, held, replaces, del, acking, radio, worldVars,
                   trackerVars, faultVars>>

-----------------------------------------------------------------------------
(* _retry_direct_message_until_acked: the background task.                 *)

\* Mutated form of GivesUp: the deleted mark is not looked at.
GivesUpAckedOnly(m) == IsAcked(m)

\* The ACK window is over: give up for a deleted or acked message, else send again.
GivesUp(m) == m \in deleted \/ IsAcked(m)

\* Mutated form of Wake: the loop runs once more than it should.
WakeOnceMore(m) ==
    /\ pc[m] = "sleep" /\ attempt[m] <= MaxAttempts
    /\ Goto(m, IF GivesUp(m) THEN "ended" ELSE "waitRadio")
    /\ UNCHANGED <<row, attempt, held, requestVars, acking, radio, worldVars,
                   trackerVars, faultVars>>

Wake(m) ==
    /\ pc[m] = "sleep" /\ attempt[m] < MaxAttempts
    /\ Goto(m, IF GivesUp(m) THEN "ended" ELSE "waitRadio")
    /\ UNCHANGED <<row, attempt, held, requestVars, acking, radio, worldVars,
                   trackerVars, faultVars>>

\* The radio is gone when the retry's turn comes: the attempt is used up.
RetryNoRadio(m) ==
    /\ attempt[m] > 0 /\ pc[m] = "waitRadio"
    /\ NextAttempt(m)
    /\ UNCHANGED <<row, held, requestVars, acking, radio, worldVars, trackerVars, faultVars>>

\* The radio took the retry: an ACK counted meanwhile ends the task.
Recheck(m) ==
    /\ attempt[m] > 0 /\ pc[m] \in {"code", "nocode"}
    /\ IF IsAcked(m) THEN Goto(m, "ended") /\ UNCHANGED attempt
       ELSE IF pc[m] = "code" THEN Goto(m, "track") /\ UNCHANGED attempt
       ELSE NextAttempt(m)
    /\ UNCHANGED <<row, held, requestVars, acking, radio, worldVars, trackerVars, faultVars>>

\* The ACK window of the last attempt is over.
LastWake(m) ==
    /\ pc[m] = "sleep" /\ attempt[m] = MaxAttempts
    /\ Goto(m, IF IsAcked(m) THEN "ended" ELSE "verdict")
    /\ UNCHANGED <<row, attempt, held, requestVars, acking, radio, worldVars,
                   trackerVars, faultVars>>

\* mark_failed: one UPDATE with its own guard.
MarkFailed(m) ==
    /\ pc[m] = "verdict"
    /\ IF CanMarkFailed(m)
       THEN row' = [row EXCEPT ![m].failed = TRUE] /\ Goto(m, "hold")
       ELSE UNCHANGED row /\ Goto(m, "ended")
    /\ UNCHANGED <<attempt, held, requestVars, acking, radio, worldVars, trackerVars, faultVars>>

\* Mutated form of HoldFailed: the pending entries are left where they are.
HoldFailedCopies(m) ==
    /\ pc[m] = "hold"
    /\ failedAcks' = failedAcks \cup held[m]
    /\ Goto(m, "ended")
    /\ UNCHANGED <<row, attempt, held, requestVars, acking, radio, worldVars,
                   pending, buffered, deleted, faultVars>>

\* track_failed_acks: every code of the message moves to the grace table.
HoldFailed(m) ==
    /\ pc[m] = "hold"
    /\ pending' = pending \ CodesOf(m)
    /\ failedAcks' = failedAcks \cup held[m]
    /\ Goto(m, "ended")
    /\ UNCHANGED <<row, attempt, held, requestVars, acking, radio, worldVars,
                   buffered, deleted, faultVars>>

-----------------------------------------------------------------------------
(* apply_dm_ack_code: an ACK is heard, as a radio event or as a raw packet. *)

HearAck(c) ==
    /\ c \in air /\ heard[c] < MaxHeard
    /\ heard' = [heard EXCEPT ![c] = @ + 1]
    /\ \E old \in Expirable :
          LET m == c[1]
              live == pending \ old.pending
              grace == failedAcks \ old.failed
          IN  IF c \in live \cup grace
              THEN /\ ClearCodes(m, live, grace)
                   /\ acking' = [acking EXCEPT ![m] = @ + 1]
                   /\ buffered' = buffered \ old.buffered
              ELSE /\ buffered' = (buffered \ old.buffered) \cup {c}
                   /\ pending' = live /\ failedAcks' = grace
                   /\ UNCHANGED acking
    /\ UNCHANGED <<row, taskVars, requestVars, radio, air, deleted, faultVars>>

\* increment_ack_and_broadcast, after the handler's first await.
CountAck(m) ==
    /\ acking[m] > 0
    /\ acking' = [acking EXCEPT ![m] = @ - 1]
    /\ IncrementAck(m)
    /\ UNCHANGED <<taskVars, requestVars, radio, worldVars, trackerVars, faultVars>>

-----------------------------------------------------------------------------
(* delete_message and the end of resend_direct_message_record.             *)

DeleteFind(m) ==
    /\ del[m] = "no" /\ Exists(m)
    /\ del' = [del EXCEPT ![m] = "found"]
    /\ UNCHANGED <<row, taskVars, replaces, resend, acking, radio, worldVars,
                   trackerVars, faultVars>>

DeleteMark(m) ==
    /\ del[m] = "found"
    /\ del' = [del EXCEPT ![m] = "marked"]
    /\ deleted' = deleted \cup {m}
    /\ ClearCodes(m, pending, failedAcks)
    /\ UNCHANGED <<row, taskVars, replaces, resend, acking, radio, worldVars,
                   buffered, faultVars>>

DeleteRow(m) ==
    /\ del[m] = "marked"
    /\ del' = [del EXCEPT ![m] = "no"]
    /\ DropRow(m)
    /\ UNCHANGED <<taskVars, replaces, resend, acking, radio, worldVars, trackerVars, faultVars>>

ResendClear(m) ==
    /\ resend[m] = "clear"
    /\ resend' = [resend EXCEPT ![m] = "drop"]
    /\ ClearCodes(replaces[m], pending, failedAcks)
    /\ UNCHANGED <<row, taskVars, replaces, del, acking, radio, worldVars,
                   buffered, deleted, faultVars>>

ResendDrop(m) ==
    /\ resend[m] = "drop"
    /\ resend' = [resend EXCEPT ![m] = "no"]
    /\ DropRow(replaces[m])
    /\ UNCHANGED <<taskVars, replaces, del, acking, radio, worldVars, trackerVars, faultVars>>

-----------------------------------------------------------------------------
(* The process stops and starts again: tasks and tracker are gone, and     *)
(* mark_pending_sends_unknown runs before the API serves requests.         *)

\* Mutated form of MarkPendingUnknown: startup leaves the pending rows alone.
MarkPendingUnknownNot(r) == r

MarkPendingUnknown(r) == IF r.status = "pending" THEN [r EXCEPT !.status = "unknown"] ELSE r

Restart ==
    /\ crashes < MaxCrashes
    /\ crashes' = crashes + 1
    /\ row' = [m \in Msgs |-> MarkPendingUnknown(row[m])]
    /\ pc' = [m \in Msgs |-> IF pc[m] = "unsent" THEN "unsent" ELSE "ended"]
    /\ held' = [m \in Msgs |-> {}]
    /\ resend' = [m \in Msgs |-> "no"]
    /\ del' = [m \in Msgs |-> "no"]
    /\ acking' = [m \in Msgs |-> 0]
    /\ radio' = NoMsg
    /\ pending' = {} /\ buffered' = {} /\ failedAcks' = {} /\ deleted' = {}
    /\ UNCHANGED <<attempt, replaces, worldVars, dbFaults>>

-----------------------------------------------------------------------------
\* Steps a task takes by itself; the other two lists are failures and requests.
SendStep(m) ==
    \/ Acquire(m) \/ Store(m) \/ Transmit(m) \/ Return(m)
    \/ Confirm(m) \/ SettleSilent(m) \/ SettleRefused(m) \/ Track(m) \/ CountOwnAck(m)

RetryStep(m) == Wake(m) \/ Recheck(m) \/ LastWake(m) \/ MarkFailed(m) \/ HoldFailed(m)

RequestStep(m) == DeleteMark(m) \/ DeleteRow(m) \/ ResendClear(m) \/ ResendDrop(m)

FailStep(m) == AbortSend(m) \/ ConfirmFails(m) \/ RetryNoRadio(m)

UserStep(m) == StartSend(m) \/ (\E o \in Msgs : StartResend(o, m)) \/ DeleteFind(m)

Next ==
    \/ \E m \in Msgs : SendStep(m) \/ RetryStep(m) \/ RequestStep(m) \/ CountAck(m)
    \/ \E m \in Msgs : FailStep(m) \/ UserStep(m)
    \/ \E c \in Codes : HearAck(c)
    \/ Restart

Spec == Init /\ [][Next]_vars

\* The event loop runs every task that can go on, and the radio lock is handed
\* to its waiters in turn; the user, the mesh and the failures owe nothing.
Fairness ==
    \A m \in Msgs : /\ SF_vars(Acquire(m)) /\ WF_vars(SendStep(m)) /\ WF_vars(RetryStep(m))
                    /\ WF_vars(RequestStep(m)) /\ WF_vars(CountAck(m))

FairSpec == Spec /\ Fairness

-----------------------------------------------------------------------------
(* Safety.                                                                 *)

\* A message that carries the failed mark has no ACK: mark_failed and the ACK
\* increment race on the row and the ACK must win (test_dm_failed_retry.py).
FailedNotAcked == \A m \in Msgs : row[m].failed => row[m].acked = 0

\* An ACK code is held in one place only: a code that is still awaited is neither
\* in the grace table of failed messages nor among the unmatched ACKs.
CodesHeldOnce == pending \cap (failedAcks \cup buffered) = {}

\* A row is pending only while its send runs, across restarts too.
PendingRowHasSend ==
    \A m \in Msgs : row[m].status = "pending" =>
        attempt[m] = 0 /\ pc[m] \in {"transmit", "returning", "code", "nocode", "silent", "refused"}

\* An ACK for the latest registered attempt, heard while its ACK window is open,
\* is never lost: it waits to be counted or was counted.
Latest(m) == <<m, attempt[m] - 1>>
LatestAckIsClaimed ==
    \A m \in Msgs :
        /\ pc[m] = "sleep" /\ Latest(m) \in held[m]
        /\ heard[Latest(m)] > 0
        => acking[m] > 0 \/ IsAcked(m) \/ ~Exists(m) \/ m \in deleted

\* The copy of a resend is recorded, unless the user deleted it or a later resend,
\* which the radio took, replaced it in turn.
CopyTaken(n) ==
    \/ Exists(n) \/ n \in deleted
    \/ \E p \in Msgs : replaces[p] = n /\ <<p, 0>> \in air

\* A record goes only by the user's delete, by a resend whose copy is recorded, or
\* while its send is not settled, with an error of the radio or of the status write:
\* never because the radio was silent, never for a retry and never by a restart.
RecordKept ==
    [][\A m \in Msgs :
          Exists(m) /\ row'[m] = NoRow =>
              \/ del[m] = "marked"
              \/ \E n \in Msgs : resend[n] = "drop" /\ replaces[n] = m /\ CopyTaken(n)
              \/ row[m].status = "pending" /\ (pc[m] = "refused" \/ dbFaults' > dbFaults)]_vars

\* The record of a message that is on air is removed only by the user's delete or by
\* a resend: what the comments of the request promise.  The code does not keep it: an
\* error, an exception and a failed status write remove the row (run dm_lost).
SentIsRecorded ==
    [][\A m \in Msgs :
          Exists(m) /\ row'[m] = NoRow /\ <<m, 0>> \in air =>
              \/ del[m] = "marked"
              \/ \E n \in Msgs : resend[n] = "drop" /\ replaces[n] = m]_vars

\* A delete lets the attempt that has passed its check finish, in the send slot, the
\* radio lock or the radio, and nothing more: if the task is at attempt k when the
\* message is marked as deleted, no attempt after k is ever put on air.
DeleteStopsRetries ==
    \A m \in Msgs : \A k \in 0 .. MaxAttempts :
        []( m \in deleted /\ attempt[m] = k
            => [](\A c \in air \cap CodesOf(m) : c[2] <= k) )

\* What a reader of the database sees of a message.
RowPhase(r) ==
    IF r.acked > 0 THEN "delivered"
    ELSE IF r.failed THEN "failed"
    ELSE CASE r.status = "pending" -> "sending"
           [] r.status = "unknown" -> "unknown"
           [] OTHER -> "sent"

NotStored(m) == attempt[m] = 0 /\ pc[m] \in {"unsent", "waitRadio", "store"}

Phase(m) ==
    IF Exists(m) THEN RowPhase(row[m]) ELSE IF NotStored(m) THEN "absent" ELSE "gone"

\* The delivery machinery implements the promised life of a message.
Abstract == INSTANCE DmStatus WITH phase <- [m \in Msgs |-> Phase(m)]
ImplementsStatus == Abstract!Spec

(* Liveness.                                                               *)

\* A message the radio accepted with an ACK code ends up delivered, failed or
\* deleted, unless a restart ends its retries.
EveryDmDecided ==
    \A m \in Msgs :
        pc[m] = "sleep" ~> IsAcked(m) \/ row[m].failed \/ ~Exists(m) \/ crashes > 0

=============================================================================
