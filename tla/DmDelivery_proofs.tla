-------------------------- MODULE DmDelivery_proofs --------------------------
(***************************************************************************)
(* Proofs about DmDelivery for every set of messages and every bound:      *)
(* the invariant, that the machinery implements DmStatus, what may remove  *)
(* the record of a message, that a delete stops the retries, and that the  *)
(* ACK of the latest attempt is claimed.                                   *)
(***************************************************************************)
EXTENDS DmDelivery, TLAPS

\* The request has stored its row and has not settled it yet.
Sending(m) ==
    attempt[m] = 0 /\ pc[m] \in {"transmit", "returning", "code", "nocode", "silent", "refused"}

\* No ACK can be matched to the message and none is being counted.
Untracked(m) == (pending \cup failedAcks) \cap CodesOf(m) = {} /\ acking[m] = 0

\* Attempts stay in range where a code is made from them.
AttemptInRange(m) ==
    /\ pc[m] \notin {"sleep", "verdict", "hold", "ended"} => attempt[m] < MaxAttempts
    /\ pc[m] = "sleep" => attempt[m] > 0
    /\ pc[m] = "store" => attempt[m] = 0
    /\ held[m] \subseteq CodesOf(m)

\* What the row may be, given where its task is.
RowShape(m) ==
    /\ ~Exists(m) => row[m] = NoRow
    /\ row[m].failed => row[m].acked = 0
    /\ NotStored(m) => row[m] = NoRow
    /\ Sending(m) => row[m] \in {NewRow, NoRow}
    /\ row[m].status = "pending" => Sending(m)
    /\ row[m].status = "unknown" => pc[m] = "ended" /\ row[m].acked = 0 /\ ~row[m].failed

\* What the tracker may hold, given where the task is.
TrackerShape(m) ==
    /\ NotStored(m) \/ Sending(m) \/ row[m].status = "unknown" => Untracked(m)
    /\ failedAcks \cap CodesOf(m) # {} => pc[m] = "ended"

Shape(m) == AttemptInRange(m) /\ RowShape(m) /\ TrackerShape(m)
IInv == TypeOK /\ CodesHeldOnce /\ \A m \in Msgs : Shape(m)

-----------------------------------------------------------------------------
(* Type correctness.                                                       *)

\* The rows the actions write are rows.
LEMMA RowWrites ==
    ASSUME NEW r \in Row
    PROVE  /\ \A s \in Status : [r EXCEPT !.status = s] \in Row
           /\ [r EXCEPT !.failed = TRUE] \in Row
           /\ NoRow \in Row
BY DEF Row, Status, NoRow

\* The code of an attempt in range is a code, and it belongs to its message.
LEMMA CodeInCodes ==
    ASSUME TypeOK, NEW m \in Msgs, attempt[m] < MaxAttempts
    PROVE  Code(m) \in Codes /\ Code(m) \in CodesOf(m)
BY AttemptsAssumption DEF TypeOK, Code, Codes, CodesOf

\* The next attempt is in range.
LEMMA NextAttemptType ==
    ASSUME TypeOK, NEW m \in Msgs, attempt[m] < MaxAttempts, NextAttempt(m)
    PROVE  attempt' \in [Msgs -> 0 .. MaxAttempts] /\ pc' \in [Msgs -> Places]
<1>1. attempt[m] + 1 \in 0 .. MaxAttempts
    BY AttemptsAssumption DEF TypeOK
<1>2. QED
    BY <1>1 DEF TypeOK, NextAttempt, Goto, Places

\* Every action keeps the variables in their types.
LEMMA TypeStep ==
    ASSUME TypeOK, \A m \in Msgs : AttemptInRange(m), [Next]_vars
    PROVE  TypeOK'
<1> USE NoMsgAssumption, AttemptsAssumption, BoundsAssumption
<1> USE DEF TypeOK, Codes, CodesOf, Places, Goto, taskVars, requestVars,
            trackerVars, worldVars, faultVars
<1>1. ASSUME NEW m \in Msgs, StartSend(m) PROVE TypeOK'
    BY <1>1 DEF StartSend, AttemptInRange
<1>2. ASSUME NEW m \in Msgs, Acquire(m) PROVE TypeOK'
    BY <1>2 DEF Acquire, AttemptInRange
<1>3. ASSUME NEW m \in Msgs, AbortSend(m) PROVE TypeOK'
    BY <1>3 DEF AbortSend, RequestOver, AttemptInRange
<1>4. ASSUME NEW m \in Msgs, Store(m) PROVE TypeOK'
    BY <1>4 DEF Store, NewRow, Row, Status
<1>5. ASSUME NEW m \in Msgs, Transmit(m) PROVE TypeOK'
    <2>1. Code(m) \in Codes
        BY <1>5, CodeInCodes DEF Transmit, AttemptInRange
    <2>2. QED
        BY <1>5, <2>1 DEF Transmit
<1>6. ASSUME NEW m \in Msgs, Return(m) PROVE TypeOK'
    <2>1. PICK answer \in Answers(m) :
              IF attempt[m] > 0 /\ answer \in {"silent", "refused"}
              THEN NextAttempt(m)
              ELSE Goto(m, answer) /\ UNCHANGED attempt
        BY <1>6 DEF Return
    <2>2. answer \in Places /\ attempt[m] < MaxAttempts
        BY <1>6 DEF Answers, Return, AttemptInRange
    <2>3. attempt' \in [Msgs -> 0 .. MaxAttempts] /\ pc' \in [Msgs -> Places]
        <3>1. CASE NextAttempt(m)
            BY <2>2, <3>1, NextAttemptType
        <3>2. CASE Goto(m, answer) /\ UNCHANGED attempt
            BY <2>2, <3>2
        <3>3. QED
            BY <2>1, <3>1, <3>2
    <2>4. QED
        BY <1>6, <2>3 DEF Return
<1>7. ASSUME NEW m \in Msgs, Confirm(m) PROVE TypeOK'
    <2>1. row[m] \in Row
        OBVIOUS
    <2>2. row' \in [Msgs -> Row]
        BY <1>7, <2>1, RowWrites DEF Confirm, UpdateStatus, Update, Status
    <2>3. QED
        BY <1>7, <2>2 DEF Confirm, RequestOver
<1>8. ASSUME NEW m \in Msgs, ConfirmFails(m) PROVE TypeOK'
    BY <1>8 DEF ConfirmFails, RequestOver, DropRow, NoRow, Row, Status
<1>9. ASSUME NEW m \in Msgs, SettleSilent(m) PROVE TypeOK'
    <2>1. row[m] \in Row
        OBVIOUS
    <2>2. row' \in [Msgs -> Row]
        BY <1>9, <2>1, RowWrites DEF SettleSilent, UpdateStatus, Update, Status
    <2>3. QED
        BY <1>9, <2>2 DEF SettleSilent, RequestOver
<1>10. ASSUME NEW m \in Msgs, SettleRefused(m) PROVE TypeOK'
    BY <1>10 DEF SettleRefused, RequestOver, DropRow, NoRow, Row, Status
<1>11. ASSUME NEW m \in Msgs, Track(m) PROVE TypeOK'
    <2>0. attempt[m] < MaxAttempts
        BY <1>11 DEF Track, AttemptInRange
    <2>1. Code(m) \in Codes
        BY <2>0, CodeInCodes
    <2>2. CASE Code(m) \in buffered
        BY <1>11, <2>0, <2>1, <2>2 DEF Track, ClearCodes
    <2>3. CASE Code(m) \notin buffered
        <3>1. attempt' \in [Msgs -> 0 .. MaxAttempts] /\ pc' \in [Msgs -> Places]
            BY <1>11, <2>0, <2>3, NextAttemptType DEF Track
        <3>2. pending' \subseteq Codes
            BY <1>11, <2>1, <2>3 DEF Track
        <3>3. resend' \in [Msgs -> {"no", "sending", "clear", "drop"}]
            BY <1>11, <2>3 DEF Track, RequestOver
        <3>4. held' \in [Msgs -> SUBSET Codes]
            BY <1>11, <2>1 DEF Track
        <3>5. QED
            BY <1>11, <2>3, <3>1, <3>2, <3>3, <3>4 DEF Track
    <2>4. QED
        BY <2>2, <2>3
<1>12. ASSUME NEW m \in Msgs, CountOwnAck(m) PROVE TypeOK'
    BY <1>12 DEF CountOwnAck, IncrementAck, Update, Exists, RequestOver, NoRow, Row, Status
<1>13. ASSUME NEW m \in Msgs, Wake(m) PROVE TypeOK'
    BY <1>13 DEF Wake, AttemptInRange
<1>14. ASSUME NEW m \in Msgs, RetryNoRadio(m) PROVE TypeOK'
    BY <1>14 DEF RetryNoRadio, NextAttempt, AttemptInRange
<1>15. ASSUME NEW m \in Msgs, Recheck(m) PROVE TypeOK'
    <2>1. attempt[m] < MaxAttempts
        BY <1>15 DEF Recheck, AttemptInRange
    <2>2. attempt' \in [Msgs -> 0 .. MaxAttempts] /\ pc' \in [Msgs -> Places]
        BY <1>15, <2>1, NextAttemptType DEF Recheck
    <2>3. QED
        BY <1>15, <2>2 DEF Recheck
<1>16. ASSUME NEW m \in Msgs, LastWake(m) PROVE TypeOK'
    BY <1>16 DEF LastWake, AttemptInRange
<1>17. ASSUME NEW m \in Msgs, MarkFailed(m) PROVE TypeOK'
    <2>0. row[m] \in Row
        OBVIOUS
    <2>1. [row[m] EXCEPT !.failed = TRUE] \in Row
        BY <2>0, RowWrites
    <2>2. row' \in [Msgs -> Row]
        <3>1. CASE row' = [row EXCEPT ![m].failed = TRUE]
            BY <2>1, <3>1
        <3>2. CASE UNCHANGED row
            BY <3>2
        <3>3. QED
            BY <1>17, <3>1, <3>2 DEF MarkFailed
    <2>3. QED
        BY <1>17, <2>2 DEF MarkFailed
<1>18. ASSUME NEW m \in Msgs, HoldFailed(m) PROVE TypeOK'
    BY <1>18 DEF HoldFailed, AttemptInRange
<1>19. ASSUME NEW m \in Msgs, CountAck(m) PROVE TypeOK'
    BY <1>19 DEF CountAck, IncrementAck, Update, Exists, NoRow, Row, Status
<1>20. ASSUME NEW m \in Msgs, DeleteFind(m) PROVE TypeOK'
    BY <1>20 DEF DeleteFind, AttemptInRange
<1>21. ASSUME NEW m \in Msgs, DeleteMark(m) PROVE TypeOK'
    BY <1>21 DEF DeleteMark, ClearCodes, AttemptInRange
<1>22. ASSUME NEW m \in Msgs, DeleteRow(m) PROVE TypeOK'
    BY <1>22 DEF DeleteRow, DropRow, NoRow, Row, Status
<1>23. ASSUME NEW m \in Msgs, ResendClear(m) PROVE TypeOK'
    BY <1>23 DEF ResendClear, ClearCodes, AttemptInRange
<1>24. ASSUME NEW m \in Msgs, ResendDrop(m) PROVE TypeOK'
    BY <1>24 DEF ResendDrop, DropRow, NoRow, Row, Status
<1>25. ASSUME NEW o \in Msgs, NEW m \in Msgs, StartResend(o, m) PROVE TypeOK'
    BY <1>25 DEF StartResend
<1>26. ASSUME NEW c \in Codes, HearAck(c) PROVE TypeOK'
    <2>1. PICK old \in Expirable :
              LET m == c[1]
                  live == pending \ old.pending
                  grace == failedAcks \ old.failed
              IN  IF c \in live \cup grace
                  THEN /\ ClearCodes(m, live, grace)
                       /\ acking' = [acking EXCEPT ![m] = @ + 1]
                       /\ buffered' = buffered \ old.buffered
                  ELSE /\ buffered' = (buffered \ old.buffered) \cup {c}
                       /\ pending' = live /\ failedAcks' = grace
                       /\ UNCHANGED acking
        BY <1>26 DEF HearAck
    <2>2. c[1] \in Msgs
        OBVIOUS
    <2>3. pending' \subseteq Codes /\ failedAcks' \subseteq Codes /\ buffered' \subseteq Codes
        BY <2>1 DEF ClearCodes
    <2>4. acking' \in [Msgs -> Nat]
        BY <2>1, <2>2
    <2>5. heard' \in [Codes -> 0 .. MaxHeard]
        <3>1. heard[c] \in 0 .. MaxHeard /\ heard[c] < MaxHeard /\ MaxHeard \in Nat
            BY <1>26 DEF HearAck
        <3>2. heard[c] + 1 \in 0 .. MaxHeard
            BY <3>1
        <3>3. QED
            BY <1>26, <3>2 DEF HearAck
    <2>6. QED
        BY <1>26, <2>3, <2>4, <2>5 DEF HearAck
<1>27. CASE Restart
    <2>0. ASSUME NEW x \in Msgs PROVE MarkPendingUnknown(row[x]) \in Row
        <3>1. row[x] \in Row /\ "unknown" \in Status
            BY DEF Status
        <3>2. QED
            BY <3>1, RowWrites DEF MarkPendingUnknown
    <2>1. row' \in [Msgs -> Row]
        BY <1>27, <2>0 DEF Restart
    <2>2. QED
        BY <1>27, <2>1 DEF Restart
<1>28. CASE UNCHANGED vars
    BY <1>28 DEF vars
<1>29. QED
    BY <1>1, <1>2, <1>3, <1>4, <1>5, <1>6, <1>7, <1>8, <1>9, <1>10, <1>11, <1>12, <1>13, <1>14, <1>15, <1>16, <1>17, <1>18, <1>19, <1>20, <1>21, <1>22, <1>23, <1>24, <1>25, <1>26, <1>27, <1>28
    DEF Next, SendStep, RetryStep, RequestStep, FailStep, UserStep

-----------------------------------------------------------------------------
(* The shape of rows and tracker, message by message.                      *)

\* Steps of other messages: the task and the row of x stay, its codes can only go.
LEMMA Local ==
    ASSUME NEW x \in Msgs, Shape(x),
           row'[x] = row[x], pc'[x] = pc[x], attempt'[x] = attempt[x],
           held'[x] = held[x], acking'[x] = acking[x],
           (pending' \cup failedAcks') \cap CodesOf(x) \subseteq pending \cup failedAcks,
           failedAcks' \cap CodesOf(x) \subseteq failedAcks
    PROVE  Shape(x)'
<1>1. AttemptInRange(x)'
    BY DEF Shape, AttemptInRange
<1>2. RowShape(x)'
    BY DEF Shape, RowShape, Exists, NotStored, Sending
<1>3. TrackerShape(x)'
    BY DEF Shape, TrackerShape, Untracked, NotStored, Sending
<1>4. QED
    BY <1>1, <1>2, <1>3 DEF Shape

\* The codes of different messages are different.
LEMMA CodesApart ==
    ASSUME NEW x \in Msgs, NEW m \in Msgs, x # m
    PROVE  CodesOf(x) \cap CodesOf(m) = {}
BY DEF CodesOf

\* Every action keeps the shape of every message.
LEMMA ShapeStep ==
    ASSUME IInv, TypeOK', [Next]_vars
    PROVE  \A x \in Msgs : Shape(x)'
<1> USE AttemptsAssumption
<1> USE DEF taskVars, requestVars, trackerVars, worldVars, faultVars, Goto
<1>t. TypeOK /\ \A x \in Msgs : Shape(x)
    BY DEF IInv
<1>1. ASSUME NEW m \in Msgs, StartSend(m) PROVE \A x \in Msgs : Shape(x)'
    <2>1. AttemptInRange(m)'
        BY <1>t, <1>1 DEF StartSend, Shape, AttemptInRange, TypeOK
    <2>2. RowShape(m)'
        BY <1>t, <1>1 DEF StartSend, Shape, RowShape, AttemptInRange, TrackerShape, Untracked, NotStored, Sending, Exists, TypeOK, Row
    <2>3. TrackerShape(m)'
        BY <1>t, <1>1 DEF StartSend, Shape, AttemptInRange, RowShape, TrackerShape, Untracked, NotStored, Sending, Exists, TypeOK, Row
    <2>4. ASSUME NEW x \in Msgs, x # m PROVE Shape(x)'
        BY <1>t, <1>1, <2>4, Local, CodesApart DEF StartSend, AttemptInRange, Shape, TypeOK
    <2>5. QED
        BY <2>1, <2>2, <2>3, <2>4 DEF Shape
<1>2. ASSUME NEW m \in Msgs, Acquire(m) PROVE \A x \in Msgs : Shape(x)'
    <2>1. AttemptInRange(m)'
        BY <1>t, <1>2 DEF Acquire, Shape, AttemptInRange, TypeOK
    <2>2. RowShape(m)'
        BY <1>t, <1>2 DEF Acquire, Shape, RowShape, AttemptInRange, TrackerShape, Untracked, NotStored, Sending, Exists, TypeOK, Row
    <2>3. TrackerShape(m)'
        BY <1>t, <1>2 DEF Acquire, Shape, AttemptInRange, RowShape, TrackerShape, Untracked, NotStored, Sending, Exists, TypeOK, Row
    <2>4. ASSUME NEW x \in Msgs, x # m PROVE Shape(x)'
        BY <1>t, <1>2, <2>4, Local, CodesApart DEF Acquire, AttemptInRange, Shape, TypeOK
    <2>5. QED
        BY <2>1, <2>2, <2>3, <2>4 DEF Shape
<1>3. ASSUME NEW m \in Msgs, AbortSend(m) PROVE \A x \in Msgs : Shape(x)'
    <2>1. AttemptInRange(m)'
        BY <1>t, <1>3 DEF AbortSend, Shape, AttemptInRange, TypeOK
    <2>2. RowShape(m)'
        BY <1>t, <1>3 DEF AbortSend, Shape, RowShape, AttemptInRange, TrackerShape, Untracked, NotStored, Sending, Exists, TypeOK, Row
    <2>3. TrackerShape(m)'
        BY <1>t, <1>3 DEF AbortSend, Shape, AttemptInRange, RowShape, TrackerShape, Untracked, NotStored, Sending, Exists, TypeOK, Row
    <2>4. ASSUME NEW x \in Msgs, x # m PROVE Shape(x)'
        BY <1>t, <1>3, <2>4, Local, CodesApart DEF AbortSend, AttemptInRange, Shape, TypeOK
    <2>5. QED
        BY <2>1, <2>2, <2>3, <2>4 DEF Shape
<1>4. ASSUME NEW m \in Msgs, Store(m) PROVE \A x \in Msgs : Shape(x)'
    <2>1. AttemptInRange(m)'
        BY <1>t, <1>4 DEF Store, NewRow, Shape, AttemptInRange, TypeOK
    <2>2. RowShape(m)'
        <3>1. row'[m] = NewRow /\ pc'[m] = "transmit" /\ attempt'[m] = attempt[m] /\ attempt[m] >= 0
            BY <1>t, <1>4 DEF Store, TypeOK
        <3>2. attempt[m] = 0
            BY <1>t, <1>4 DEF Store, Shape, AttemptInRange
        <3>3. QED
            BY <3>1, <3>2 DEF RowShape, Exists, NotStored, Sending, NewRow
    <2>3. TrackerShape(m)'
        BY <1>t, <1>4 DEF Store, NewRow, Shape, AttemptInRange, RowShape, TrackerShape, Untracked, NotStored, Sending, Exists, TypeOK, Row
    <2>4. ASSUME NEW x \in Msgs, x # m PROVE Shape(x)'
        BY <1>t, <1>4, <2>4, Local, CodesApart DEF Store, NewRow, AttemptInRange, Shape, TypeOK
    <2>5. QED
        BY <2>1, <2>2, <2>3, <2>4 DEF Shape
<1>5. ASSUME NEW m \in Msgs, Transmit(m) PROVE \A x \in Msgs : Shape(x)'
    <2>1. AttemptInRange(m)'
        BY <1>t, <1>5 DEF Transmit, Shape, AttemptInRange, TypeOK
    <2>2. RowShape(m)'
        BY <1>t, <1>5 DEF Transmit, Shape, RowShape, AttemptInRange, TrackerShape, Untracked, NotStored, Sending, Exists, TypeOK, Row
    <2>3. TrackerShape(m)'
        BY <1>t, <1>5 DEF Transmit, Shape, AttemptInRange, RowShape, TrackerShape, Untracked, NotStored, Sending, Exists, TypeOK, Row
    <2>4. ASSUME NEW x \in Msgs, x # m PROVE Shape(x)'
        BY <1>t, <1>5, <2>4, Local, CodesApart DEF Transmit, AttemptInRange, Shape, TypeOK
    <2>5. QED
        BY <2>1, <2>2, <2>3, <2>4 DEF Shape
<1>6. ASSUME NEW m \in Msgs, Return(m) PROVE \A x \in Msgs : Shape(x)'
    <2>1. AttemptInRange(m)'
        BY <1>t, <1>6 DEF Return, Answers, NextAttempt, Shape, AttemptInRange, TypeOK
    <2>2. RowShape(m)'
        BY <1>t, <1>6 DEF Return, Answers, NextAttempt, Shape, RowShape, AttemptInRange, TrackerShape, Untracked, NotStored, Sending, Exists, TypeOK, Row
    <2>3. TrackerShape(m)'
        BY <1>t, <1>6 DEF Return, Answers, NextAttempt, Shape, AttemptInRange, RowShape, TrackerShape, Untracked, NotStored, Sending, Exists, TypeOK, Row
    <2>4. ASSUME NEW x \in Msgs, x # m PROVE Shape(x)'
        BY <1>t, <1>6, <2>4, Local, CodesApart DEF Return, Answers, NextAttempt, AttemptInRange, Shape, TypeOK
    <2>5. QED
        BY <2>1, <2>2, <2>3, <2>4 DEF Shape
<1>7. ASSUME NEW m \in Msgs, Confirm(m) PROVE \A x \in Msgs : Shape(x)'
    <2>1. AttemptInRange(m)'
        BY <1>t, <1>7 DEF Confirm, UpdateStatus, Update, NewRow, NoRow, Shape, AttemptInRange, TypeOK
    <2>2. RowShape(m)'
        <3>1. row[m] \in {NewRow, NoRow}
            BY <1>t, <1>7 DEF Confirm, Shape, RowShape, Sending
        <3>2. pc'[m] \in {"track", "ended"}
            BY <1>t, <1>7 DEF Confirm, TypeOK
        <3>3. row'[m] = IF Exists(m) THEN [row[m] EXCEPT !.status = "confirmed"] ELSE NoRow
            BY <1>t, <1>7 DEF Confirm, UpdateStatus, Update, TypeOK
        <3>4. \/ row'[m] = NoRow
              \/ row'[m].status = "confirmed" /\ row'[m].acked = 0 /\ ~row'[m].failed
            <4>1. CASE row[m] = NoRow
                BY <3>3, <4>1 DEF Exists, NoRow
            <4>2. CASE row[m] = NewRow
                <5>1. Exists(m)
                    BY <4>2 DEF Exists, NewRow
                <5>2. row'[m] = [NewRow EXCEPT !.status = "confirmed"]
                    BY <3>3, <4>2, <5>1
                <5>3. QED
                    BY <5>2 DEF NewRow
            <4>3. QED
                BY <3>1, <4>1, <4>2
        <3>5. QED
            BY <3>2, <3>4 DEF RowShape, Exists, NotStored, Sending, NoRow
    <2>3. TrackerShape(m)'
        BY <1>t, <1>7 DEF Confirm, UpdateStatus, Update, NewRow, NoRow, Shape, AttemptInRange, RowShape, TrackerShape, Untracked, NotStored, Sending, Exists, TypeOK, Row
    <2>4. ASSUME NEW x \in Msgs, x # m PROVE Shape(x)'
        <3>1. row'[x] = row[x] /\ pc'[x] = pc[x]
            BY <1>t, <1>7, <2>4 DEF Confirm, UpdateStatus, Update, TypeOK
        <3>2. QED
            BY <1>t, <1>7, <3>1, Local DEF Confirm
    <2>5. QED
        BY <2>1, <2>2, <2>3, <2>4 DEF Shape
<1>8. ASSUME NEW m \in Msgs, ConfirmFails(m) PROVE \A x \in Msgs : Shape(x)'
    <2>1. AttemptInRange(m)'
        BY <1>t, <1>8 DEF ConfirmFails, DropRow, NoRow, Shape, AttemptInRange, TypeOK
    <2>2. RowShape(m)'
        BY <1>t, <1>8 DEF ConfirmFails, DropRow, NoRow, Shape, RowShape, AttemptInRange, TrackerShape, Untracked, NotStored, Sending, Exists, TypeOK, Row
    <2>3. TrackerShape(m)'
        BY <1>t, <1>8 DEF ConfirmFails, DropRow, NoRow, Shape, AttemptInRange, RowShape, TrackerShape, Untracked, NotStored, Sending, Exists, TypeOK, Row
    <2>4. ASSUME NEW x \in Msgs, x # m PROVE Shape(x)'
        <3>1. row'[x] = row[x] /\ pc'[x] = pc[x]
            BY <1>t, <1>8, <2>4 DEF ConfirmFails, DropRow, TypeOK
        <3>2. QED
            BY <1>t, <1>8, <3>1, Local DEF ConfirmFails
    <2>5. QED
        BY <2>1, <2>2, <2>3, <2>4 DEF Shape
<1>9. ASSUME NEW m \in Msgs, SettleSilent(m) PROVE \A x \in Msgs : Shape(x)'
    <2>1. AttemptInRange(m)'
        BY <1>t, <1>9 DEF SettleSilent, UpdateStatus, Update, NewRow, NoRow, Shape, AttemptInRange, TypeOK
    <2>2. RowShape(m)'
        BY <1>t, <1>9 DEF SettleSilent, UpdateStatus, Update, NewRow, NoRow, Shape, RowShape, AttemptInRange, TrackerShape, Untracked, NotStored, Sending, Exists, TypeOK, Row
    <2>3. TrackerShape(m)'
        BY <1>t, <1>9 DEF SettleSilent, UpdateStatus, Update, NewRow, NoRow, Shape, AttemptInRange, RowShape, TrackerShape, Untracked, NotStored, Sending, Exists, TypeOK, Row
    <2>4. ASSUME NEW x \in Msgs, x # m PROVE Shape(x)'
        BY <1>t, <1>9, <2>4, Local, CodesApart DEF SettleSilent, UpdateStatus, Update, NewRow, NoRow, AttemptInRange, Shape, TypeOK
    <2>5. QED
        BY <2>1, <2>2, <2>3, <2>4 DEF Shape
<1>10. ASSUME NEW m \in Msgs, SettleRefused(m) PROVE \A x \in Msgs : Shape(x)'
    <2>1. AttemptInRange(m)'
        BY <1>t, <1>10 DEF SettleRefused, DropRow, NoRow, Shape, AttemptInRange, TypeOK
    <2>2. RowShape(m)'
        BY <1>t, <1>10 DEF SettleRefused, DropRow, NoRow, Shape, RowShape, AttemptInRange, TrackerShape, Untracked, NotStored, Sending, Exists, TypeOK, Row
    <2>3. TrackerShape(m)'
        BY <1>t, <1>10 DEF SettleRefused, DropRow, NoRow, Shape, AttemptInRange, RowShape, TrackerShape, Untracked, NotStored, Sending, Exists, TypeOK, Row
    <2>4. ASSUME NEW x \in Msgs, x # m PROVE Shape(x)'
        BY <1>t, <1>10, <2>4, Local, CodesApart DEF SettleRefused, DropRow, NoRow, AttemptInRange, Shape, TypeOK
    <2>5. QED
        BY <2>1, <2>2, <2>3, <2>4 DEF Shape
<1>11. ASSUME NEW m \in Msgs, CountOwnAck(m) PROVE \A x \in Msgs : Shape(x)'
    <2>1. AttemptInRange(m)'
        BY <1>t, <1>11 DEF CountOwnAck, IncrementAck, Update, NoRow, Shape, AttemptInRange, TypeOK
    <2>2. RowShape(m)'
        BY <1>t, <1>11 DEF CountOwnAck, IncrementAck, Update, NoRow, Shape, RowShape, AttemptInRange, TrackerShape, Untracked, NotStored, Sending, Exists, TypeOK, Row
    <2>3. TrackerShape(m)'
        BY <1>t, <1>11 DEF CountOwnAck, IncrementAck, Update, NoRow, Shape, AttemptInRange, RowShape, TrackerShape, Untracked, NotStored, Sending, Exists, TypeOK, Row
    <2>4. ASSUME NEW x \in Msgs, x # m PROVE Shape(x)'
        BY <1>t, <1>11, <2>4, Local, CodesApart DEF CountOwnAck, IncrementAck, Update, NoRow, AttemptInRange, Shape, TypeOK
    <2>5. QED
        BY <2>1, <2>2, <2>3, <2>4 DEF Shape
<1>12. ASSUME NEW m \in Msgs, Wake(m) PROVE \A x \in Msgs : Shape(x)'
    <2>1. AttemptInRange(m)'
        BY <1>t, <1>12 DEF Wake, Shape, AttemptInRange, TypeOK
    <2>2. RowShape(m)'
        BY <1>t, <1>12 DEF Wake, Shape, RowShape, AttemptInRange, TrackerShape, Untracked, NotStored, Sending, Exists, TypeOK, Row
    <2>3. TrackerShape(m)'
        BY <1>t, <1>12 DEF Wake, Shape, AttemptInRange, RowShape, TrackerShape, Untracked, NotStored, Sending, Exists, TypeOK, Row
    <2>4. ASSUME NEW x \in Msgs, x # m PROVE Shape(x)'
        BY <1>t, <1>12, <2>4, Local, CodesApart DEF Wake, AttemptInRange, Shape, TypeOK
    <2>5. QED
        BY <2>1, <2>2, <2>3, <2>4 DEF Shape
<1>13. ASSUME NEW m \in Msgs, RetryNoRadio(m) PROVE \A x \in Msgs : Shape(x)'
    <2>1. AttemptInRange(m)'
        BY <1>t, <1>13 DEF RetryNoRadio, NextAttempt, Shape, AttemptInRange, TypeOK
    <2>2. RowShape(m)'
        BY <1>t, <1>13 DEF RetryNoRadio, NextAttempt, Shape, RowShape, AttemptInRange, TrackerShape, Untracked, NotStored, Sending, Exists, TypeOK, Row
    <2>3. TrackerShape(m)'
        BY <1>t, <1>13 DEF RetryNoRadio, NextAttempt, Shape, AttemptInRange, RowShape, TrackerShape, Untracked, NotStored, Sending, Exists, TypeOK, Row
    <2>4. ASSUME NEW x \in Msgs, x # m PROVE Shape(x)'
        BY <1>t, <1>13, <2>4, Local, CodesApart DEF RetryNoRadio, NextAttempt, AttemptInRange, Shape, TypeOK
    <2>5. QED
        BY <2>1, <2>2, <2>3, <2>4 DEF Shape
<1>14. ASSUME NEW m \in Msgs, Recheck(m) PROVE \A x \in Msgs : Shape(x)'
    <2>1. AttemptInRange(m)'
        BY <1>t, <1>14 DEF Recheck, NextAttempt, Shape, AttemptInRange, TypeOK
    <2>2. RowShape(m)'
        BY <1>t, <1>14 DEF Recheck, NextAttempt, Shape, RowShape, AttemptInRange, TrackerShape, Untracked, NotStored, Sending, Exists, TypeOK, Row
    <2>3. TrackerShape(m)'
        BY <1>t, <1>14 DEF Recheck, NextAttempt, Shape, AttemptInRange, RowShape, TrackerShape, Untracked, NotStored, Sending, Exists, TypeOK, Row
    <2>4. ASSUME NEW x \in Msgs, x # m PROVE Shape(x)'
        BY <1>t, <1>14, <2>4, Local, CodesApart DEF Recheck, NextAttempt, AttemptInRange, Shape, TypeOK
    <2>5. QED
        BY <2>1, <2>2, <2>3, <2>4 DEF Shape
<1>15. ASSUME NEW m \in Msgs, LastWake(m) PROVE \A x \in Msgs : Shape(x)'
    <2>1. AttemptInRange(m)'
        BY <1>t, <1>15 DEF LastWake, Shape, AttemptInRange, TypeOK
    <2>2. RowShape(m)'
        BY <1>t, <1>15 DEF LastWake, Shape, RowShape, AttemptInRange, TrackerShape, Untracked, NotStored, Sending, Exists, TypeOK, Row
    <2>3. TrackerShape(m)'
        BY <1>t, <1>15 DEF LastWake, Shape, AttemptInRange, RowShape, TrackerShape, Untracked, NotStored, Sending, Exists, TypeOK, Row
    <2>4. ASSUME NEW x \in Msgs, x # m PROVE Shape(x)'
        BY <1>t, <1>15, <2>4, Local, CodesApart DEF LastWake, AttemptInRange, Shape, TypeOK
    <2>5. QED
        BY <2>1, <2>2, <2>3, <2>4 DEF Shape
<1>16. ASSUME NEW m \in Msgs, MarkFailed(m) PROVE \A x \in Msgs : Shape(x)'
    <2>1. AttemptInRange(m)'
        BY <1>t, <1>16 DEF MarkFailed, CanMarkFailed, Shape, AttemptInRange, TypeOK
    <2>2. RowShape(m)'
        <3>1. CASE CanMarkFailed(m)
            <4>1. row'[m] = [row[m] EXCEPT !.failed = TRUE] /\ pc'[m] = "hold" /\ row[m] \in Row
                BY <1>t, <1>16, <3>1 DEF MarkFailed, TypeOK
            <4>2. row[m].status = "confirmed" /\ row[m].acked = 0
                BY <1>t, <1>16, <3>1, <4>1 DEF MarkFailed, CanMarkFailed, Exists, Shape, RowShape, Sending, Row, Status
            <4>3. row'[m].status = "confirmed" /\ row'[m].acked = 0
                BY <4>1, <4>2 DEF Row
            <4>4. QED
                BY <4>1, <4>3 DEF RowShape, Exists, NotStored, Sending
        <3>2. CASE ~CanMarkFailed(m)
            BY <1>t, <1>16, <3>2 DEF MarkFailed, Shape, RowShape, Exists, NotStored, Sending, TypeOK
        <3>3. QED
            BY <3>1, <3>2
    <2>3. TrackerShape(m)'
        BY <1>t, <1>16 DEF MarkFailed, CanMarkFailed, Shape, AttemptInRange, RowShape, TrackerShape, Untracked, NotStored, Sending, Exists, TypeOK, Row
    <2>4. ASSUME NEW x \in Msgs, x # m PROVE Shape(x)'
        BY <1>t, <1>16, <2>4, Local, CodesApart DEF MarkFailed, CanMarkFailed, AttemptInRange, Shape, TypeOK
    <2>5. QED
        BY <2>1, <2>2, <2>3, <2>4 DEF Shape
<1>17. ASSUME NEW m \in Msgs, HoldFailed(m) PROVE \A x \in Msgs : Shape(x)'
    <2>1. AttemptInRange(m)'
        BY <1>t, <1>17 DEF HoldFailed, Shape, AttemptInRange, TypeOK
    <2>2. RowShape(m)'
        BY <1>t, <1>17 DEF HoldFailed, Shape, RowShape, AttemptInRange, TrackerShape, Untracked, NotStored, Sending, Exists, TypeOK, Row
    <2>3. TrackerShape(m)'
        BY <1>t, <1>17 DEF HoldFailed, Shape, AttemptInRange, RowShape, TrackerShape, Untracked, NotStored, Sending, Exists, TypeOK, Row
    <2>4. ASSUME NEW x \in Msgs, x # m PROVE Shape(x)'
        BY <1>t, <1>17, <2>4, Local, CodesApart DEF HoldFailed, AttemptInRange, Shape, TypeOK
    <2>5. QED
        BY <2>1, <2>2, <2>3, <2>4 DEF Shape
<1>18. ASSUME NEW m \in Msgs, CountAck(m) PROVE \A x \in Msgs : Shape(x)'
    <2>1. AttemptInRange(m)'
        BY <1>t, <1>18 DEF CountAck, IncrementAck, Update, NoRow, Shape, AttemptInRange, TypeOK
    <2>2. RowShape(m)'
        BY <1>t, <1>18 DEF CountAck, IncrementAck, Update, NoRow, Shape, RowShape, AttemptInRange, TrackerShape, Untracked, NotStored, Sending, Exists, TypeOK, Row
    <2>3. TrackerShape(m)'
        BY <1>t, <1>18 DEF CountAck, IncrementAck, Update, NoRow, Shape, AttemptInRange, RowShape, TrackerShape, Untracked, NotStored, Sending, Exists, TypeOK, Row
    <2>4. ASSUME NEW x \in Msgs, x # m PROVE Shape(x)'
        BY <1>t, <1>18, <2>4, Local, CodesApart DEF CountAck, IncrementAck, Update, NoRow, AttemptInRange, Shape, TypeOK
    <2>5. QED
        BY <2>1, <2>2, <2>3, <2>4 DEF Shape
<1>19. ASSUME NEW m \in Msgs, DeleteFind(m) PROVE \A x \in Msgs : Shape(x)'
    <2>1. AttemptInRange(m)'
        BY <1>t, <1>19 DEF DeleteFind, Shape, AttemptInRange, TypeOK
    <2>2. RowShape(m)'
        BY <1>t, <1>19 DEF DeleteFind, Shape, RowShape, AttemptInRange, TrackerShape, Untracked, NotStored, Sending, Exists, TypeOK, Row
    <2>3. TrackerShape(m)'
        BY <1>t, <1>19 DEF DeleteFind, Shape, AttemptInRange, RowShape, TrackerShape, Untracked, NotStored, Sending, Exists, TypeOK, Row
    <2>4. ASSUME NEW x \in Msgs, x # m PROVE Shape(x)'
        BY <1>t, <1>19, <2>4, Local, CodesApart DEF DeleteFind, AttemptInRange, Shape, TypeOK
    <2>5. QED
        BY <2>1, <2>2, <2>3, <2>4 DEF Shape
<1>20. ASSUME NEW m \in Msgs, DeleteMark(m) PROVE \A x \in Msgs : Shape(x)'
    <2>1. AttemptInRange(m)'
        BY <1>t, <1>20 DEF DeleteMark, ClearCodes, Shape, AttemptInRange, TypeOK
    <2>2. RowShape(m)'
        BY <1>t, <1>20 DEF DeleteMark, ClearCodes, Shape, RowShape, AttemptInRange, TrackerShape, Untracked, NotStored, Sending, Exists, TypeOK, Row
    <2>3. TrackerShape(m)'
        BY <1>t, <1>20 DEF DeleteMark, ClearCodes, Shape, AttemptInRange, RowShape, TrackerShape, Untracked, NotStored, Sending, Exists, TypeOK, Row
    <2>4. ASSUME NEW x \in Msgs, x # m PROVE Shape(x)'
        BY <1>t, <1>20, <2>4, Local, CodesApart DEF DeleteMark, ClearCodes, AttemptInRange, Shape, TypeOK
    <2>5. QED
        BY <2>1, <2>2, <2>3, <2>4 DEF Shape
<1>21. ASSUME NEW m \in Msgs, DeleteRow(m) PROVE \A x \in Msgs : Shape(x)'
    <2>1. AttemptInRange(m)'
        BY <1>t, <1>21 DEF DeleteRow, DropRow, NoRow, Shape, AttemptInRange, TypeOK
    <2>2. RowShape(m)'
        BY <1>t, <1>21 DEF DeleteRow, DropRow, NoRow, Shape, RowShape, AttemptInRange, TrackerShape, Untracked, NotStored, Sending, Exists, TypeOK, Row
    <2>3. TrackerShape(m)'
        BY <1>t, <1>21 DEF DeleteRow, DropRow, NoRow, Shape, AttemptInRange, RowShape, TrackerShape, Untracked, NotStored, Sending, Exists, TypeOK, Row
    <2>4. ASSUME NEW x \in Msgs, x # m PROVE Shape(x)'
        BY <1>t, <1>21, <2>4, Local, CodesApart DEF DeleteRow, DropRow, NoRow, AttemptInRange, Shape, TypeOK
    <2>5. QED
        BY <2>1, <2>2, <2>3, <2>4 DEF Shape
<1>22. ASSUME NEW m \in Msgs, Track(m) PROVE \A x \in Msgs : Shape(x)'
    <2>0. attempt[m] < MaxAttempts /\ pc[m] = "track" /\ Code(m) \in CodesOf(m)
        BY <1>t, <1>22, CodeInCodes DEF Track, Shape, AttemptInRange
    <2>1. AttemptInRange(m)'
        <3>1. held'[m] = held[m] \cup {Code(m)}
            BY <1>t, <1>22 DEF Track, TypeOK
        <3>2. held'[m] \subseteq CodesOf(m)
            BY <1>t, <2>0, <3>1 DEF Shape, AttemptInRange
        <3>3. CASE Code(m) \in buffered
            BY <1>t, <1>22, <2>0, <3>2, <3>3 DEF Track, AttemptInRange, TypeOK
        <3>4. CASE Code(m) \notin buffered
            <4>1. pc'[m] = "sleep" /\ attempt'[m] = attempt[m] + 1 /\ attempt[m] \in Nat
                BY <1>t, <1>22, <3>4 DEF Track, NextAttempt, TypeOK
            <4>2. QED
                BY <3>2, <4>1 DEF AttemptInRange
        <3>5. QED
            BY <3>3, <3>4
    <2>2. RowShape(m)'
        <3>1. UNCHANGED row /\ pc'[m] \in {"matched", "sleep"}
            BY <1>t, <1>22 DEF Track, NextAttempt, TypeOK
        <3>2. row[m].status \notin {"pending", "unknown"}
            BY <1>t, <2>0 DEF Shape, RowShape, Sending
        <3>3. QED
            BY <1>t, <3>1, <3>2 DEF Shape, RowShape, Exists, NotStored, Sending
    <2>3. TrackerShape(m)'
        <3>1. failedAcks \cap CodesOf(m) = {}
            BY <1>t, <2>0 DEF Shape, TrackerShape
        <3>2. row[m].status # "unknown" /\ UNCHANGED row
            BY <1>t, <1>22, <2>0 DEF Track, Shape, RowShape
        <3>3. ~NotStored(m)' /\ ~Sending(m)'
            BY <1>t, <1>22, <2>0 DEF Track, NextAttempt, NotStored, Sending, TypeOK
        <3>4. failedAcks' \subseteq failedAcks
            BY <1>22 DEF Track, ClearCodes
        <3>5. QED
            BY <3>1, <3>2, <3>3, <3>4 DEF TrackerShape
    <2>4. ASSUME NEW x \in Msgs, x # m PROVE Shape(x)'
        <3>1. CASE Code(m) \in buffered
            BY <1>t, <1>22, <2>4, <3>1, Local DEF Track, ClearCodes, TypeOK
        <3>2. CASE Code(m) \notin buffered
            <4>1. Code(m) \notin CodesOf(x)
                BY <2>0, <2>4, CodesApart
            <4>2. (pending' \cup failedAcks') \cap CodesOf(x) \subseteq pending \cup failedAcks
                BY <1>22, <3>2, <4>1 DEF Track
            <4>3. QED
                BY <1>t, <1>22, <2>4, <3>2, <4>2, Local DEF Track, NextAttempt, TypeOK
        <3>3. QED
            BY <3>1, <3>2
    <2>5. QED
        BY <2>1, <2>2, <2>3, <2>4 DEF Shape
<1>23. ASSUME NEW m \in Msgs, ResendClear(m) PROVE \A x \in Msgs : Shape(x)'
    BY <1>t, <1>23, Local DEF ResendClear, ClearCodes
<1>24. ASSUME NEW m \in Msgs, ResendDrop(m) PROVE \A x \in Msgs : Shape(x)'
    <2>1. ASSUME NEW x \in Msgs, x # replaces[m] PROVE Shape(x)'
        <3>1. row'[x] = row[x]
            BY <1>t, <1>24, <2>1 DEF ResendDrop, DropRow, TypeOK
        <3>2. QED
            BY <1>t, <1>24, <3>1, Local DEF ResendDrop
    <2>2. ASSUME NEW x \in Msgs, x = replaces[m] PROVE Shape(x)'
        <3>1. row'[x] = NoRow
            BY <1>t, <1>24, <2>2 DEF ResendDrop, DropRow, TypeOK
        <3>2. AttemptInRange(x)'
            BY <1>t, <1>24 DEF ResendDrop, Shape, AttemptInRange
        <3>3. RowShape(x)'
            BY <3>1 DEF RowShape, Exists, NoRow
        <3>4. TrackerShape(x)'
            BY <1>t, <1>24, <3>1 DEF ResendDrop, Shape, TrackerShape, Untracked, NotStored, Sending, NoRow
        <3>5. QED
            BY <3>2, <3>3, <3>4 DEF Shape
    <2>3. QED
        BY <2>1, <2>2
<1>25. ASSUME NEW o \in Msgs, NEW m \in Msgs, StartResend(o, m) PROVE \A x \in Msgs : Shape(x)'
    <2>1. Shape(m)'
        BY <1>t, <1>25 DEF StartResend, Shape, AttemptInRange, RowShape, TrackerShape, Untracked, NotStored, Sending, Exists, TypeOK
    <2>2. ASSUME NEW x \in Msgs, x # m PROVE Shape(x)'
        BY <1>t, <1>25, <2>2, Local DEF StartResend, TypeOK
    <2>3. QED
        BY <2>1, <2>2
<1>26. ASSUME NEW c \in Codes, HearAck(c) PROVE \A x \in Msgs : Shape(x)'
    <2>1. PICK old \in Expirable :
              LET m == c[1]
                  live == pending \ old.pending
                  grace == failedAcks \ old.failed
              IN  IF c \in live \cup grace
                  THEN /\ ClearCodes(m, live, grace)
                       /\ acking' = [acking EXCEPT ![m] = @ + 1]
                       /\ buffered' = buffered \ old.buffered
                  ELSE /\ buffered' = (buffered \ old.buffered) \cup {c}
                       /\ pending' = live /\ failedAcks' = grace
                       /\ UNCHANGED acking
        BY <1>26 DEF HearAck
    <2>2. pending' \subseteq pending /\ failedAcks' \subseteq failedAcks
        BY <2>1 DEF ClearCodes
    <2>3. UNCHANGED <<row, pc, attempt, held>>
        BY <1>26 DEF HearAck
    <2>4. ASSUME NEW x \in Msgs, acking'[x] = acking[x] PROVE Shape(x)'
        BY <1>t, <2>2, <2>3, <2>4, Local
    <2>5. ASSUME NEW x \in Msgs, acking'[x] # acking[x] PROVE Shape(x)'
        <3>1. x = c[1] /\ c \in pending \cup failedAcks
            BY <1>t, <2>1, <2>5 DEF TypeOK
        <3>2. c \in CodesOf(x)
            BY <3>1 DEF Codes, CodesOf
        <3>3. ~Untracked(x)
            BY <3>1, <3>2 DEF Untracked
        <3>4. AttemptInRange(x)' /\ RowShape(x)'
            BY <1>t, <2>3 DEF Shape, AttemptInRange, RowShape, Exists, NotStored, Sending
        <3>5. TrackerShape(x)'
            BY <1>t, <2>2, <2>3, <3>3 DEF Shape, TrackerShape, NotStored, Sending
        <3>6. QED
            BY <3>4, <3>5 DEF Shape
    <2>6. QED
        BY <2>4, <2>5
<1>27. ASSUME Restart PROVE \A x \in Msgs : Shape(x)'
    <2> TAKE x \in Msgs
    <2>1. row[x] \in Row /\ row'[x] = MarkPendingUnknown(row[x])
        BY <1>t, <1>27 DEF Restart, TypeOK
    <2>2. pc'[x] = (IF pc[x] = "unsent" THEN "unsent" ELSE "ended") /\ attempt'[x] = attempt[x]
        BY <1>t, <1>27 DEF Restart, TypeOK
    <2>3. Untracked(x)' /\ failedAcks' = {} /\ held'[x] = {}
        BY <1>27 DEF Restart, Untracked
    <2>4. AttemptInRange(x)'
        BY <1>t, <2>2, <2>3 DEF Shape, AttemptInRange
    <2>5. RowShape(x)'
        BY <1>t, <2>1, <2>2 DEF Shape, RowShape, Exists, NotStored, Sending, MarkPendingUnknown, NoRow, NewRow, Row
    <2>6. TrackerShape(x)'
        BY <2>3 DEF TrackerShape
    <2>7. QED
        BY <2>4, <2>5, <2>6 DEF Shape
<1>28. CASE UNCHANGED vars
    BY <1>t, <1>28, Local DEF vars
<1>29. QED
    BY <1>1, <1>2, <1>3, <1>4, <1>5, <1>6, <1>7, <1>8, <1>9, <1>10, <1>11, <1>12, <1>13, <1>14, <1>15, <1>16, <1>17, <1>18, <1>19, <1>20, <1>21, <1>22, <1>23, <1>24, <1>25, <1>26, <1>27, <1>28
    DEF Next, SendStep, RetryStep, RequestStep, FailStep, UserStep

-----------------------------------------------------------------------------
(* The tracker.                                                            *)

\* Every action keeps each code in one place.
LEMMA CodesStep ==
    ASSUME IInv, [Next]_vars
    PROVE  CodesHeldOnce'
<1>t. TypeOK /\ CodesHeldOnce /\ \A x \in Msgs : Shape(x)
    BY DEF IInv
<1> USE DEF trackerVars, CodesHeldOnce
<1>1. ASSUME NEW m \in Msgs, Track(m) PROVE CodesHeldOnce'
    <2>1. failedAcks \cap CodesOf(m) = {}
        BY <1>t, <1>1 DEF Track, Shape, TrackerShape
    <2>2. Code(m) \in CodesOf(m)
        BY <1>t, <1>1, CodeInCodes DEF Track, Shape, AttemptInRange
    <2>3. CASE Code(m) \in buffered
        BY <1>t, <1>1, <2>3 DEF Track, ClearCodes
    <2>4. CASE Code(m) \notin buffered
        BY <1>t, <1>1, <2>1, <2>2, <2>4 DEF Track
    <2>5. QED
        BY <2>3, <2>4
<1>2. ASSUME NEW m \in Msgs, HoldFailed(m) PROVE CodesHeldOnce'
    <2>1. held[m] \subseteq CodesOf(m)
        BY <1>t DEF Shape, AttemptInRange
    <2>2. QED
        BY <1>t, <1>2, <2>1 DEF HoldFailed
<1>3. ASSUME NEW c \in Codes, HearAck(c) PROVE CodesHeldOnce'
    <2>1. PICK old \in Expirable :
              LET m == c[1]
                  live == pending \ old.pending
                  grace == failedAcks \ old.failed
              IN  IF c \in live \cup grace
                  THEN /\ ClearCodes(m, live, grace)
                       /\ acking' = [acking EXCEPT ![m] = @ + 1]
                       /\ buffered' = buffered \ old.buffered
                  ELSE /\ buffered' = (buffered \ old.buffered) \cup {c}
                       /\ pending' = live /\ failedAcks' = grace
                       /\ UNCHANGED acking
        BY <1>3 DEF HearAck
    <2>2. QED
        BY <1>t, <2>1 DEF ClearCodes
<1>4. ASSUME NEW m \in Msgs, DeleteMark(m) \/ ResendClear(m) PROVE CodesHeldOnce'
    BY <1>t, <1>4 DEF DeleteMark, ResendClear, ClearCodes
<1>5. CASE Restart
    BY <1>5 DEF Restart
<1>6. CASE UNCHANGED vars
    BY <1>t, <1>6 DEF vars
<1>7. ASSUME NEW m \in Msgs, StartSend(m) PROVE CodesHeldOnce'
    BY <1>t, <1>7 DEF StartSend
<1>8. ASSUME NEW m \in Msgs, Acquire(m) PROVE CodesHeldOnce'
    BY <1>t, <1>8 DEF Acquire
<1>9. ASSUME NEW m \in Msgs, AbortSend(m) PROVE CodesHeldOnce'
    BY <1>t, <1>9 DEF AbortSend
<1>10. ASSUME NEW m \in Msgs, Store(m) PROVE CodesHeldOnce'
    BY <1>t, <1>10 DEF Store
<1>11. ASSUME NEW m \in Msgs, Transmit(m) PROVE CodesHeldOnce'
    BY <1>t, <1>11 DEF Transmit
<1>12. ASSUME NEW m \in Msgs, Return(m) PROVE CodesHeldOnce'
    BY <1>t, <1>12 DEF Return
<1>13. ASSUME NEW m \in Msgs, Confirm(m) PROVE CodesHeldOnce'
    BY <1>t, <1>13 DEF Confirm
<1>14. ASSUME NEW m \in Msgs, ConfirmFails(m) PROVE CodesHeldOnce'
    BY <1>t, <1>14 DEF ConfirmFails
<1>15. ASSUME NEW m \in Msgs, SettleSilent(m) PROVE CodesHeldOnce'
    BY <1>t, <1>15 DEF SettleSilent
<1>16. ASSUME NEW m \in Msgs, SettleRefused(m) PROVE CodesHeldOnce'
    BY <1>t, <1>16 DEF SettleRefused
<1>17. ASSUME NEW m \in Msgs, CountOwnAck(m) PROVE CodesHeldOnce'
    BY <1>t, <1>17 DEF CountOwnAck
<1>18. ASSUME NEW m \in Msgs, Wake(m) PROVE CodesHeldOnce'
    BY <1>t, <1>18 DEF Wake
<1>19. ASSUME NEW m \in Msgs, RetryNoRadio(m) PROVE CodesHeldOnce'
    BY <1>t, <1>19 DEF RetryNoRadio
<1>20. ASSUME NEW m \in Msgs, Recheck(m) PROVE CodesHeldOnce'
    BY <1>t, <1>20 DEF Recheck
<1>21. ASSUME NEW m \in Msgs, LastWake(m) PROVE CodesHeldOnce'
    BY <1>t, <1>21 DEF LastWake
<1>22. ASSUME NEW m \in Msgs, MarkFailed(m) PROVE CodesHeldOnce'
    BY <1>t, <1>22 DEF MarkFailed
<1>23. ASSUME NEW m \in Msgs, CountAck(m) PROVE CodesHeldOnce'
    BY <1>t, <1>23 DEF CountAck
<1>24. ASSUME NEW m \in Msgs, DeleteFind(m) PROVE CodesHeldOnce'
    BY <1>t, <1>24 DEF DeleteFind
<1>25. ASSUME NEW m \in Msgs, DeleteRow(m) PROVE CodesHeldOnce'
    BY <1>t, <1>25 DEF DeleteRow
<1>26. ASSUME NEW m \in Msgs, ResendDrop(m) PROVE CodesHeldOnce'
    BY <1>t, <1>26 DEF ResendDrop
<1>27. ASSUME NEW o \in Msgs, NEW m \in Msgs, StartResend(o, m) PROVE CodesHeldOnce'
    BY <1>t, <1>27 DEF StartResend
<1>28. QED
    BY <1>1, <1>2, <1>3, <1>4, <1>5, <1>6, <1>7, <1>8, <1>9, <1>10, <1>11, <1>12, <1>13, <1>14, <1>15, <1>16, <1>17, <1>18, <1>19, <1>20, <1>21, <1>22, <1>23, <1>24, <1>25, <1>26, <1>27
    DEF Next, SendStep, RetryStep, RequestStep, FailStep, UserStep

-----------------------------------------------------------------------------
(* The theorems.                                                           *)

\* The invariant holds at the start and is kept by every step.
THEOREM Invariance == Spec => []IInv
<1>1. Init => IInv
    <2> SUFFICES ASSUME Init PROVE IInv
        OBVIOUS
    <2> USE DEF Init
    <2>1. TypeOK
        BY AttemptsAssumption, BoundsAssumption
        DEF TypeOK, Row, Status, NoRow, Places
    <2>2. CodesHeldOnce
        BY DEF CodesHeldOnce
    <2>3. ASSUME NEW x \in Msgs PROVE Shape(x)
        BY AttemptsAssumption
        DEF Shape, AttemptInRange, RowShape, TrackerShape, Untracked, NotStored, Sending, Exists, NoRow
    <2>4. QED
        BY <2>1, <2>2, <2>3 DEF IInv
<1>2. IInv /\ [Next]_vars => IInv'
    <2> SUFFICES ASSUME IInv, [Next]_vars PROVE IInv'
        OBVIOUS
    <2>1. TypeOK'
        BY TypeStep DEF IInv, Shape
    <2>2. \A x \in Msgs : Shape(x)'
        BY <2>1, ShapeStep
    <2>3. CodesHeldOnce'
        BY CodesStep
    <2>4. QED
        BY <2>1, <2>2, <2>3 DEF IInv
<1>3. QED
    BY <1>1, <1>2, PTL DEF Spec

\* The variables keep their types.
THEOREM TypeCorrect == Spec => []TypeOK
<1>1. IInv => TypeOK
    BY DEF IInv
<1>2. QED
    BY <1>1, Invariance, PTL

\* mark_failed and the ACK increment never leave a row both failed and acked.
THEOREM FailedIsNotAcked == Spec => []FailedNotAcked
<1>1. IInv => FailedNotAcked
    BY DEF IInv, Shape, RowShape, FailedNotAcked
<1>2. QED
    BY <1>1, Invariance, PTL

\* The tables of the ACK tracker never share a code.
THEOREM EachCodeHeldOnce == Spec => []CodesHeldOnce
<1>1. IInv => CodesHeldOnce
    BY DEF IInv
<1>2. QED
    BY <1>1, Invariance, PTL

\* A pending row belongs to a send that is still running.
THEOREM PendingHasSend == Spec => []PendingRowHasSend
<1>1. IInv => PendingRowHasSend
    BY DEF IInv, Shape, RowShape, Sending, PendingRowHasSend
<1>2. QED
    BY <1>1, Invariance, PTL

-----------------------------------------------------------------------------
(* The machinery implements DmStatus.                                      *)

\* The step takes x along an arrow, or leaves it where it is.
Allowed(x) == Phase(x)' = Phase(x) \/ <<Phase(x), Phase(x)'>> \in Abstract!Arrows

LEMMA PhaseInPhases == ASSUME NEW x \in Msgs PROVE Phase(x) \in Abstract!Phases
BY DEF Phase, RowPhase, Abstract!Phases

\* Whatever its phase, a message may disappear.
LEMMA GoneAllowed == ASSUME NEW x \in Msgs, Phase(x)' = "gone" PROVE Allowed(x)
BY PhaseInPhases DEF Allowed, Abstract!Arrows

\* The row stays: the phase stays, or a request ends before it stored a row.
LEMMA SameRow ==
    ASSUME NEW x \in Msgs, row'[x] = row[x], NotStored(x)' => NotStored(x)
    PROVE  Allowed(x)
<1>1. CASE Exists(x)
    BY <1>1 DEF Allowed, Phase, Exists
<1>2. CASE ~Exists(x) /\ (NotStored(x)' = NotStored(x))
    BY <1>2 DEF Allowed, Phase, Exists
<1>3. CASE ~Exists(x) /\ ~NotStored(x)'
    <2>1. Phase(x)' = "gone"
        BY <1>3 DEF Phase, Exists
    <2>2. QED
        BY <2>1, GoneAllowed
<1>4. QED
    BY <1>1, <1>2, <1>3

\* The row goes.
LEMMA RowGoes ==
    ASSUME NEW x \in Msgs, Shape(x), row'[x] = NoRow, NotStored(x)' => NotStored(x)
    PROVE  Allowed(x)
<1>1. CASE NotStored(x)'
    <2>1. row[x] = NoRow
        BY <1>1 DEF Shape, RowShape
    <2>2. QED
        BY <2>1, SameRow
<1>2. CASE ~NotStored(x)'
    <2>1. Phase(x)' = "gone"
        BY <1>2 DEF Phase, Exists, NoRow
    <2>2. QED
        BY <2>1, GoneAllowed
<1>3. QED
    BY <1>1, <1>2

\* An ACK is counted.
LEMMA AckCounted ==
    ASSUME NEW x \in Msgs, TypeOK, IncrementAck(x), UNCHANGED attempt,
           pc'[x] = pc[x] \/ pc'[x] = "ended",
           row[x].status \notin {"pending", "unknown"}
    PROVE  Allowed(x)
<1>1. CASE Exists(x)
    <2>1. row'[x] = [status |-> "confirmed", acked |-> row[x].acked + 1, failed |-> FALSE]
        BY <1>1 DEF IncrementAck, Update, TypeOK
    <2>2. row[x].acked \in Nat
        BY DEF TypeOK, Row
    <2>3. Phase(x)' = "delivered"
        BY <2>1, <2>2 DEF Phase, RowPhase, Exists
    <2>4. Phase(x) \in {"sent", "failed", "delivered"}
        BY <1>1 DEF Phase, RowPhase
    <2>5. QED
        BY <2>3, <2>4 DEF Allowed, Abstract!Arrows
<1>2. CASE ~Exists(x)
    <2>1. row'[x] = NoRow
        BY <1>2 DEF IncrementAck, Update, TypeOK
    <2>2. Phase(x)' \in {"absent", "gone"} /\ (Phase(x)' = "absent" => NotStored(x)')
        BY <2>1 DEF Phase, Exists, NoRow
    <2>3. NotStored(x)' => NotStored(x)
        BY DEF NotStored
    <2>4. Phase(x) = IF NotStored(x) THEN "absent" ELSE "gone"
        BY <1>2 DEF Phase
    <2>5. QED
        BY <2>2, <2>3, <2>4, GoneAllowed DEF Allowed
<1>3. QED
    BY <1>1, <1>2

\* Every step of the machinery is an allowed step of every message.
LEMMA PhaseStep ==
    ASSUME IInv, [Next]_vars
    PROVE  \A x \in Msgs : Allowed(x)
<1>t. TypeOK /\ \A x \in Msgs : Shape(x)
    BY DEF IInv
<1> USE DEF taskVars, requestVars, Goto
<1>1. ASSUME NEW m \in Msgs, StartSend(m) PROVE \A x \in Msgs : Allowed(x)
    <2> TAKE x \in Msgs
    <2>1. row'[x] = row[x]
        BY <1>1 DEF StartSend
    <2>2. NotStored(x)' => NotStored(x)
        BY <1>t, <1>1 DEF StartSend, NotStored, Shape, AttemptInRange, TypeOK
    <2>3. QED
        BY <2>1, <2>2, SameRow
<1>2. ASSUME NEW m \in Msgs, Acquire(m) PROVE \A x \in Msgs : Allowed(x)
    <2> TAKE x \in Msgs
    <2>1. row'[x] = row[x]
        BY <1>2 DEF Acquire
    <2>2. NotStored(x)' => NotStored(x)
        BY <1>t, <1>2 DEF Acquire, NotStored, Shape, AttemptInRange, TypeOK
    <2>3. QED
        BY <2>1, <2>2, SameRow
<1>3. ASSUME NEW m \in Msgs, AbortSend(m) PROVE \A x \in Msgs : Allowed(x)
    <2> TAKE x \in Msgs
    <2>1. row'[x] = row[x]
        BY <1>3 DEF AbortSend
    <2>2. NotStored(x)' => NotStored(x)
        BY <1>t, <1>3 DEF AbortSend, NotStored, Shape, AttemptInRange, TypeOK
    <2>3. QED
        BY <2>1, <2>2, SameRow
<1>4. ASSUME NEW m \in Msgs, Transmit(m) PROVE \A x \in Msgs : Allowed(x)
    <2> TAKE x \in Msgs
    <2>1. row'[x] = row[x]
        BY <1>4 DEF Transmit
    <2>2. NotStored(x)' => NotStored(x)
        BY <1>t, <1>4 DEF Transmit, NotStored, Shape, AttemptInRange, TypeOK
    <2>3. QED
        BY <2>1, <2>2, SameRow
<1>5. ASSUME NEW m \in Msgs, Return(m) PROVE \A x \in Msgs : Allowed(x)
    <2> TAKE x \in Msgs
    <2>1. row'[x] = row[x]
        BY <1>5 DEF Return
    <2>2. NotStored(x)' => NotStored(x)
        BY <1>t, <1>5 DEF Return, NextAttempt, Answers, NotStored, Shape, AttemptInRange, TypeOK
    <2>3. QED
        BY <2>1, <2>2, SameRow
<1>6. ASSUME NEW m \in Msgs, Track(m) PROVE \A x \in Msgs : Allowed(x)
    <2> TAKE x \in Msgs
    <2>1. row'[x] = row[x]
        BY <1>6 DEF Track
    <2>2. NotStored(x)' => NotStored(x)
        BY <1>t, <1>6 DEF Track, NextAttempt, NotStored, Shape, AttemptInRange, TypeOK
    <2>3. QED
        BY <2>1, <2>2, SameRow
<1>7. ASSUME NEW m \in Msgs, Wake(m) PROVE \A x \in Msgs : Allowed(x)
    <2> TAKE x \in Msgs
    <2>1. row'[x] = row[x]
        BY <1>7 DEF Wake
    <2>2. NotStored(x)' => NotStored(x)
        BY <1>t, <1>7 DEF Wake, NotStored, Shape, AttemptInRange, TypeOK
    <2>3. QED
        BY <2>1, <2>2, SameRow
<1>8. ASSUME NEW m \in Msgs, RetryNoRadio(m) PROVE \A x \in Msgs : Allowed(x)
    <2> TAKE x \in Msgs
    <2>1. row'[x] = row[x]
        BY <1>8 DEF RetryNoRadio
    <2>2. NotStored(x)' => NotStored(x)
        BY <1>t, <1>8 DEF RetryNoRadio, NextAttempt, NotStored, Shape, AttemptInRange, TypeOK
    <2>3. QED
        BY <2>1, <2>2, SameRow
<1>9. ASSUME NEW m \in Msgs, Recheck(m) PROVE \A x \in Msgs : Allowed(x)
    <2> TAKE x \in Msgs
    <2>1. row'[x] = row[x]
        BY <1>9 DEF Recheck
    <2>2. NotStored(x)' => NotStored(x)
        BY <1>t, <1>9 DEF Recheck, NextAttempt, NotStored, Shape, AttemptInRange, TypeOK
    <2>3. QED
        BY <2>1, <2>2, SameRow
<1>10. ASSUME NEW m \in Msgs, LastWake(m) PROVE \A x \in Msgs : Allowed(x)
    <2> TAKE x \in Msgs
    <2>1. row'[x] = row[x]
        BY <1>10 DEF LastWake
    <2>2. NotStored(x)' => NotStored(x)
        BY <1>t, <1>10 DEF LastWake, NotStored, Shape, AttemptInRange, TypeOK
    <2>3. QED
        BY <2>1, <2>2, SameRow
<1>11. ASSUME NEW m \in Msgs, HoldFailed(m) PROVE \A x \in Msgs : Allowed(x)
    <2> TAKE x \in Msgs
    <2>1. row'[x] = row[x]
        BY <1>11 DEF HoldFailed
    <2>2. NotStored(x)' => NotStored(x)
        BY <1>t, <1>11 DEF HoldFailed, NotStored, Shape, AttemptInRange, TypeOK
    <2>3. QED
        BY <2>1, <2>2, SameRow
<1>12. ASSUME NEW m \in Msgs, DeleteFind(m) PROVE \A x \in Msgs : Allowed(x)
    <2> TAKE x \in Msgs
    <2>1. row'[x] = row[x]
        BY <1>12 DEF DeleteFind
    <2>2. NotStored(x)' => NotStored(x)
        BY <1>t, <1>12 DEF DeleteFind, NotStored, Shape, AttemptInRange, TypeOK
    <2>3. QED
        BY <2>1, <2>2, SameRow
<1>13. ASSUME NEW m \in Msgs, DeleteMark(m) PROVE \A x \in Msgs : Allowed(x)
    <2> TAKE x \in Msgs
    <2>1. row'[x] = row[x]
        BY <1>13 DEF DeleteMark
    <2>2. NotStored(x)' => NotStored(x)
        BY <1>t, <1>13 DEF DeleteMark, NotStored, Shape, AttemptInRange, TypeOK
    <2>3. QED
        BY <2>1, <2>2, SameRow
<1>14. ASSUME NEW m \in Msgs, ResendClear(m) PROVE \A x \in Msgs : Allowed(x)
    <2> TAKE x \in Msgs
    <2>1. row'[x] = row[x]
        BY <1>14 DEF ResendClear
    <2>2. NotStored(x)' => NotStored(x)
        BY <1>t, <1>14 DEF ResendClear, NotStored, Shape, AttemptInRange, TypeOK
    <2>3. QED
        BY <2>1, <2>2, SameRow
<1>15. ASSUME NEW m \in Msgs, ConfirmFails(m) PROVE \A x \in Msgs : Allowed(x)
    <2>1. ASSUME NEW x \in Msgs, x # m PROVE Allowed(x)
        <3>1. row'[x] = row[x] /\ pc'[x] = pc[x] /\ attempt'[x] = attempt[x]
            BY <1>t, <1>15, <2>1 DEF ConfirmFails, DropRow, TypeOK
        <3>2. QED
            BY <3>1, SameRow DEF NotStored
    <2>2. Allowed(m)
        <3>1. row'[m] = NoRow /\ (NotStored(m)' => NotStored(m))
            BY <1>t, <1>15 DEF ConfirmFails, DropRow, NotStored, TypeOK
        <3>2. QED
            BY <1>t, <3>1, RowGoes
    <2>9. QED
        BY <2>1, <2>2
<1>16. ASSUME NEW m \in Msgs, SettleRefused(m) PROVE \A x \in Msgs : Allowed(x)
    <2>1. ASSUME NEW x \in Msgs, x # m PROVE Allowed(x)
        <3>1. row'[x] = row[x] /\ pc'[x] = pc[x] /\ attempt'[x] = attempt[x]
            BY <1>t, <1>16, <2>1 DEF SettleRefused, DropRow, TypeOK
        <3>2. QED
            BY <3>1, SameRow DEF NotStored
    <2>2. Allowed(m)
        <3>1. row'[m] = NoRow /\ (NotStored(m)' => NotStored(m))
            BY <1>t, <1>16 DEF SettleRefused, DropRow, NotStored, TypeOK
        <3>2. QED
            BY <1>t, <3>1, RowGoes
    <2>9. QED
        BY <2>1, <2>2
<1>17. ASSUME NEW m \in Msgs, DeleteRow(m) PROVE \A x \in Msgs : Allowed(x)
    <2>1. ASSUME NEW x \in Msgs, x # m PROVE Allowed(x)
        <3>1. row'[x] = row[x] /\ pc'[x] = pc[x] /\ attempt'[x] = attempt[x]
            BY <1>t, <1>17, <2>1 DEF DeleteRow, DropRow, TypeOK
        <3>2. QED
            BY <3>1, SameRow DEF NotStored
    <2>2. Allowed(m)
        <3>1. row'[m] = NoRow /\ (NotStored(m)' => NotStored(m))
            BY <1>t, <1>17 DEF DeleteRow, DropRow, NotStored, TypeOK
        <3>2. QED
            BY <1>t, <3>1, RowGoes
    <2>9. QED
        BY <2>1, <2>2
<1>18. ASSUME NEW m \in Msgs, Store(m) PROVE \A x \in Msgs : Allowed(x)
    <2>1. ASSUME NEW x \in Msgs, x # m PROVE Allowed(x)
        <3>1. row'[x] = row[x] /\ pc'[x] = pc[x] /\ attempt'[x] = attempt[x]
            BY <1>t, <1>18, <2>1 DEF Store, TypeOK
        <3>2. QED
            BY <3>1, SameRow DEF NotStored
    <2>2. Allowed(m)
        <3>1. row[m] = NoRow /\ NotStored(m)
            BY <1>t, <1>18 DEF Store, Shape, RowShape, AttemptInRange, NotStored
        <3>2. row'[m] = NewRow
            BY <1>t, <1>18 DEF Store, TypeOK
        <3>3. Phase(m) = "absent" /\ Phase(m)' = "sending"
            BY <3>1, <3>2 DEF Phase, RowPhase, Exists, NoRow, NewRow
        <3>4. QED
            BY <3>3 DEF Allowed, Abstract!Arrows
    <2>9. QED
        BY <2>1, <2>2
<1>19. ASSUME NEW m \in Msgs, Confirm(m) PROVE \A x \in Msgs : Allowed(x)
    <2>1. ASSUME NEW x \in Msgs, x # m PROVE Allowed(x)
        <3>1. row'[x] = row[x] /\ pc'[x] = pc[x] /\ attempt'[x] = attempt[x]
            BY <1>t, <1>19, <2>1 DEF Confirm, UpdateStatus, Update, TypeOK
        <3>2. QED
            BY <3>1, SameRow DEF NotStored
    <2>2. Allowed(m)
        <3>1. row[m] \in {NewRow, NoRow} /\ ~NotStored(m) /\ ~NotStored(m)'
            BY <1>t, <1>19 DEF Confirm, Shape, RowShape, Sending, NotStored, TypeOK
        <3>2. row'[m] = IF Exists(m) THEN [row[m] EXCEPT !.status = "confirmed"] ELSE NoRow
            BY <1>t, <1>19 DEF Confirm, UpdateStatus, Update, TypeOK
        <3>3. CASE row[m] = NoRow
            <4>1. row'[m] = row[m]
                BY <3>2, <3>3 DEF Exists, NoRow
            <4>2. QED
                BY <3>1, <4>1, SameRow
        <3>4. CASE row[m] = NewRow
            <4>1. row'[m] = [NewRow EXCEPT !.status = "confirmed"]
                BY <3>2, <3>4 DEF Exists, NewRow
            <4>2. Phase(m) = "sending" /\ Phase(m)' = "sent"
                BY <3>4, <4>1 DEF Phase, RowPhase, Exists, NewRow
            <4>3. QED
                BY <4>2 DEF Allowed, Abstract!Arrows
        <3>5. QED
            BY <3>1, <3>3, <3>4
    <2>9. QED
        BY <2>1, <2>2
<1>20. ASSUME NEW m \in Msgs, SettleSilent(m) PROVE \A x \in Msgs : Allowed(x)
    <2>1. ASSUME NEW x \in Msgs, x # m PROVE Allowed(x)
        <3>1. row'[x] = row[x] /\ pc'[x] = pc[x] /\ attempt'[x] = attempt[x]
            BY <1>t, <1>20, <2>1 DEF SettleSilent, UpdateStatus, Update, TypeOK
        <3>2. QED
            BY <3>1, SameRow DEF NotStored
    <2>2. Allowed(m)
        <3>1. row[m] \in {NewRow, NoRow} /\ ~NotStored(m) /\ ~NotStored(m)'
            BY <1>t, <1>20 DEF SettleSilent, Shape, RowShape, Sending, NotStored, TypeOK
        <3>2. row'[m] = IF Exists(m) THEN [row[m] EXCEPT !.status = "unknown"] ELSE NoRow
            BY <1>t, <1>20 DEF SettleSilent, UpdateStatus, Update, TypeOK
        <3>3. CASE row[m] = NoRow
            <4>1. row'[m] = row[m]
                BY <3>2, <3>3 DEF Exists, NoRow
            <4>2. QED
                BY <3>1, <4>1, SameRow
        <3>4. CASE row[m] = NewRow
            <4>1. row'[m] = [NewRow EXCEPT !.status = "unknown"]
                BY <3>2, <3>4 DEF Exists, NewRow
            <4>2. Phase(m) = "sending" /\ Phase(m)' = "unknown"
                BY <3>4, <4>1 DEF Phase, RowPhase, Exists, NewRow
            <4>3. QED
                BY <4>2 DEF Allowed, Abstract!Arrows
        <3>5. QED
            BY <3>1, <3>3, <3>4
    <2>9. QED
        BY <2>1, <2>2
<1>21. ASSUME NEW m \in Msgs, CountOwnAck(m) PROVE \A x \in Msgs : Allowed(x)
    <2>1. ASSUME NEW x \in Msgs, x # m PROVE Allowed(x)
        <3>1. row'[x] = row[x] /\ pc'[x] = pc[x] /\ attempt'[x] = attempt[x]
            BY <1>t, <1>21, <2>1 DEF CountOwnAck, IncrementAck, Update, TypeOK
        <3>2. QED
            BY <3>1, SameRow DEF NotStored
    <2>2. Allowed(m)
        <3>1. row[m].status \notin {"pending", "unknown"}
            BY <1>t, <1>21 DEF CountOwnAck, Shape, RowShape, TrackerShape, Untracked, Sending, TypeOK
        <3>2. IncrementAck(m) /\ UNCHANGED attempt /\ (pc'[m] = pc[m] \/ pc'[m] = "ended")
            BY <1>t, <1>21 DEF CountOwnAck, TypeOK
        <3>3. QED
            BY <1>t, <3>1, <3>2, AckCounted
    <2>9. QED
        BY <2>1, <2>2
<1>22. ASSUME NEW m \in Msgs, CountAck(m) PROVE \A x \in Msgs : Allowed(x)
    <2>1. ASSUME NEW x \in Msgs, x # m PROVE Allowed(x)
        <3>1. row'[x] = row[x] /\ pc'[x] = pc[x] /\ attempt'[x] = attempt[x]
            BY <1>t, <1>22, <2>1 DEF CountAck, IncrementAck, Update, TypeOK
        <3>2. QED
            BY <3>1, SameRow DEF NotStored
    <2>2. Allowed(m)
        <3>1. row[m].status \notin {"pending", "unknown"}
            BY <1>t, <1>22 DEF CountAck, Shape, RowShape, TrackerShape, Untracked, Sending, TypeOK
        <3>2. IncrementAck(m) /\ UNCHANGED attempt /\ (pc'[m] = pc[m] \/ pc'[m] = "ended")
            BY <1>t, <1>22 DEF CountAck, TypeOK
        <3>3. QED
            BY <1>t, <3>1, <3>2, AckCounted
    <2>9. QED
        BY <2>1, <2>2
<1>23. ASSUME NEW m \in Msgs, MarkFailed(m) PROVE \A x \in Msgs : Allowed(x)
    <2>1. ASSUME NEW x \in Msgs, x # m PROVE Allowed(x)
        <3>1. row'[x] = row[x] /\ pc'[x] = pc[x] /\ attempt'[x] = attempt[x]
            BY <1>t, <1>23, <2>1 DEF MarkFailed, TypeOK
        <3>2. QED
            BY <3>1, SameRow DEF NotStored
    <2>2. Allowed(m)
        <3>1. ~NotStored(m) /\ ~NotStored(m)'
            BY <1>t, <1>23 DEF MarkFailed, NotStored, TypeOK
        <3>2. CASE CanMarkFailed(m)
            <4>1. row'[m] = [row[m] EXCEPT !.failed = TRUE] /\ row[m] \in Row
                BY <1>t, <1>23, <3>2 DEF MarkFailed, TypeOK
            <4>2. Exists(m) /\ row[m].acked = 0 /\ row[m].status \notin {"pending", "unknown"}
                BY <1>t, <1>23, <3>2 DEF MarkFailed, CanMarkFailed, Shape, RowShape, Sending
            <4>3. Phase(m) \in {"sent", "failed"}
                BY <4>2 DEF Phase, RowPhase
            <4>4. Phase(m)' = "failed"
                BY <4>1, <4>2 DEF Phase, RowPhase, Exists, Row
            <4>5. QED
                BY <4>3, <4>4 DEF Allowed, Abstract!Arrows
        <3>3. CASE ~CanMarkFailed(m)
            <4>1. row'[m] = row[m]
                BY <1>23, <3>3 DEF MarkFailed
            <4>2. QED
                BY <3>1, <4>1, SameRow
        <3>4. QED
            BY <3>2, <3>3
    <2>9. QED
        BY <2>1, <2>2
<1>24. ASSUME NEW m \in Msgs, ResendDrop(m) PROVE \A x \in Msgs : Allowed(x)
    <2> TAKE x \in Msgs
    <2>1. NotStored(x)' => NotStored(x)
        BY <1>24 DEF ResendDrop, NotStored
    <2>2. CASE x = replaces[m]
        BY <1>t, <1>24, <2>1, <2>2, RowGoes DEF ResendDrop, DropRow, TypeOK
    <2>3. CASE x # replaces[m]
        BY <1>t, <1>24, <2>1, <2>3, SameRow DEF ResendDrop, DropRow, TypeOK
    <2>4. QED
        BY <2>2, <2>3
<1>25. ASSUME NEW o \in Msgs, NEW m \in Msgs, StartResend(o, m) PROVE \A x \in Msgs : Allowed(x)
    <2> TAKE x \in Msgs
    <2>1. row'[x] = row[x] /\ (NotStored(x)' => NotStored(x))
        BY <1>t, <1>25 DEF StartResend, NotStored, TypeOK
    <2>2. QED
        BY <2>1, SameRow
<1>26. ASSUME NEW c \in Codes, HearAck(c) PROVE \A x \in Msgs : Allowed(x)
    <2> TAKE x \in Msgs
    <2>1. row'[x] = row[x] /\ (NotStored(x)' => NotStored(x))
        BY <1>26 DEF HearAck, NotStored
    <2>2. QED
        BY <2>1, SameRow
<1>27. ASSUME Restart PROVE \A x \in Msgs : Allowed(x)
    <2> TAKE x \in Msgs
    <2>1. row[x] \in Row /\ row'[x] = MarkPendingUnknown(row[x])
        BY <1>t, <1>27 DEF Restart, TypeOK
    <2>2. NotStored(x)' => NotStored(x)
        BY <1>t, <1>27 DEF Restart, NotStored, TypeOK
    <2>3. CASE row[x].status # "pending"
        <3>1. row'[x] = row[x]
            BY <2>1, <2>3 DEF MarkPendingUnknown
        <3>2. QED
            BY <2>2, <3>1, SameRow
    <2>4. CASE row[x].status = "pending"
        <3>1. row[x] = NewRow
            BY <1>t, <2>4 DEF Shape, RowShape, NoRow
        <3>2. row'[x] = [NewRow EXCEPT !.status = "unknown"]
            BY <2>1, <2>4, <3>1 DEF MarkPendingUnknown
        <3>3. Phase(x) = "sending" /\ Phase(x)' = "unknown"
            BY <3>1, <3>2 DEF Phase, RowPhase, Exists, NewRow
        <3>4. QED
            BY <3>3 DEF Allowed, Abstract!Arrows
    <2>5. QED
        BY <2>3, <2>4
<1>28. CASE UNCHANGED vars
    <2> TAKE x \in Msgs
    <2>1. row'[x] = row[x] /\ (NotStored(x)' => NotStored(x))
        BY <1>28 DEF vars, NotStored
    <2>2. QED
        BY <2>1, SameRow
<1>29. QED
    BY <1>1, <1>2, <1>3, <1>4, <1>5, <1>6, <1>7, <1>8, <1>9, <1>10, <1>11, <1>12, <1>13, <1>14, <1>15, <1>16, <1>17, <1>18, <1>19, <1>20, <1>21, <1>22, <1>23, <1>24, <1>25, <1>26, <1>27, <1>28
    DEF Next, SendStep, RetryStep, RequestStep, FailStep, UserStep

\* What happens to a message is what DmStatus allows, whatever interleaves.
THEOREM ImplementsDmStatus == Spec => ImplementsStatus
<1>1. Init => Abstract!Init
    BY DEF Init, Abstract!Init, Phase, NotStored, Exists, NoRow
<1>2. IInv /\ [Next]_vars => [Abstract!Next]_[m \in Msgs |-> Phase(m)]
    <2> SUFFICES ASSUME IInv, [Next]_vars PROVE Abstract!Next
        OBVIOUS
    <2>1. \A x \in Msgs : Allowed(x)
        BY PhaseStep
    <2>2. [m \in Msgs |-> Phase(m)]' \in [Msgs -> Abstract!Phases]
        BY DEF Phase, RowPhase, Abstract!Phases
    <2>3. QED
        BY <2>1, <2>2 DEF Abstract!Next, Allowed
<1>3. QED
    BY <1>1, <1>2, Invariance, PTL DEF Spec, ImplementsStatus, Abstract!Spec

-----------------------------------------------------------------------------
(* What went on air.                                                       *)

\* Where the task is once its attempt may be on air.
Sent == {"returning", "code", "nocode", "silent", "refused", "track", "matched", "ended"}

\* Only attempts the task has come to are on air; an answer with or without a code, and
\* a resend that goes on, mean that the first attempt is.
AirShape(m) ==
    /\ \A i \in 0 .. MaxAttempts - 1 :
          <<m, i>> \in air => i < attempt[m] \/ (i = attempt[m] /\ pc[m] \in Sent)
    /\ attempt[m] = 0 /\ pc[m] \in {"code", "nocode", "track", "matched"} => <<m, 0>> \in air
    /\ resend[m] \in {"clear", "drop"} => <<m, 0>> \in air
    /\ pc[m] = "unsent" => attempt[m] = 0
AirInv == IInv /\ \A m \in Msgs : AirShape(m)

\* Steps of other messages, and steps that leave task, resend and air alone.
LEMMA LocalAir ==
    ASSUME NEW x \in Msgs, AirShape(x),
           pc'[x] = pc[x], attempt'[x] = attempt[x], resend'[x] = resend[x],
           \A i \in 0 .. MaxAttempts - 1 : <<x, i>> \in air' <=> <<x, i>> \in air,
           0 \in 0 .. MaxAttempts - 1
    PROVE  AirShape(x)'
BY DEF AirShape

\* A task goes on to a place after its transmission, or to the next attempt.
LEMMA GoesOnAir ==
    ASSUME NEW x \in Msgs, TypeOK, AirShape(x), air' = air,
           \/ attempt'[x] = attempt[x] /\ (pc[x] \in Sent => pc'[x] \in Sent)
           \/ attempt'[x] = attempt[x] + 1,
           pc'[x] # "unsent",
           attempt'[x] = 0 /\ pc'[x] \in {"code", "nocode", "track", "matched"} => <<x, 0>> \in air,
           resend'[x] = resend[x] \/ resend'[x] = "no" \/ <<x, 0>> \in air
    PROVE  AirShape(x)'
<1>1. attempt[x] \in 0 .. MaxAttempts
    BY DEF TypeOK
<1>2. QED
    BY <1>1, AttemptsAssumption DEF AirShape

\* Every action keeps what is known of the air.
LEMMA AirStep ==
    ASSUME AirInv, [Next]_vars
    PROVE  \A x \in Msgs : AirShape(x)'
<1> USE AttemptsAssumption
<1> USE DEF taskVars, requestVars, trackerVars, worldVars, faultVars, Goto
<1>t. TypeOK /\ \A x \in Msgs : AirShape(x) /\ Shape(x)
    BY DEF AirInv, IInv
<1>z. 0 \in 0 .. MaxAttempts - 1
    OBVIOUS
<1>1. ASSUME NEW m \in Msgs, Transmit(m) PROVE \A x \in Msgs : AirShape(x)'
    <2>1. AirShape(m)'
        <3>1. /\ pc[m] = "transmit" /\ pc'[m] = "returning" /\ attempt'[m] = attempt[m]
              /\ resend'[m] = resend[m]
            BY <1>t, <1>1 DEF Transmit, TypeOK
        <3>2. air' = air \/ air' = air \cup {<<m, attempt[m]>>}
            BY <1>1 DEF Transmit, Code
        <3>3. QED
            BY <1>t, <3>1, <3>2 DEF AirShape, Sent
    <2>2. ASSUME NEW x \in Msgs, x # m PROVE AirShape(x)'
        <3>1. \A i \in 0 .. MaxAttempts - 1 : <<x, i>> \in air' <=> <<x, i>> \in air
            BY <1>1, <2>2 DEF Transmit, Code
        <3>2. QED
            BY <1>t, <1>z, <1>1, <2>2, <3>1, LocalAir DEF Transmit, TypeOK
    <2>3. QED
        BY <2>1, <2>2
<1>2. ASSUME NEW m \in Msgs, Return(m) PROVE \A x \in Msgs : AirShape(x)'
    <2>1. PICK answer \in Answers(m) :
              IF attempt[m] > 0 /\ answer \in {"silent", "refused"}
              THEN NextAttempt(m)
              ELSE Goto(m, answer) /\ UNCHANGED attempt
        BY <1>2 DEF Return
    <2>2. AirShape(m)'
        <3>1. air' = air /\ resend'[m] = resend[m] /\ pc[m] = "returning"
            BY <1>2 DEF Return
        <3>2. CASE NextAttempt(m)
            <4>1. attempt'[m] = attempt[m] + 1 /\ pc'[m] = "sleep"
                BY <1>t, <3>2 DEF NextAttempt, TypeOK
            <4>2. QED
                BY <1>t, <3>1, <4>1, GoesOnAir
        <3>3. CASE Goto(m, answer) /\ UNCHANGED attempt
            <4>1. attempt'[m] = attempt[m] /\ pc'[m] = answer
                BY <1>t, <3>3 DEF TypeOK
            <4>2. CASE <<m, attempt[m]>> \in air
                BY <1>t, <3>1, <4>1, <4>2 DEF Answers, Code, AirShape, Sent
            <4>3. CASE <<m, attempt[m]>> \notin air
                BY <1>t, <3>1, <4>1, <4>3 DEF Answers, Code, AirShape, Sent
            <4>4. QED
                BY <4>2, <4>3
        <3>4. QED
            BY <2>1, <3>2, <3>3
    <2>3. ASSUME NEW x \in Msgs, x # m PROVE AirShape(x)'
        <3>1. pc'[x] = pc[x] /\ attempt'[x] = attempt[x]
            BY <1>t, <2>1, <2>3 DEF NextAttempt, TypeOK
        <3>2. QED
            BY <1>t, <1>z, <1>2, <3>1, LocalAir DEF Return
    <2>4. QED
        BY <2>2, <2>3
<1>3. ASSUME NEW m \in Msgs,
             \/ StartSend(m) \/ Acquire(m) \/ AbortSend(m) \/ Store(m)
             \/ SettleSilent(m) \/ SettleRefused(m) \/ ConfirmFails(m)
             \/ Wake(m) \/ LastWake(m) \/ MarkFailed(m) \/ HoldFailed(m) \/ RetryNoRadio(m)
             \/ \E o \in Msgs : StartResend(o, m)
      PROVE  \A x \in Msgs : AirShape(x)'
    <2>1. air' = air
        BY <1>3
        DEF StartSend, Acquire, AbortSend, Store, SettleSilent, SettleRefused, ConfirmFails,
            Wake, LastWake, MarkFailed, HoldFailed, RetryNoRadio, StartResend
    <2>2. \A x \in Msgs : x # m =>
              pc'[x] = pc[x] /\ attempt'[x] = attempt[x] /\ resend'[x] = resend[x]
        BY <1>t, <1>3
        DEF StartSend, Acquire, AbortSend, Store, SettleSilent, SettleRefused, ConfirmFails,
            Wake, LastWake, MarkFailed, HoldFailed, RetryNoRadio, StartResend, NextAttempt,
            RequestOver, TypeOK
    <2>3. /\ pc'[m] \notin {"unsent", "code", "nocode", "track", "matched"}
          /\ \/ attempt'[m] = attempt[m] /\ (pc[m] \in Sent => pc'[m] \in Sent)
             \/ attempt'[m] = attempt[m] + 1
        BY <1>t, <1>3
        DEF StartSend, Acquire, AbortSend, Store, SettleSilent, SettleRefused, ConfirmFails,
            Wake, LastWake, MarkFailed, HoldFailed, RetryNoRadio, StartResend, NextAttempt,
            Sent, TypeOK
    <2>4. resend'[m] = resend[m] \/ resend'[m] = "no" \/ resend'[m] = "sending"
        BY <1>t, <1>3
        DEF StartSend, Acquire, AbortSend, Store, SettleSilent, SettleRefused, ConfirmFails,
            Wake, LastWake, MarkFailed, HoldFailed, RetryNoRadio, StartResend, RequestOver, TypeOK
    <2>5. AirShape(m)'
        BY <1>t, <2>1, <2>3, <2>4, AttemptsAssumption DEF AirShape, TypeOK
    <2>6. QED
        BY <1>t, <1>z, <2>1, <2>2, <2>5, LocalAir
<1>4. ASSUME NEW m \in Msgs, Confirm(m) \/ Track(m) \/ CountOwnAck(m) \/ Recheck(m)
      PROVE  \A x \in Msgs : AirShape(x)'
    <2>1. air' = air
        BY <1>4 DEF Confirm, Track, CountOwnAck, Recheck
    <2>2. \A x \in Msgs : x # m =>
              pc'[x] = pc[x] /\ attempt'[x] = attempt[x] /\ resend'[x] = resend[x]
        BY <1>t, <1>4 DEF Confirm, Track, CountOwnAck, Recheck, NextAttempt, RequestOver, TypeOK
    <2>3. pc[m] \in {"code", "nocode", "track", "matched"}
        BY <1>4 DEF Confirm, Track, CountOwnAck, Recheck
    <2>4. \/ attempt'[m] = attempt[m] /\ pc'[m] \in {"track", "matched", "ended"}
          \/ attempt'[m] = attempt[m] + 1 /\ pc'[m] = "sleep"
        BY <1>t, <1>4 DEF Confirm, Track, CountOwnAck, Recheck, NextAttempt, TypeOK
    <2>5. resend'[m] = resend[m] \/ attempt[m] = 0
        BY <1>t, <1>4 DEF Confirm, Track, CountOwnAck, Recheck
    <2>6. attempt[m] = 0 => <<m, 0>> \in air
        BY <1>t, <2>3 DEF AirShape
    <2>7. AirShape(m)'
        BY <1>t, <2>1, <2>3, <2>4, <2>5, <2>6, GoesOnAir DEF Sent, TypeOK
    <2>8. QED
        BY <1>t, <1>z, <2>1, <2>2, <2>7, LocalAir
<1>5. ASSUME NEW m \in Msgs,
             CountAck(m) \/ DeleteFind(m) \/ DeleteMark(m) \/ DeleteRow(m)
      PROVE  \A x \in Msgs : AirShape(x)'
    BY <1>t, <1>z, <1>5, LocalAir DEF CountAck, DeleteFind, DeleteMark, DeleteRow
<1>6. ASSUME NEW m \in Msgs, ResendClear(m) \/ ResendDrop(m)
      PROVE  \A x \in Msgs : AirShape(x)'
    <2>1. UNCHANGED <<air, pc, attempt>>
        BY <1>6 DEF ResendClear, ResendDrop
    <2>2. \A x \in Msgs : resend'[x] \in {"clear", "drop"} => resend[x] \in {"clear", "drop"}
        BY <1>t, <1>6 DEF ResendClear, ResendDrop, TypeOK
    <2>3. QED
        BY <1>t, <2>1, <2>2 DEF AirShape
<1>7. ASSUME NEW c \in Codes, HearAck(c) PROVE \A x \in Msgs : AirShape(x)'
    BY <1>t, <1>z, <1>7, LocalAir DEF HearAck
<1>8. CASE Restart
    <2>1. \A x \in Msgs : /\ pc'[x] \in {"unsent", "ended"} /\ (pc'[x] = "unsent" => pc[x] = "unsent")
                          /\ attempt'[x] = attempt[x] /\ resend'[x] = "no"
        BY <1>8 DEF Restart
    <2>2. air' = air
        BY <1>8 DEF Restart
    <2>3. QED
        BY <1>t, <2>1, <2>2 DEF AirShape, Sent
<1>9. CASE UNCHANGED vars
    BY <1>t, <1>z, <1>9, LocalAir DEF vars
<1>10. QED
    BY <1>1, <1>2, <1>3, <1>4, <1>5, <1>6, <1>7, <1>8, <1>9
    DEF Next, SendStep, RetryStep, RequestStep, FailStep, UserStep

\* The invariant of a run, with what is known of the air.
THEOREM AirInvariance == Spec => []AirInv
<1>1. Init => \A m \in Msgs : AirShape(m)
    BY DEF Init, AirShape
<1>2. AirInv /\ [Next]_vars => (\A m \in Msgs : AirShape(m))'
    BY AirStep
<1>3. IInv /\ (\A m \in Msgs : AirShape(m)) <=> AirInv
    BY DEF AirInv
<1>4. QED
    BY <1>1, <1>2, <1>3, Invariance, PTL DEF Spec

-----------------------------------------------------------------------------
(* The record of a message, and what a delete stops.                       *)

\* The request of a message is between its store and its answer.
Flying(n) ==
    attempt[n] = 0 /\ pc[n] \in {"transmit", "returning", "code", "nocode", "silent",
                                  "refused", "track", "matched"}

\* A copy is accounted for while its request or its resend goes on; a resend goes on
\* only after its send; deletes are about messages that were sent.
RecordShape(n) ==
    /\ Flying(n) \/ resend[n] \in {"clear", "drop"} => CopyTaken(n)
    /\ resend[n] \in {"clear", "drop"} => attempt[n] > 0 \/ pc[n] = "ended"
    /\ del[n] = "marked" => n \in deleted
    /\ n \in deleted \/ del[n] # "no" => pc[n] # "unsent"
RecordInv == AirInv /\ \A n \in Msgs : RecordShape(n)

\* What can take a row away.
LEMMA RowDrops ==
    ASSUME AirInv, [Next]_vars, NEW m \in Msgs, Exists(m), ~Exists(m)'
    PROVE  \/ del[m] = "marked" /\ UNCHANGED <<pc, attempt, resend, deleted>>
           \/ \E n \in Msgs : /\ resend[n] = "drop" /\ replaces[n] = m /\ <<n, 0>> \in air
                              /\ UNCHANGED <<pc, attempt, replaces, deleted, air>>
           \/ /\ row[m].status = "pending" /\ Flying(m) /\ pc'[m] = "ended"
              /\ resend'[m] \in {resend[m], "no"}
              /\ pc[m] = "refused" \/ dbFaults' > dbFaults
<1>t. TypeOK /\ \A x \in Msgs : AirShape(x) /\ Shape(x)
    BY DEF AirInv, IInv
<1>r. row[m].status # "none" /\ row'[m].status = "none" /\ row'[m] # row[m]
    BY DEF Exists
<1>p. Sending(m) => row[m].status = "pending"
    BY <1>t, <1>r DEF Shape, RowShape, NewRow, NoRow
<1>1. ASSUME NEW x \in Msgs, Store(x) PROVE FALSE
    BY <1>t, <1>r, <1>1 DEF Store, NewRow, TypeOK
<1>2. ASSUME NEW x \in Msgs, NEW s \in {"confirmed", "unknown"}, UpdateStatus(x, s) PROVE FALSE
    BY <1>t, <1>r, <1>2 DEF UpdateStatus, Update, Exists, TypeOK, Row
<1>3. ASSUME NEW x \in Msgs, IncrementAck(x) PROVE FALSE
    BY <1>t, <1>r, <1>3 DEF IncrementAck, Update, Exists, TypeOK
<1>4. ASSUME NEW x \in Msgs, ConfirmFails(x)
      PROVE  /\ row[m].status = "pending" /\ Flying(m) /\ pc'[m] = "ended"
             /\ resend'[m] \in {resend[m], "no"} /\ dbFaults' > dbFaults
    <2>1. x = m
        BY <1>t, <1>r, <1>4 DEF ConfirmFails, DropRow, TypeOK
    <2>2. attempt[m] = 0 /\ pc[m] \in {"code", "nocode"} /\ dbFaults' > dbFaults
        BY <1>t, <1>4, <2>1, BoundsAssumption DEF ConfirmFails, TypeOK
    <2>3. pc'[m] = "ended" /\ resend'[m] \in {resend[m], "no"}
        BY <1>t, <1>4, <2>1 DEF ConfirmFails, RequestOver, Goto, TypeOK
    <2>4. QED
        BY <1>p, <2>2, <2>3 DEF Flying, Sending
<1>5. ASSUME NEW x \in Msgs, SettleRefused(x)
      PROVE  /\ row[m].status = "pending" /\ Flying(m) /\ pc'[m] = "ended"
             /\ resend'[m] \in {resend[m], "no"} /\ pc[m] = "refused"
    <2>1. x = m
        BY <1>t, <1>r, <1>5 DEF SettleRefused, DropRow, TypeOK
    <2>2. attempt[m] = 0 /\ pc[m] = "refused"
        BY <1>5, <2>1 DEF SettleRefused
    <2>3. pc'[m] = "ended" /\ resend'[m] \in {resend[m], "no"}
        BY <1>t, <1>5, <2>1 DEF SettleRefused, RequestOver, Goto, TypeOK
    <2>4. QED
        BY <1>p, <2>2, <2>3 DEF Flying, Sending
<1>6. ASSUME NEW x \in Msgs, MarkFailed(x) PROVE FALSE
    BY <1>t, <1>r, <1>6 DEF MarkFailed, TypeOK, Row
<1>7. ASSUME NEW x \in Msgs, DeleteRow(x)
      PROVE  del[m] = "marked" /\ UNCHANGED <<pc, attempt, resend, deleted>>
    BY <1>t, <1>r, <1>7 DEF DeleteRow, DropRow, TypeOK, taskVars, trackerVars
<1>8. ASSUME NEW x \in Msgs, ResendDrop(x)
      PROVE  /\ resend[x] = "drop" /\ replaces[x] = m /\ <<x, 0>> \in air
             /\ UNCHANGED <<pc, attempt, replaces, deleted, air>>
    <2>1. resend[x] = "drop" /\ <<x, 0>> \in air
        BY <1>t, <1>8 DEF ResendDrop, AirShape
    <2>2. replaces[x] = m
        BY <1>t, <1>r, <1>8 DEF ResendDrop, DropRow, TypeOK
    <2>3. QED
        BY <1>8, <2>1, <2>2 DEF ResendDrop, taskVars, worldVars, trackerVars
<1>9. ASSUME Restart PROVE FALSE
    BY <1>t, <1>r, <1>9 DEF Restart, MarkPendingUnknown, TypeOK, Row
<1>10. ASSUME UNCHANGED row PROVE FALSE
    BY <1>r, <1>10
<1>11. CASE \E x \in Msgs : SendStep(x)
    BY <1>1, <1>2, <1>3, <1>5, <1>10, <1>11
    DEF SendStep, Acquire, Transmit, Return, Confirm, SettleSilent, Track, CountOwnAck
<1>12. CASE \E x \in Msgs : RetryStep(x) \/ CountAck(x)
    BY <1>3, <1>6, <1>10, <1>12
    DEF RetryStep, Wake, Recheck, LastWake, HoldFailed, CountAck
<1>13. CASE \E x \in Msgs : RequestStep(x)
    BY <1>7, <1>8, <1>10, <1>13 DEF RequestStep, DeleteMark, ResendClear
<1>14. CASE \E x \in Msgs : FailStep(x) \/ UserStep(x)
    BY <1>4, <1>10, <1>14
    DEF FailStep, AbortSend, RetryNoRadio, UserStep, StartSend, StartResend, DeleteFind
<1>15. CASE (\E c \in Codes : HearAck(c)) \/ UNCHANGED vars
    BY <1>10, <1>15 DEF HearAck, vars
<1>16. QED
    BY <1>9, <1>11, <1>12, <1>13, <1>14, <1>15 DEF Next

\* A step of a task changes the place of no other message, and marks nothing as deleted.
LEMMA OthersWait ==
    ASSUME TypeOK, NEW x \in Msgs, SendStep(x) \/ RetryStep(x) \/ FailStep(x) \/ UserStep(x)
    PROVE  /\ UNCHANGED deleted /\ air \subseteq air'
           /\ \A n \in Msgs : n # x =>
                 /\ pc'[n] = pc[n] /\ attempt'[n] = attempt[n] /\ resend'[n] = resend[n]
                 /\ replaces'[n] = replaces[n] /\ del'[n] = del[n]
<1> USE DEF taskVars, requestVars, trackerVars, worldVars, faultVars, Goto
<1>1. CASE SendStep(x)
    BY <1>1
    DEF SendStep, Acquire, Store, Transmit, Return, Confirm, SettleSilent, SettleRefused,
        Track, CountOwnAck, NextAttempt, RequestOver, TypeOK
<1>2. CASE RetryStep(x)
    BY <1>2 DEF RetryStep, Wake, Recheck, LastWake, MarkFailed, HoldFailed, NextAttempt, TypeOK
<1>3. CASE FailStep(x)
    BY <1>3 DEF FailStep, AbortSend, ConfirmFails, RetryNoRadio, NextAttempt, RequestOver, TypeOK
<1>4. CASE UserStep(x)
    BY <1>4 DEF UserStep, StartSend, StartResend, DeleteFind, TypeOK
<1>5. QED
    BY <1>1, <1>2, <1>3, <1>4

\* The steps of a task itself: the request comes from its store, a resend goes on from
\* the end of a request.
LEMMA TaskGoesOn ==
    ASSUME TypeOK, NEW n \in Msgs, RecordShape(n), Shape(n), AirShape(n),
           SendStep(n) \/ RetryStep(n) \/ FailStep(n) \/ UserStep(n)
    PROVE  /\ Flying(n)' => Flying(n) \/ Exists(n)'
           /\ resend'[n] \in {"clear", "drop"} =>
                 /\ Flying(n) \/ resend[n] \in {"clear", "drop"}
                 /\ attempt'[n] > 0 \/ pc'[n] = "ended"
           /\ pc'[n] # "unsent" \/ del'[n] = del[n]
           /\ del'[n] = del[n] \/ del'[n] = "found"
           /\ pc[n] # "unsent" => pc'[n] # "unsent" /\ replaces'[n] = replaces[n]
<1> USE AttemptsAssumption
<1> USE DEF taskVars, requestVars, trackerVars, worldVars, faultVars, Goto, TypeOK
<1>1. CASE Store(n)
    BY <1>1 DEF Store, Exists, NewRow, RecordShape
<1>2. CASE Acquire(n) \/ Transmit(n) \/ SettleSilent(n) \/ SettleRefused(n)
    BY <1>2 DEF Acquire, Transmit, SettleSilent, SettleRefused, RequestOver, Flying, RecordShape
<1>3. CASE Return(n)
    BY <1>3 DEF Return, Answers, NextAttempt, Flying, RecordShape
<1>4. CASE Confirm(n) \/ Track(n) \/ CountOwnAck(n)
    BY <1>4 DEF Confirm, Track, CountOwnAck, NextAttempt, RequestOver, Flying, RecordShape
<1>5. CASE RetryStep(n)
    BY <1>5
    DEF RetryStep, Wake, Recheck, LastWake, MarkFailed, HoldFailed, NextAttempt, Flying,
        RecordShape, Shape, AttemptInRange
<1>6. CASE FailStep(n)
    BY <1>6
    DEF FailStep, AbortSend, ConfirmFails, RetryNoRadio, NextAttempt, RequestOver, Flying,
        RecordShape
<1>7. CASE UserStep(n)
    <2>1. CASE StartSend(n)
        BY <2>1 DEF StartSend, Flying, RecordShape
    <2>2. ASSUME NEW o \in Msgs, StartResend(o, n) PROVE
              /\ pc[n] = "unsent" /\ pc'[n] = "waitRadio" /\ resend'[n] = "sending" /\ del'[n] = del[n]
        BY <2>2 DEF StartResend
    <2>3. CASE \E o \in Msgs : StartResend(o, n)
        BY <2>2, <2>3 DEF Flying
    <2>4. CASE DeleteFind(n)
        <3>1. row[n].status # "none"
            BY <2>4 DEF DeleteFind, Exists
        <3>2. pc[n] # "unsent"
            BY <3>1 DEF Shape, RowShape, NotStored, NoRow, AirShape
        <3>3. QED
            BY <2>4, <3>2 DEF DeleteFind, Flying, RecordShape
    <2>5. QED
        BY <1>7, <2>1, <2>3, <2>4 DEF UserStep
<1>8. QED
    BY <1>1, <1>2, <1>3, <1>4, <1>5, <1>6, <1>7 DEF SendStep

\* A copy that is accounted for stays so, unless the answer to its own request takes it.
LEMMA CopyStays ==
    ASSUME RecordInv, [Next]_vars, ~Restart, NEW n \in Msgs, CopyTaken(n),
           deleted \subseteq deleted', air \subseteq air',
           \A p \in Msgs : pc[p] # "unsent" => replaces'[p] = replaces[p]
    PROVE  CopyTaken(n)' \/ (Flying(n) /\ pc'[n] = "ended" /\ resend'[n] \in {resend[n], "no"})
<1>t. TypeOK /\ \A x \in Msgs : AirShape(x) /\ RecordShape(x)
    BY DEF RecordInv, AirInv, IInv
<1>a. ASSUME NEW p \in Msgs, replaces[p] = n, <<p, 0>> \in air PROVE CopyTaken(n)'
    <2>1. pc[p] # "unsent"
        BY <1>t, <1>a, AttemptsAssumption DEF AirShape, Sent
    <2>2. QED
        BY <1>a, <2>1 DEF CopyTaken
<1>1. CASE n \in deleted
    BY <1>1 DEF CopyTaken
<1>2. CASE \E p \in Msgs : replaces[p] = n /\ <<p, 0>> \in air
    BY <1>2, <1>a
<1>3. CASE Exists(n)
    <2>1. CASE Exists(n)'
        BY <2>1 DEF CopyTaken
    <2>2. CASE ~Exists(n)'
        <3>1. CASE del[n] = "marked"
            BY <1>t, <1>1, <3>1 DEF RecordShape
        <3>2. CASE \E p \in Msgs : replaces[p] = n /\ <<p, 0>> \in air
            BY <3>2, <1>a
        <3>3. QED
            BY <1>3, <2>2, <3>1, <3>2, RowDrops DEF RecordInv
    <2>3. QED
        BY <2>1, <2>2
<1>4. QED
    BY <1>1, <1>2, <1>3 DEF CopyTaken

\* Every action keeps the records accounted for.
LEMMA RecordShapeStep ==
    ASSUME RecordInv, [Next]_vars
    PROVE  \A n \in Msgs : RecordShape(n)'
<1>t. TypeOK /\ \A x \in Msgs : AirShape(x) /\ Shape(x) /\ RecordShape(x)
    BY DEF RecordInv, AirInv, IInv
<1> SUFFICES ASSUME NEW n \in Msgs PROVE RecordShape(n)'
    OBVIOUS
<1>1. CASE \E x \in Msgs : SendStep(x) \/ RetryStep(x) \/ FailStep(x) \/ UserStep(x)
    <2>1. PICK x \in Msgs : SendStep(x) \/ RetryStep(x) \/ FailStep(x) \/ UserStep(x)
        BY <1>1
    <2>2. UNCHANGED deleted /\ air \subseteq air'
        BY <1>t, <2>1, OthersWait
    <2>3. \A p \in Msgs : pc[p] # "unsent" => replaces'[p] = replaces[p]
        BY <1>t, <2>1, OthersWait, TaskGoesOn
    <2>4. ~Restart \/ RecordShape(n)'
        BY AttemptsAssumption DEF Restart, RecordShape, Flying
    <2>5. CASE ~Restart
        <3>1. CopyTaken(n) =>
                  CopyTaken(n)' \/ (Flying(n) /\ pc'[n] = "ended" /\ resend'[n] \in {resend[n], "no"})
            BY <2>2, <2>3, <2>5, CopyStays
        <3>2. CASE x = n
            <4>1. Flying(n) => resend[n] \notin {"clear", "drop"}
                BY <1>t DEF Flying, RecordShape
            <4>2. pc'[n] = "ended" => ~Flying(n)'
                BY DEF Flying
            <4>3. Exists(n)' => CopyTaken(n)'
                BY DEF CopyTaken
            <4>4. QED
                BY <1>t, <2>1, <2>2, <3>1, <3>2, <4>1, <4>2, <4>3, TaskGoesOn DEF RecordShape
        <3>3. CASE x # n
            <4>1. /\ pc'[n] = pc[n] /\ attempt'[n] = attempt[n] /\ resend'[n] = resend[n]
                  /\ del'[n] = del[n]
                BY <1>t, <2>1, <3>3, OthersWait
            <4>2. Flying(n) <=> Flying(n)'
                BY <4>1 DEF Flying
            <4>3. pc'[n] = "ended" => ~Flying(n)
                BY <4>1 DEF Flying
            <4>4. QED
                BY <1>t, <2>2, <3>1, <4>1, <4>2, <4>3 DEF RecordShape
        <3>4. QED
            BY <3>2, <3>3
    <2>6. QED
        BY <2>4, <2>5
<1>2. CASE \/ \E x \in Msgs : RequestStep(x) \/ CountAck(x)
           \/ \E c \in Codes : HearAck(c)
           \/ UNCHANGED vars
    <2>1. /\ UNCHANGED <<pc, attempt, replaces, air>> /\ deleted \subseteq deleted'
          /\ resend'[n] \in {"clear", "drop"} => resend[n] \in {"clear", "drop"}
          /\ del'[n] # "no" => del[n] # "no"
          /\ del'[n] = "marked" => del[n] = "marked" \/ n \in deleted'
          /\ n \in deleted' => n \in deleted \/ del[n] # "no"
        BY <1>t, <1>2
        DEF RequestStep, DeleteMark, DeleteRow, ResendClear, ResendDrop, CountAck, HearAck, vars,
            taskVars, requestVars, trackerVars, worldVars, faultVars, TypeOK
    <2>2. Flying(n) <=> Flying(n)'
        BY <2>1 DEF Flying
    <2>3. ~Restart \/ RecordShape(n)'
        BY AttemptsAssumption DEF Restart, RecordShape, Flying
    <2>4. CASE ~Restart
        <3>1. CopyTaken(n) => CopyTaken(n)'
            BY <2>1, <2>4, CopyStays DEF Flying
        <3>2. QED
            BY <1>t, <2>1, <2>2, <3>1 DEF RecordShape
    <2>5. QED
        BY <2>3, <2>4
<1>3. CASE Restart
    BY <1>3 DEF Restart, RecordShape, Flying
<1>4. QED
    BY <1>1, <1>2, <1>3 DEF Next

\* The invariant of a run, with what is known of the records.
THEOREM RecordInvariance == Spec => []RecordInv
<1>1. Init => \A n \in Msgs : RecordShape(n)
    BY DEF Init, RecordShape, Flying
<1>2. RecordInv /\ [Next]_vars => (\A n \in Msgs : RecordShape(n))'
    BY RecordShapeStep
<1>3. AirInv /\ (\A n \in Msgs : RecordShape(n)) <=> RecordInv
    BY DEF RecordInv
<1>4. QED
    BY <1>1, <1>2, <1>3, AirInvariance, PTL DEF Spec

\* A record goes only by the user's delete, by a resend whose copy is recorded, or with
\* an error before its send is settled (send_direct_message_to_contact).
THEOREM RecordIsKept == Spec => RecordKept
<1>1. RecordInv /\ [Next]_vars =>
          [\A m \in Msgs :
             Exists(m) /\ row'[m] = NoRow =>
                 \/ del[m] = "marked"
                 \/ \E n \in Msgs : resend[n] = "drop" /\ replaces[n] = m /\ CopyTaken(n)
                 \/ row[m].status = "pending" /\ (pc[m] = "refused" \/ dbFaults' > dbFaults)]_vars
    <2> SUFFICES ASSUME RecordInv, [Next]_vars, NEW m \in Msgs, Exists(m), row'[m] = NoRow
                 PROVE  \/ del[m] = "marked"
                        \/ \E n \in Msgs : resend[n] = "drop" /\ replaces[n] = m /\ CopyTaken(n)
                        \/ /\ row[m].status = "pending"
                           /\ pc[m] = "refused" \/ dbFaults' > dbFaults
        OBVIOUS
    <2>1. ~Exists(m)'
        BY DEF Exists, NoRow
    <2>2. \A n \in Msgs : resend[n] = "drop" => CopyTaken(n)
        BY DEF RecordInv, RecordShape
    <2>3. QED
        BY <2>1, <2>2, RowDrops DEF RecordInv
<1>2. QED
    BY <1>1, RecordInvariance, PTL DEF Spec, RecordKept

\* A deleted message whose task is at attempt k: the attempt may still go on, then the
\* task sleeps once and is over.
Over == {"verdict", "hold", "ended"}
Stopping(m, k) ==
    \/ attempt[m] = k /\ ((m \in deleted /\ pc[m] # "unsent") \/ pc[m] \in Over)
    \/ attempt[m] = k + 1 /\ ((m \in deleted /\ pc[m] = "sleep") \/ pc[m] \in Over)
NoneAfter(m, k) == \A c \in air \cap CodesOf(m) : c[2] <= k

\* A message that is stopping keeps stopping.
LEMMA StoppingStep ==
    ASSUME TypeOK, [Next]_vars, NEW m \in Msgs, NEW k \in 0 .. MaxAttempts,
           Stopping(m, k), NoneAfter(m, k)
    PROVE  Stopping(m, k)' /\ NoneAfter(m, k)'
<1> USE AttemptsAssumption
<1> USE DEF taskVars, requestVars, trackerVars, worldVars, faultVars, Goto
<1>1. CASE \E x \in Msgs : SendStep(x) \/ RetryStep(x) \/ FailStep(x) \/ UserStep(x)
    <2>1. PICK x \in Msgs : SendStep(x) \/ RetryStep(x) \/ FailStep(x) \/ UserStep(x)
        BY <1>1
    <2>2. UNCHANGED deleted
        BY <2>1, OthersWait
    <2>3. Stopping(m, k)'
        <3>1. CASE x # m
            <4>1. pc'[m] = pc[m] /\ attempt'[m] = attempt[m]
                BY <2>1, <3>1, OthersWait
            <4>2. QED
                BY <2>2, <4>1 DEF Stopping
        <3>2. CASE x = m /\ SendStep(m)
            <4>1. /\ attempt[m] = k /\ m \in deleted /\ pc'[m] # "unsent"
                  /\ attempt'[m] = attempt[m] \/ (attempt'[m] = attempt[m] + 1 /\ pc'[m] = "sleep")
                BY <3>2
                DEF SendStep, Acquire, Store, Transmit, Return, Answers, Confirm, SettleSilent,
                    SettleRefused, Track, CountOwnAck, NextAttempt, TypeOK, Stopping, Over
            <4>2. QED
                BY <2>2, <4>1 DEF Stopping
        <3>3. CASE x = m /\ RetryStep(m)
            BY <2>2, <3>3
            DEF RetryStep, Wake, GivesUp, Recheck, LastWake, MarkFailed, HoldFailed, NextAttempt,
                TypeOK, Stopping, Over
        <3>4. CASE x = m /\ (FailStep(m) \/ UserStep(m))
            BY <2>2, <3>4
            DEF FailStep, AbortSend, ConfirmFails, RetryNoRadio, UserStep, StartSend, StartResend,
                DeleteFind, NextAttempt, TypeOK, Stopping, Over
        <3>5. QED
            BY <2>1, <3>1, <3>2, <3>3, <3>4
    <2>4. NoneAfter(m, k)'
        <3>1. CASE Transmit(x)
            <4>1. air' \subseteq air \cup {<<x, attempt[x]>>} /\ pc[x] = "transmit"
                BY <3>1 DEF Transmit, Code
            <4>2. x = m => attempt[m] = k
                BY <4>1 DEF Stopping, Over
            <4>3. QED
                BY <4>1, <4>2 DEF NoneAfter, CodesOf
        <3>2. CASE ~Transmit(x)
            <4>1. air' = air
                BY <2>1, <3>2
                DEF SendStep, Acquire, Store, Return, Confirm, SettleSilent, SettleRefused, Track,
                    CountOwnAck, RetryStep, Wake, Recheck, LastWake, MarkFailed, HoldFailed,
                    FailStep, AbortSend, ConfirmFails, RetryNoRadio, UserStep, StartSend,
                    StartResend, DeleteFind
            <4>2. QED
                BY <4>1 DEF NoneAfter
        <3>3. QED
            BY <3>1, <3>2
    <2>5. QED
        BY <2>3, <2>4
<1>2. CASE \/ \E x \in Msgs : RequestStep(x) \/ CountAck(x)
           \/ \E c \in Codes : HearAck(c)
           \/ UNCHANGED vars
    <2>1. UNCHANGED <<pc, attempt, air>> /\ deleted \subseteq deleted'
        BY <1>2
        DEF RequestStep, DeleteMark, DeleteRow, ResendClear, ResendDrop, CountAck, HearAck, vars
    <2>2. QED
        BY <2>1 DEF Stopping, NoneAfter
<1>3. CASE Restart
    <2>1. attempt' = attempt /\ air' = air /\ (pc[m] # "unsent" => pc'[m] = "ended")
        BY <1>3 DEF Restart
    <2>2. QED
        BY <2>1 DEF Stopping, NoneAfter, Over
<1>4. QED
    BY <1>1, <1>2, <1>3 DEF Next

\* Once a message is marked as deleted, only the attempt its task is at can still go on
\* air (delete_message against _retry_direct_message_until_acked).
THEOREM DeletesStopRetries == Spec => DeleteStopsRetries
<1>1. ASSUME NEW m \in Msgs, NEW k \in 0 .. MaxAttempts
      PROVE  Spec => []( m \in deleted /\ attempt[m] = k
                         => [](\A c \in air \cap CodesOf(m) : c[2] <= k) )
    <2>1. RecordInv /\ m \in deleted /\ attempt[m] = k => Stopping(m, k) /\ NoneAfter(m, k)
        <3> SUFFICES ASSUME RecordInv, m \in deleted, attempt[m] = k
                     PROVE  Stopping(m, k) /\ NoneAfter(m, k)
            OBVIOUS
        <3>1. pc[m] # "unsent"
            BY DEF RecordInv, RecordShape
        <3>2. \A i \in 0 .. MaxAttempts - 1 : <<m, i>> \in air => i <= k
            <4>1. \A i \in 0 .. MaxAttempts - 1 : <<m, i>> \in air => i < k \/ i = k
                BY DEF RecordInv, AirInv, AirShape
            <4>2. QED
                BY <4>1, AttemptsAssumption
        <3>3. QED
            BY <3>1, <3>2 DEF Stopping, NoneAfter, CodesOf
    <2>2. RecordInv => TypeOK
        BY DEF RecordInv, AirInv, IInv
    <2>3. TypeOK /\ (Stopping(m, k) /\ NoneAfter(m, k)) /\ [Next]_vars
              => (Stopping(m, k) /\ NoneAfter(m, k))'
        BY StoppingStep
    <2>4. Stopping(m, k) /\ NoneAfter(m, k) => \A c \in air \cap CodesOf(m) : c[2] <= k
        BY DEF NoneAfter
    <2>5. QED
        BY <2>1, <2>2, <2>3, <2>4, RecordInvariance, PTL DEF Spec
<1>2. QED
    BY <1>1 DEF DeleteStopsRetries

-----------------------------------------------------------------------------
(* The ACK of the latest attempt.                                          *)

Settled == {"hold", "ended"}
HeardOnAir == \A c \in Codes : heard[c] > 0 => c \in air

\* The tracker and the task know codes of past attempts only; the code of the present
\* attempt is the task's own only once its ACK was there before it.
Registered(m) ==
    \A i \in 0 .. MaxAttempts - 1 :
        /\ <<m, i>> \in pending \cup failedAcks => i < attempt[m]
        /\ <<m, i>> \in held[m] => i < attempt[m] \/ pc[m] \in {"matched", "ended"}

\* A failed message has stopped retrying, and a resend replaces one that has.
FailedOver(m) ==
    /\ row[m].failed => pc[m] \in Settled
    /\ resend[m] # "no" => replaces[m] \in Msgs /\ pc[replaces[m]] \in Settled

\* What may have become of an ACK that was heard.
Claimed(m) == acking[m] > 0 \/ IsAcked(m) \/ ~Exists(m) \/ m \in deleted

\* An ACK that is early is kept until its code is registered, and the code of the latest
\* attempt stays registered for as long as no ACK claimed it.
AckShape(m) ==
    /\ pc[m] \in {"returning", "code", "track"} /\ heard[Code(m)] > 0 => Code(m) \in buffered
    /\ pc[m] = "sleep" /\ Latest(m) \in held[m] /\ ~Claimed(m)
       => Latest(m) \in pending /\ heard[Latest(m)] = 0

AckFacts == HeardOnAir /\ \A m \in Msgs : Registered(m) /\ FailedOver(m) /\ AckShape(m)
AckInv == AirInv /\ AckFacts

\* Only what went on air is heard.
LEMMA HeardStep == ASSUME AckInv, [Next]_vars PROVE HeardOnAir'
<1>t. HeardOnAir /\ TypeOK
    BY DEF AckInv, AckFacts, AirInv, IInv
<1>1. CASE heard' = heard /\ air \subseteq air'
    BY <1>t, <1>1 DEF HeardOnAir
<1>2. ASSUME NEW c \in Codes, HearAck(c) PROVE HeardOnAir'
    <2>1. air' = air /\ c \in air /\ \A d \in Codes : d # c => heard'[d] = heard[d]
        BY <1>t, <1>2 DEF HearAck, TypeOK
    <2>2. QED
        BY <1>t, <2>1 DEF HeardOnAir
<1>3. CASE \E m \in Msgs : SendStep(m) \/ RetryStep(m)
    <2>1. heard' = heard /\ air \subseteq air'
        BY <1>3
        DEF worldVars, SendStep, Acquire, Store, Transmit, Return, Confirm, SettleSilent,
            SettleRefused, Track, CountOwnAck, RetryStep, Wake, Recheck, LastWake, MarkFailed,
            HoldFailed
    <2>2. QED
        BY <1>1, <2>1
<1>4. CASE \/ \E m \in Msgs : RequestStep(m) \/ CountAck(m) \/ FailStep(m) \/ UserStep(m)
           \/ Restart \/ UNCHANGED vars
    <2>1. heard' = heard /\ air \subseteq air'
        BY <1>4
        DEF worldVars, vars, RequestStep, DeleteMark, DeleteRow, ResendClear, ResendDrop, CountAck,
            FailStep, AbortSend, ConfirmFails, RetryNoRadio, UserStep, StartSend, StartResend,
            DeleteFind, Restart
    <2>2. QED
        BY <1>1, <2>1
<1>5. QED
    BY <1>2, <1>3, <1>4 DEF Next

\* A task that has stopped retrying does not start again.
LEMMA SettledStays ==
    ASSUME TypeOK, [Next]_vars, NEW x \in Msgs, pc[x] \in Settled
    PROVE  pc'[x] \in Settled
<1> USE DEF taskVars, requestVars, trackerVars, worldVars, faultVars, Goto, Settled
<1>1. CASE \E m \in Msgs : SendStep(m)
    <2>1. PICK m \in Msgs : SendStep(m)
        BY <1>1
    <2>2. x # m /\ pc'[x] = pc[x]
        BY <2>1
        DEF SendStep, Acquire, Store, Transmit, Return, Confirm, SettleSilent, SettleRefused,
            Track, CountOwnAck, NextAttempt, TypeOK
    <2>3. QED
        BY <2>2
<1>2. CASE \E m \in Msgs : RetryStep(m)
    <2>1. PICK m \in Msgs : RetryStep(m)
        BY <1>2
    <2>2. pc'[x] = pc[x] \/ pc'[x] = "ended"
        BY <2>1
        DEF RetryStep, Wake, Recheck, LastWake, MarkFailed, HoldFailed, NextAttempt, TypeOK
    <2>3. QED
        BY <2>2
<1>3. CASE \E m \in Msgs : FailStep(m) \/ UserStep(m)
    <2>1. PICK m \in Msgs : FailStep(m) \/ UserStep(m)
        BY <1>3
    <2>2. pc'[x] = pc[x]
        BY <2>1
        DEF FailStep, AbortSend, ConfirmFails, RetryNoRadio, UserStep, StartSend, StartResend,
            DeleteFind, NextAttempt, TypeOK
    <2>3. QED
        BY <2>2
<1>4. CASE \/ \E m \in Msgs : RequestStep(m) \/ CountAck(m)
           \/ \E c \in Codes : HearAck(c)
           \/ UNCHANGED vars
    <2>1. UNCHANGED pc
        BY <1>4
        DEF RequestStep, DeleteMark, DeleteRow, ResendClear, ResendDrop, CountAck, HearAck, vars
    <2>2. QED
        BY <2>1
<1>5. CASE Restart
    BY <1>5 DEF Restart
<1>6. QED
    BY <1>1, <1>2, <1>3, <1>4, <1>5 DEF Next

\* Only the verdict of the retry task marks a row failed.
LEMMA FailedComes ==
    ASSUME TypeOK, [Next]_vars, NEW x \in Msgs, row'[x].failed
    PROVE  row[x].failed \/ pc'[x] = "hold"
<1>1. ASSUME NEW m \in Msgs, Store(m) PROVE row[x].failed
    BY <1>1 DEF Store, NewRow, TypeOK
<1>2. ASSUME NEW m \in Msgs, NEW s \in {"confirmed", "unknown"}, UpdateStatus(m, s)
      PROVE  row[x].failed
    BY <1>2 DEF UpdateStatus, Update, NoRow, TypeOK, Row
<1>3. ASSUME NEW m \in Msgs, IncrementAck(m) PROVE row[x].failed
    BY <1>3 DEF IncrementAck, Update, NoRow, TypeOK
<1>4. ASSUME NEW m \in Msgs, DropRow(m) PROVE row[x].failed
    BY <1>4 DEF DropRow, NoRow, TypeOK
<1>5. ASSUME NEW m \in Msgs, MarkFailed(m) PROVE row[x].failed \/ pc'[x] = "hold"
    BY <1>5 DEF MarkFailed, Goto, TypeOK, Row
<1>6. ASSUME NEW m \in Msgs, ResendDrop(m) PROVE row[x].failed
    BY <1>6 DEF ResendDrop, DropRow, NoRow, TypeOK
<1>7. ASSUME Restart PROVE row[x].failed
    BY <1>7 DEF Restart, MarkPendingUnknown, TypeOK, Row
<1>8. ASSUME UNCHANGED row PROVE row[x].failed
    BY <1>8
<1>9. CASE \E m \in Msgs : SendStep(m)
    BY <1>1, <1>2, <1>3, <1>4, <1>8, <1>9
    DEF SendStep, Acquire, Transmit, Return, Confirm, SettleSilent, SettleRefused, Track,
        CountOwnAck
<1>10. CASE \E m \in Msgs : RetryStep(m) \/ CountAck(m)
    BY <1>3, <1>5, <1>8, <1>10
    DEF RetryStep, Wake, Recheck, LastWake, HoldFailed, CountAck
<1>11. CASE \E m \in Msgs : RequestStep(m)
    BY <1>4, <1>6, <1>8, <1>11 DEF RequestStep, DeleteMark, DeleteRow, ResendClear
<1>12. CASE \E m \in Msgs : FailStep(m) \/ UserStep(m)
    BY <1>4, <1>8, <1>12
    DEF FailStep, AbortSend, ConfirmFails, RetryNoRadio, UserStep, StartSend, StartResend,
        DeleteFind
<1>13. CASE (\E c \in Codes : HearAck(c)) \/ UNCHANGED vars
    BY <1>8, <1>13 DEF HearAck, vars
<1>14. QED
    BY <1>7, <1>9, <1>10, <1>11, <1>12, <1>13 DEF Next

\* A resend comes from the request for a failed message, and keeps its message.
LEMMA ResendComes ==
    ASSUME TypeOK, [Next]_vars, NEW x \in Msgs, resend'[x] # "no"
    PROVE  \/ resend[x] # "no" /\ replaces'[x] = replaces[x]
           \/ replaces'[x] \in Msgs /\ row[replaces'[x]].failed
<1> USE DEF taskVars, requestVars, trackerVars, worldVars, faultVars
<1>1. CASE UNCHANGED <<resend, replaces>>
    BY <1>1
<1>2. CASE \E m \in Msgs : SendStep(m) \/ FailStep(m)
    <2>1. PICK m \in Msgs : SendStep(m) \/ FailStep(m)
        BY <1>2
    <2>2. replaces' = replaces
        BY <2>1
        DEF SendStep, Acquire, Store, Transmit, Return, Confirm, SettleSilent, SettleRefused,
            Track, CountOwnAck, FailStep, AbortSend, ConfirmFails, RetryNoRadio
    <2>3. resend' = resend \/ RequestOver(m, TRUE) \/ RequestOver(m, FALSE)
        BY <2>1
        DEF SendStep, Acquire, Store, Transmit, Return, Confirm, SettleSilent, SettleRefused,
            Track, CountOwnAck, FailStep, AbortSend, ConfirmFails, RetryNoRadio
    <2>4. resend[x] # "no"
        BY <2>3 DEF RequestOver, TypeOK
    <2>5. QED
        BY <2>2, <2>4
<1>3. CASE \E m \in Msgs : RequestStep(m)
    <2>1. PICK m \in Msgs : RequestStep(m)
        BY <1>3
    <2>2. replaces' = replaces /\ resend[x] # "no"
        BY <2>1 DEF RequestStep, DeleteMark, DeleteRow, ResendClear, ResendDrop, TypeOK
    <2>3. QED
        BY <2>2
<1>4. CASE \E m \in Msgs : UserStep(m)
    <2>1. PICK m \in Msgs : UserStep(m)
        BY <1>4
    <2>2. CASE StartSend(m) \/ DeleteFind(m)
        BY <1>1, <2>2 DEF StartSend, DeleteFind
    <2>3. ASSUME NEW o \in Msgs, StartResend(o, m)
          PROVE  \/ resend[x] # "no" /\ replaces'[x] = replaces[x]
                 \/ replaces'[x] \in Msgs /\ row[replaces'[x]].failed
        BY <2>3 DEF StartResend, TypeOK
    <2>4. QED
        BY <2>1, <2>2, <2>3 DEF UserStep
<1>5. CASE \/ \E m \in Msgs : RetryStep(m) \/ CountAck(m)
           \/ \E c \in Codes : HearAck(c)
           \/ UNCHANGED vars
    BY <1>1, <1>5
    DEF RetryStep, Wake, Recheck, LastWake, MarkFailed, HoldFailed, CountAck, HearAck, vars
<1>6. CASE Restart
    BY <1>6 DEF Restart
<1>7. QED
    BY <1>2, <1>3, <1>4, <1>5, <1>6 DEF Next

\* Failed messages and messages that are replaced have stopped retrying.
LEMMA FailedOverStep ==
    ASSUME AckInv, [Next]_vars
    PROVE  \A x \in Msgs : FailedOver(x)'
<1> TAKE x \in Msgs
<1>t. TypeOK /\ \A m \in Msgs : FailedOver(m)
    BY DEF AckInv, AckFacts, AirInv, IInv
<1>1. row'[x].failed => pc'[x] \in Settled
    <2> HAVE row'[x].failed
    <2>1. row[x].failed \/ pc'[x] = "hold"
        BY <1>t, FailedComes
    <2>2. CASE row[x].failed
        BY <1>t, <2>2, SettledStays DEF FailedOver
    <2>3. CASE pc'[x] = "hold"
        BY <2>3 DEF Settled
    <2>4. QED
        BY <2>1, <2>2, <2>3
<1>2. resend'[x] # "no" => replaces'[x] \in Msgs /\ pc'[replaces'[x]] \in Settled
    <2> HAVE resend'[x] # "no"
    <2>1. replaces'[x] \in Msgs /\ pc[replaces'[x]] \in Settled
        BY <1>t, ResendComes DEF FailedOver
    <2>2. QED
        BY <1>t, <2>1, SettledStays
<1>3. QED
    BY <1>1, <1>2 DEF FailedOver

\* Attempts are counted upwards, and a task that found its ACK only ends.
LEMMA TaskMovesOn ==
    ASSUME TypeOK, [Next]_vars, NEW x \in Msgs
    PROVE  /\ attempt'[x] = attempt[x] \/ attempt'[x] = attempt[x] + 1
           /\ pc[x] \in {"matched", "ended"} => pc'[x] \in {"matched", "ended"}
<1> USE DEF taskVars, requestVars, trackerVars, worldVars, faultVars, Goto
<1>1. ASSUME NEW m \in Msgs, Return(m)
      PROVE  /\ attempt'[x] = attempt[x] \/ attempt'[x] = attempt[x] + 1
             /\ pc[x] \in {"matched", "ended"} => pc'[x] \in {"matched", "ended"}
    BY <1>1 DEF Return, NextAttempt, TypeOK
<1>2. ASSUME NEW m \in Msgs, Recheck(m) \/ RetryNoRadio(m)
      PROVE  /\ attempt'[x] = attempt[x] \/ attempt'[x] = attempt[x] + 1
             /\ pc[x] \in {"matched", "ended"} => pc'[x] \in {"matched", "ended"}
    BY <1>2 DEF Recheck, RetryNoRadio, NextAttempt, TypeOK
<1>3. ASSUME NEW m \in Msgs, Track(m)
      PROVE  /\ attempt'[x] = attempt[x] \/ attempt'[x] = attempt[x] + 1
             /\ pc[x] \in {"matched", "ended"} => pc'[x] \in {"matched", "ended"}
    <2>1. CASE Code(m) \in buffered
        BY <1>3, <2>1 DEF Track, TypeOK
    <2>2. CASE Code(m) \notin buffered
        <3>1. pc[m] = "track" /\ NextAttempt(m)
            BY <1>3, <2>2 DEF Track
        <3>2. QED
            BY <3>1 DEF NextAttempt, TypeOK
    <2>3. QED
        BY <2>1, <2>2
<1>4. CASE \E m \in Msgs : SendStep(m)
    <2>1. PICK m \in Msgs : SendStep(m)
        BY <1>4
    <2>2. CASE Return(m) \/ Track(m)
        BY <1>1, <1>3, <2>2
    <2>3. CASE ~Return(m) /\ ~Track(m)
        BY <2>1, <2>3
        DEF SendStep, Acquire, Store, Transmit, Confirm, SettleSilent, SettleRefused,
            CountOwnAck, TypeOK
    <2>4. QED
        BY <2>2, <2>3
<1>5. CASE \E m \in Msgs : RetryStep(m) \/ FailStep(m) \/ UserStep(m)
    <2>1. PICK m \in Msgs : RetryStep(m) \/ FailStep(m) \/ UserStep(m)
        BY <1>5
    <2>2. CASE Recheck(m) \/ RetryNoRadio(m)
        BY <1>2, <2>2
    <2>3. CASE ~Recheck(m) /\ ~RetryNoRadio(m)
        BY <2>1, <2>3
        DEF RetryStep, Wake, LastWake, MarkFailed, HoldFailed, FailStep, AbortSend,
            ConfirmFails, UserStep, StartSend, StartResend, DeleteFind, TypeOK
    <2>4. QED
        BY <2>2, <2>3
<1>6. CASE \/ \E m \in Msgs : RequestStep(m) \/ CountAck(m)
           \/ \E c \in Codes : HearAck(c)
           \/ UNCHANGED vars
    <2>1. UNCHANGED <<pc, attempt>>
        BY <1>6
        DEF RequestStep, DeleteMark, DeleteRow, ResendClear, ResendDrop, CountAck, HearAck, vars
    <2>2. QED
        BY <2>1
<1>7. CASE Restart
    BY <1>7 DEF Restart
<1>8. QED
    BY <1>4, <1>5, <1>6, <1>7 DEF Next

\* Where no code is registered, what is known of the codes of a message stays.
LEMMA LocalRegistered ==
    ASSUME NEW x \in Msgs, TypeOK, [Next]_vars, Registered(x), held'[x] = held[x],
           (pending' \cup failedAcks') \cap CodesOf(x) \subseteq pending \cup failedAcks
    PROVE  Registered(x)'
<1>1. /\ attempt[x] \in Nat
      /\ attempt'[x] = attempt[x] \/ attempt'[x] = attempt[x] + 1
      /\ pc[x] \in {"matched", "ended"} => pc'[x] \in {"matched", "ended"}
    BY TaskMovesOn, AttemptsAssumption DEF TypeOK
<1>2. \A i \in 0 .. MaxAttempts - 1 :
          <<x, i>> \in pending' \cup failedAcks' => <<x, i>> \in pending \cup failedAcks
    BY DEF CodesOf
<1>3. ASSUME NEW i \in 0 .. MaxAttempts - 1
      PROVE  i < attempt[x] => i < attempt'[x]
    BY <1>1, <1>3, AttemptsAssumption
<1>4. QED
    BY <1>1, <1>2, <1>3 DEF Registered

\* The codes that are registered are codes of past attempts.
LEMMA RegisteredStep ==
    ASSUME AckInv, [Next]_vars
    PROVE  \A x \in Msgs : Registered(x)'
<1> USE DEF taskVars, requestVars, trackerVars, worldVars, faultVars, Goto
<1>t. TypeOK /\ \A m \in Msgs : Registered(m)
    BY DEF AckInv, AckFacts, AirInv, IInv
<1>1. CASE held' = held /\ pending' \cup failedAcks' \subseteq pending \cup failedAcks
    BY <1>t, <1>1, LocalRegistered
<1>2. ASSUME NEW m \in Msgs, Track(m) PROVE \A x \in Msgs : Registered(x)'
    <2>1. Registered(m)'
        <3>1. pc[m] = "track" /\ held'[m] = held[m] \cup {Code(m)} /\ attempt[m] \in 0 .. MaxAttempts
            BY <1>t, <1>2 DEF Track, TypeOK
        <3>2. CASE Code(m) \in buffered
            <4>1. /\ pc'[m] = "matched" /\ attempt'[m] = attempt[m]
                  /\ pending' \subseteq pending /\ failedAcks' \subseteq failedAcks
                BY <1>t, <1>2, <3>2 DEF Track, ClearCodes, TypeOK
            <4>2. QED
                BY <1>t, <3>1, <4>1 DEF Registered
        <3>3. CASE Code(m) \notin buffered
            <4>1. /\ attempt'[m] = attempt[m] + 1
                  /\ pending' = pending \cup {<<m, attempt[m]>>} /\ failedAcks' = failedAcks
                BY <1>t, <1>2, <3>3 DEF Track, NextAttempt, TypeOK, Code
            <4>2. ASSUME NEW i \in 0 .. MaxAttempts - 1
                  PROVE  /\ i < attempt[m] => i < attempt'[m]
                         /\ i = attempt[m] => i < attempt'[m]
                BY <3>1, <4>1, <4>2, AttemptsAssumption
            <4>3. \A i \in 0 .. MaxAttempts - 1 :
                      /\ <<m, i>> \in pending' \cup failedAcks' =>
                             <<m, i>> \in pending \cup failedAcks \/ i = attempt[m]
                      /\ <<m, i>> \in held'[m] => <<m, i>> \in held[m] \/ i = attempt[m]
                BY <3>1, <4>1 DEF Code
            <4>4. QED
                BY <1>t, <3>1, <4>2, <4>3 DEF Registered
        <3>4. QED
            BY <3>2, <3>3
    <2>2. ASSUME NEW x \in Msgs, x # m PROVE Registered(x)'
        <3>1. held'[x] = held[x]
            BY <1>t, <1>2, <2>2 DEF Track, TypeOK
        <3>2. pending' \cup failedAcks' \subseteq pending \cup failedAcks \cup CodesOf(m)
            BY <1>t, <1>2, CodeInCodes DEF Track, ClearCodes, AckInv, AirInv, IInv, Shape,
               AttemptInRange
        <3>3. (pending' \cup failedAcks') \cap CodesOf(x) \subseteq pending \cup failedAcks
            BY <2>2, <3>2, CodesApart
        <3>4. QED
            BY <1>t, <3>1, <3>3, LocalRegistered
    <2>3. QED
        BY <2>1, <2>2
<1>3. ASSUME NEW m \in Msgs, HoldFailed(m) PROVE \A x \in Msgs : Registered(x)'
    <2>0. held[m] \subseteq CodesOf(m)
        BY DEF AckInv, AckFacts, AirInv, IInv, Shape, AttemptInRange
    <2>1. Registered(m)'
        <3>1. /\ pc[m] = "hold" /\ pc'[m] = "ended" /\ attempt' = attempt /\ held' = held
              /\ pending' \subseteq pending /\ failedAcks' = failedAcks \cup held[m]
            BY <1>t, <1>3 DEF HoldFailed, TypeOK
        <3>2. QED
            BY <1>t, <3>1 DEF Registered
    <2>2. ASSUME NEW x \in Msgs, x # m PROVE Registered(x)'
        <3>1. held'[x] = held[x]
            BY <1>3 DEF HoldFailed
        <3>2. (pending' \cup failedAcks') \cap CodesOf(x) \subseteq pending \cup failedAcks
            BY <1>3, <2>0, <2>2, CodesApart DEF HoldFailed
        <3>3. QED
            BY <1>t, <3>1, <3>2, LocalRegistered
    <2>3. QED
        BY <2>1, <2>2
<1>4. ASSUME NEW c \in Codes, HearAck(c) PROVE \A x \in Msgs : Registered(x)'
    <2>1. held' = held /\ pending' \cup failedAcks' \subseteq pending \cup failedAcks
        BY <1>4 DEF HearAck, ClearCodes
    <2>2. QED
        BY <1>1, <2>1
<1>5. CASE Restart
    BY <1>5 DEF Restart, Registered
<1>6. CASE \E m \in Msgs : SendStep(m) \/ RetryStep(m)
    <2>1. PICK m \in Msgs : SendStep(m) \/ RetryStep(m)
        BY <1>6
    <2>2. CASE ~Track(m) /\ ~HoldFailed(m)
        <3>1. UNCHANGED <<held, pending, failedAcks>>
            BY <2>1, <2>2
            DEF SendStep, Acquire, Store, Transmit, Return, Confirm, SettleSilent, SettleRefused,
                CountOwnAck, RetryStep, Wake, Recheck, LastWake, MarkFailed
        <3>2. QED
            BY <1>1, <3>1
    <2>3. QED
        BY <1>2, <1>3, <2>2
<1>7. CASE \/ \E m \in Msgs : RequestStep(m) \/ CountAck(m) \/ FailStep(m) \/ UserStep(m)
           \/ UNCHANGED vars
    <2>1. held' = held /\ pending' \cup failedAcks' \subseteq pending \cup failedAcks
        BY <1>7
        DEF vars, RequestStep, DeleteMark, DeleteRow, ResendClear, ResendDrop, CountAck,
            ClearCodes, FailStep, AbortSend, ConfirmFails, RetryNoRadio, UserStep, StartSend,
            StartResend, DeleteFind
    <2>2. QED
        BY <1>1, <2>1
<1>8. QED
    BY <1>4, <1>5, <1>6, <1>7 DEF Next

\* Steps that leave the task alone and drop neither its early ACK nor its latest code.
LEMMA LocalAck ==
    ASSUME NEW x \in Msgs, AckShape(x),
           pc'[x] = pc[x], attempt'[x] = attempt[x], held'[x] = held[x], heard' = heard,
           Code(x) \in buffered => Code(x) \in buffered',
           pc[x] = "sleep" /\ Latest(x) \in pending => Latest(x) \in pending' \/ Claimed(x)',
           pc[x] = "sleep" /\ Claimed(x) => Claimed(x)'
    PROVE  AckShape(x)'
<1>1. Code(x)' = Code(x) /\ Latest(x)' = Latest(x)
    BY DEF Code, Latest
<1>2. QED
    BY <1>1 DEF AckShape

\* A task that does not go to sleep keeps the early ACK of the attempt under way.
LEMMA AwakeAck ==
    ASSUME NEW x \in Msgs, AckShape(x), heard' = heard, buffered' = buffered, pc'[x] # "sleep",
           pc'[x] \in {"returning", "code", "track"} =>
               pc[x] \in {"returning", "code", "track"} /\ attempt'[x] = attempt[x]
    PROVE  AckShape(x)'
BY DEF AckShape, Code

\* A task that goes to sleep without a code has no code of its latest attempt.
LEMMA NoCodeAck ==
    ASSUME NEW x \in Msgs, TypeOK, Registered(x), attempt[x] < MaxAttempts,
           pc[x] \notin {"matched", "ended"}, held' = held,
           attempt'[x] = attempt[x] + 1, pc'[x] = "sleep"
    PROVE  AckShape(x)'
<1>1. attempt[x] \in 0 .. MaxAttempts - 1
    BY AttemptsAssumption DEF TypeOK
<1>2. <<x, attempt[x]>> \notin held[x]
    BY <1>1 DEF Registered
<1>3. Latest(x)' = <<x, attempt[x]>>
    BY <1>1 DEF Latest
<1>4. QED
    BY <1>2, <1>3 DEF AckShape

\* A claim stays while row, counters and marks of the message do.
LEMMA SameClaim ==
    ASSUME NEW x \in Msgs, Claimed(x), row'[x] = row[x], acking'[x] = acking[x],
           deleted' = deleted
    PROVE  Claimed(x)'
BY DEF Claimed, IsAcked, Exists

\* The codes that an ACK names: the message is one, and the codes of others stay.
LEMMA CodeParts ==
    ASSUME NEW c \in Codes
    PROVE  c[1] \in Msgs /\ c = <<c[1], c[2]>> /\ c \in CodesOf(c[1])
BY DEF Codes, CodesOf

\* Steps of a task that neither send nor touch the tracker.
LEMMA AckTaskStep ==
    ASSUME AckInv, NEW m \in Msgs,
           \/ StartSend(m) \/ Acquire(m) \/ AbortSend(m) \/ Store(m) \/ Confirm(m)
           \/ ConfirmFails(m) \/ SettleSilent(m) \/ SettleRefused(m) \/ CountOwnAck(m)
           \/ Wake(m) \/ LastWake(m) \/ MarkFailed(m)
           \/ \E o \in Msgs : StartResend(o, m)
    PROVE  \A x \in Msgs : AckShape(x)'
<1> USE DEF taskVars, requestVars, trackerVars, worldVars, faultVars, Goto
<1>t. TypeOK /\ \A x \in Msgs : AckShape(x)
    BY DEF AckInv, AckFacts, AirInv, IInv
<1>1. UNCHANGED <<heard, buffered, pending, deleted, acking, held, attempt>>
    BY DEF StartSend, Acquire, AbortSend, Store, Confirm, ConfirmFails, SettleSilent,
           SettleRefused, CountOwnAck, Wake, LastWake, MarkFailed, StartResend
<1>2. AckShape(m)'
    <2>1. /\ pc'[m] # "sleep"
          /\ pc'[m] \in {"returning", "code", "track"} => pc[m] \in {"returning", "code", "track"}
        BY <1>t
        DEF StartSend, Acquire, AbortSend, Store, Confirm, ConfirmFails, SettleSilent,
            SettleRefused, CountOwnAck, Wake, LastWake, MarkFailed, StartResend, TypeOK
    <2>2. QED
        BY <1>t, <1>1, <2>1, AwakeAck
<1>3. ASSUME NEW x \in Msgs, x # m PROVE AckShape(x)'
    <2>1. pc'[x] = pc[x]
        BY <1>t, <1>3
        DEF StartSend, Acquire, AbortSend, Store, Confirm, ConfirmFails, SettleSilent,
            SettleRefused, CountOwnAck, Wake, LastWake, MarkFailed, StartResend, TypeOK
    <2>2. row'[x] = row[x]
        BY <1>t, <1>3
        DEF StartSend, Acquire, AbortSend, Store, Confirm, ConfirmFails, SettleSilent,
            SettleRefused, CountOwnAck, Wake, LastWake, MarkFailed, StartResend,
            UpdateStatus, Update, DropRow, IncrementAck, TypeOK
    <2>3. Claimed(x) => Claimed(x)'
        BY <1>1, <2>2, SameClaim
    <2>4. QED
        BY <1>t, <1>1, <2>1, <2>3, LocalAck
<1>4. QED
    BY <1>2, <1>3

\* Steps in which the radio answers or is gone.
LEMMA AckRadioStep ==
    ASSUME AckInv, NEW m \in Msgs,
           Transmit(m) \/ Return(m) \/ RetryNoRadio(m) \/ Recheck(m)
    PROVE  \A x \in Msgs : AckShape(x)'
<1> USE DEF taskVars, requestVars, trackerVars, worldVars, faultVars, Goto
<1>t. /\ TypeOK /\ HeardOnAir
      /\ \A x \in Msgs : AckShape(x) /\ Registered(x) /\ AirShape(x) /\ AttemptInRange(x)
    BY DEF AckInv, AckFacts, AirInv, IInv, Shape
<1>1. UNCHANGED <<row, heard, buffered, pending, deleted, acking, held>>
    BY DEF Transmit, Return, RetryNoRadio, Recheck
<1>2. attempt[m] \in 0 .. MaxAttempts - 1 /\ pc[m] \in {"transmit", "returning", "waitRadio", "code", "nocode"}
    BY <1>t, AttemptsAssumption DEF Transmit, Return, RetryNoRadio, Recheck, TypeOK, AttemptInRange
<1>3. AckShape(m)'
    <2>1. CASE NextAttempt(m)
        <3>1. attempt'[m] = attempt[m] + 1 /\ pc'[m] = "sleep"
            BY <1>t, <2>1 DEF NextAttempt, TypeOK
        <3>2. QED
            BY <1>t, <1>1, <1>2, <3>1, NoCodeAck, AttemptsAssumption
    <2>2. CASE Transmit(m)
        <3>1. /\ pc[m] = "transmit" /\ pc'[m] = "returning" /\ attempt'[m] = attempt[m]
            BY <1>t, <2>2 DEF Transmit, TypeOK
        <3>2. Code(m) \in Codes /\ Code(m) \notin air
            <4>1. <<m, attempt[m]>> \in air => attempt[m] < attempt[m] \/ pc[m] \in Sent
                BY <1>t, <1>2 DEF AirShape
            <4>2. <<m, attempt[m]>> \notin air
                BY <1>2, <3>1, <4>1 DEF Sent
            <4>3. QED
                BY <1>2, <4>2 DEF Code, Codes
        <3>3. ~(heard[Code(m)] > 0)
            BY <1>t, <3>2 DEF HeardOnAir
        <3>4. QED
            BY <1>1, <3>1, <3>3 DEF AckShape, Code
    <2>3. CASE attempt' = attempt
        <3>1. CASE pc[m] \in {"returning", "code"} /\ pc'[m] # "sleep"
            BY <1>t, <1>1, <2>3, <3>1, AwakeAck
        <3>2. CASE pc'[m] = "ended"
            BY <1>t, <1>1, <2>3, <3>2, AwakeAck
        <3>3. CASE Return(m) \/ Recheck(m)
            <4>1. (pc[m] \in {"returning", "code"} /\ pc'[m] # "sleep") \/ pc'[m] = "ended"
                BY <1>t, <1>2, <2>3, <3>3 DEF Return, Answers, Recheck, NextAttempt, TypeOK
            <4>2. QED
                BY <3>1, <3>2, <4>1
        <3>4. CASE RetryNoRadio(m)
            BY <2>1, <3>4 DEF RetryNoRadio
        <3>5. QED
            BY <2>2, <3>3, <3>4
    <2>4. NextAttempt(m) \/ Transmit(m) \/ attempt' = attempt
        BY DEF Return, RetryNoRadio, Recheck
    <2>5. QED
        BY <2>1, <2>2, <2>3, <2>4
<1>4. ASSUME NEW x \in Msgs, x # m PROVE AckShape(x)'
    <2>1. pc'[x] = pc[x] /\ attempt'[x] = attempt[x]
        <3>1. CASE Return(m)
            BY <1>t, <1>4, <3>1 DEF Return, NextAttempt, TypeOK
        <3>2. CASE Transmit(m) \/ RetryNoRadio(m) \/ Recheck(m)
            BY <1>t, <1>4, <3>2 DEF Transmit, RetryNoRadio, Recheck, NextAttempt, TypeOK
        <3>3. QED
            BY <3>1, <3>2
    <2>2. Claimed(x) => Claimed(x)'
        BY <1>1, SameClaim
    <2>3. QED
        BY <1>t, <1>1, <2>1, <2>2, LocalAck
<1>5. QED
    BY <1>3, <1>4

\* A code is registered, or its ACK was there before; the failed codes are put away.
LEMMA AckTrackStep ==
    ASSUME AckInv, NEW m \in Msgs, Track(m) \/ HoldFailed(m)
    PROVE  \A x \in Msgs : AckShape(x)'
<1> USE DEF taskVars, requestVars, trackerVars, worldVars, faultVars, Goto
<1>t. /\ TypeOK
      /\ \A x \in Msgs : AckShape(x) /\ Registered(x) /\ AttemptInRange(x)
    BY DEF AckInv, AckFacts, AirInv, IInv, Shape
<1>1. UNCHANGED <<row, heard, deleted, acking>>
    BY DEF Track, HoldFailed
<1>2. AckShape(m)'
    <2>1. CASE HoldFailed(m)
        <3>1. pc'[m] = "ended"
            BY <1>t, <2>1 DEF HoldFailed, TypeOK
        <3>2. QED
            BY <3>1 DEF AckShape
    <2>2. CASE Track(m) /\ Code(m) \in buffered
        <3>1. pc'[m] = "matched"
            BY <1>t, <2>2 DEF Track, TypeOK
        <3>2. QED
            BY <3>1 DEF AckShape
    <2>3. CASE Track(m) /\ Code(m) \notin buffered
        <3>1. /\ pc[m] = "track" /\ pc'[m] = "sleep" /\ attempt'[m] = attempt[m] + 1
              /\ pending' = pending \cup {Code(m)}
            BY <1>t, <2>3 DEF Track, NextAttempt, TypeOK
        <3>2. attempt[m] \in 0 .. MaxAttempts - 1
            BY <1>t, <3>1, AttemptsAssumption DEF TypeOK, AttemptInRange
        <3>3. Code(m) \in Codes /\ Latest(m)' = Code(m)
            BY <3>1, <3>2 DEF Latest, Code, Codes
        <3>4. heard[Code(m)] = 0
            <4>1. ~(heard[Code(m)] > 0)
                BY <1>t, <2>3, <3>1 DEF AckShape
            <4>2. heard[Code(m)] \in Nat
                BY <1>t, <3>3, BoundsAssumption DEF TypeOK
            <4>3. QED
                BY <4>1, <4>2
        <3>5. QED
            BY <1>1, <3>1, <3>3, <3>4 DEF AckShape
    <2>4. QED
        BY <2>1, <2>2, <2>3
<1>3. ASSUME NEW x \in Msgs, x # m PROVE AckShape(x)'
    <2>1. pc'[x] = pc[x] /\ attempt'[x] = attempt[x] /\ held'[x] = held[x]
        <3>1. CASE HoldFailed(m)
            BY <1>t, <1>3, <3>1 DEF HoldFailed, TypeOK
        <3>2. CASE Track(m)
            BY <1>t, <1>3, <3>2 DEF Track, NextAttempt, TypeOK
        <3>3. QED
            BY <3>1, <3>2
    <2>2. Claimed(x) => Claimed(x)'
        BY <1>1, SameClaim
    <2>3. Code(x) \in buffered => Code(x) \in buffered'
        BY <1>3 DEF Track, HoldFailed, Code
    <2>4. Latest(x) \in pending => Latest(x) \in pending'
        BY <1>3 DEF Track, HoldFailed, Latest, ClearCodes, CodesOf
    <2>5. QED
        BY <1>t, <1>1, <2>1, <2>2, <2>3, <2>4, LocalAck
<1>4. QED
    BY <1>2, <1>3

\* Counting an ACK, and the requests to delete and to resend.
LEMMA AckRequestStep ==
    ASSUME AckInv, NEW m \in Msgs, CountAck(m) \/ RequestStep(m) \/ DeleteFind(m)
    PROVE  \A x \in Msgs : AckShape(x)'
<1> USE DEF taskVars, requestVars, trackerVars, worldVars, faultVars, RequestStep
<1>t. TypeOK /\ \A x \in Msgs : AckShape(x) /\ FailedOver(x)
    BY DEF AckInv, AckFacts, AirInv, IInv
<1>1. UNCHANGED <<pc, attempt, held, heard, buffered>>
    BY DEF CountAck, DeleteMark, DeleteRow, ResendClear, ResendDrop, DeleteFind
<1> TAKE x \in Msgs
<1>2. CASE CountAck(m)
    <2>1. Claimed(x) => Claimed(x)'
        <3>1. CASE x = m
            BY <1>t, <1>2, <3>1 DEF CountAck, IncrementAck, Update, Claimed, IsAcked, Exists,
               NoRow, TypeOK, Row
        <3>2. CASE x # m
            <4>1. row'[x] = row[x] /\ acking'[x] = acking[x] /\ deleted' = deleted
                BY <1>t, <1>2, <3>2 DEF CountAck, IncrementAck, Update, TypeOK
            <4>2. QED
                BY <4>1, SameClaim
        <3>3. QED
            BY <3>1, <3>2
    <2>2. pending' = pending
        BY <1>2 DEF CountAck
    <2>3. QED
        BY <1>t, <1>1, <2>1, <2>2, LocalAck
<1>3. CASE DeleteFind(m)
    <2>1. row' = row /\ acking' = acking /\ deleted' = deleted /\ pending' = pending
        BY <1>3 DEF DeleteFind
    <2>2. Claimed(x) => Claimed(x)'
        BY <2>1, SameClaim
    <2>3. QED
        BY <1>t, <1>1, <2>1, <2>2, LocalAck
<1>4. CASE DeleteMark(m)
    <2>1. /\ row' = row /\ acking' = acking /\ deleted' = deleted \cup {m}
          /\ pending' = pending \ CodesOf(m)
        BY <1>4 DEF DeleteMark, ClearCodes
    <2>2. Claimed(x) => Claimed(x)'
        BY <2>1 DEF Claimed, IsAcked, Exists
    <2>3. Latest(x) \in pending => Latest(x) \in pending' \/ Claimed(x)'
        BY <2>1 DEF Latest, CodesOf, Claimed
    <2>4. QED
        BY <1>t, <1>1, <2>2, <2>3, LocalAck
<1>5. CASE DeleteRow(m) \/ ResendDrop(m)
    <2>1. acking' = acking /\ deleted' = deleted /\ pending' = pending
        BY <1>5 DEF DeleteRow, ResendDrop
    <2>2. row'[x] = row[x] \/ row'[x] = NoRow
        BY <1>t, <1>5 DEF DeleteRow, ResendDrop, DropRow, TypeOK
    <2>3. Claimed(x) => Claimed(x)'
        BY <2>1, <2>2 DEF Claimed, IsAcked, Exists, NoRow
    <2>4. QED
        BY <1>t, <1>1, <2>1, <2>3, LocalAck
<1>6. CASE ResendClear(m)
    <2>1. row' = row /\ acking' = acking /\ deleted' = deleted /\ pending' = pending \ CodesOf(replaces[m])
        BY <1>6 DEF ResendClear, ClearCodes
    <2>2. Claimed(x) => Claimed(x)'
        BY <2>1, SameClaim
    <2>3. pc[replaces[m]] # "sleep"
        BY <1>t, <1>6 DEF ResendClear, FailedOver, Settled
    <2>4. pc[x] = "sleep" /\ Latest(x) \in pending => Latest(x) \in pending'
        BY <2>1, <2>3 DEF Latest, CodesOf
    <2>5. QED
        BY <1>t, <1>1, <2>2, <2>4, LocalAck
<1>7. QED
    BY <1>2, <1>3, <1>4, <1>5, <1>6

\* An ACK is heard: it waits for its code, or it claims the message.
LEMMA AckHeardStep ==
    ASSUME AckInv, NEW c \in Codes, HearAck(c)
    PROVE  \A x \in Msgs : AckShape(x)'
<1> TAKE x \in Msgs
<1>t. TypeOK /\ AckShape(x) /\ Registered(x) /\ AttemptInRange(x)
    BY DEF AckInv, AckFacts, AirInv, IInv, Shape
<1>1. /\ UNCHANGED <<row, pc, attempt, held, deleted>>
      /\ heard' = [heard EXCEPT ![c] = @ + 1]
    BY DEF HearAck, taskVars
<1>2. PICK old \in Expirable :
          LET m == c[1]
              live == pending \ old.pending
              grace == failedAcks \ old.failed
          IN  IF c \in live \cup grace
              THEN /\ ClearCodes(m, live, grace)
                   /\ acking' = [acking EXCEPT ![m] = @ + 1]
                   /\ buffered' = buffered \ old.buffered
              ELSE /\ buffered' = (buffered \ old.buffered) \cup {c}
                   /\ pending' = live /\ failedAcks' = grace
                   /\ UNCHANGED acking
    BY DEF HearAck
<1>3. /\ \A d \in old.pending : WaitOver(d)
      /\ \A d \in old.buffered : ~SendUnderWay(d)
    BY DEF Expirable
<1>4. c[1] \in Msgs /\ c \in CodesOf(c[1])
    BY CodeParts
<1>5. Code(x)' = Code(x) /\ Latest(x)' = Latest(x)
    BY <1>1 DEF Code, Latest
<1>6. ASSUME pc[x] \in {"returning", "code", "track"}, heard'[Code(x)] > 0
      PROVE  Code(x) \in buffered'
    <2>1. attempt[x] \in 0 .. MaxAttempts - 1
        BY <1>t, <1>6, AttemptsAssumption DEF TypeOK, AttemptInRange
    <2>2. Code(x) \notin pending \cup failedAcks
        BY <1>t, <2>1 DEF Registered, Code
    <2>3. CASE c = Code(x)
        BY <1>2, <2>2, <2>3
    <2>4. CASE c # Code(x)
        <3>1. heard'[Code(x)] = heard[Code(x)]
            BY <1>t, <1>1, <2>4 DEF TypeOK
        <3>2. Code(x) \in buffered
            BY <1>t, <1>6, <3>1 DEF AckShape
        <3>3. SendUnderWay(Code(x))
            BY <1>6 DEF SendUnderWay, Code
        <3>4. QED
            BY <1>2, <1>3, <3>2, <3>3
    <2>5. QED
        BY <2>3, <2>4
<1>7. ASSUME pc[x] = "sleep", Latest(x) \in held[x], ~Claimed(x)'
      PROVE  Latest(x) \in pending' /\ heard'[Latest(x)] = 0
    <2>1. acking'[x] = acking[x] \/ acking'[x] = acking[x] + 1
        BY <1>t, <1>2, <1>4 DEF TypeOK
    <2>2. acking[x] \in Nat
        BY <1>t DEF TypeOK
    <2>3. ~(acking'[x] > 0)
        BY <1>7 DEF Claimed
    <2>4. acking'[x] = acking[x] /\ ~Claimed(x)
        BY <1>1, <1>7, <2>1, <2>2, <2>3 DEF Claimed, IsAcked, Exists
    <2>5. Latest(x) \in pending /\ heard[Latest(x)] = 0
        BY <1>t, <1>7, <2>4 DEF AckShape
    <2>6. ~WaitOver(Latest(x))
        <3>1. attempt[x] \in Nat /\ attempt[x] > 0
            BY <1>t, <1>7 DEF TypeOK, AttemptInRange
        <3>2. Latest(x)[1] = x /\ Latest(x)[2] + 1 = attempt[x]
            BY <3>1 DEF Latest
        <3>3. QED
            BY <1>7, <3>1, <3>2 DEF WaitOver
    <2>7. Latest(x) \in pending \ old.pending
        BY <1>3, <2>5, <2>6
    <2>8. CASE c \in (pending \ old.pending) \cup (failedAcks \ old.failed)
        <3>1. /\ acking' = [acking EXCEPT ![c[1]] = @ + 1]
              /\ pending' = (pending \ old.pending) \ CodesOf(c[1])
            BY <1>2, <2>8 DEF ClearCodes
        <3>2. x # c[1]
            BY <1>t, <1>4, <2>2, <2>4, <3>1 DEF TypeOK
        <3>3. Latest(x) \notin CodesOf(c[1]) /\ Latest(x) # c
            BY <1>4, <3>2 DEF Latest, CodesOf
        <3>4. QED
            BY <1>t, <1>1, <2>5, <2>7, <3>1, <3>3 DEF TypeOK
    <2>9. CASE c \notin (pending \ old.pending) \cup (failedAcks \ old.failed)
        <3>1. pending' = pending \ old.pending /\ c # Latest(x)
            BY <1>2, <2>7, <2>9
        <3>2. QED
            BY <1>t, <1>1, <2>5, <2>7, <3>1 DEF TypeOK
    <2>10. QED
        BY <2>8, <2>9
<1>8. QED
    BY <1>1, <1>5, <1>6, <1>7 DEF AckShape

\* No step loses an ACK for the latest attempt.
LEMMA AckStep ==
    ASSUME AckInv, [Next]_vars
    PROVE  \A x \in Msgs : AckShape(x)'
<1>1. CASE \E m \in Msgs : SendStep(m)
    BY <1>1, AckTaskStep, AckRadioStep, AckTrackStep DEF SendStep
<1>2. CASE \E m \in Msgs : RetryStep(m)
    BY <1>2, AckTaskStep, AckRadioStep, AckTrackStep DEF RetryStep
<1>3. CASE \E m \in Msgs : RequestStep(m) \/ CountAck(m)
    BY <1>3, AckRequestStep
<1>4. CASE \E m \in Msgs : FailStep(m) \/ UserStep(m)
    BY <1>4, AckTaskStep, AckRadioStep, AckRequestStep DEF FailStep, UserStep
<1>5. CASE \E c \in Codes : HearAck(c)
    BY <1>5, AckHeardStep
<1>6. CASE Restart
    BY <1>6 DEF Restart, AckShape
<1>7. CASE UNCHANGED vars
    <2> TAKE x \in Msgs
    <2>1. /\ UNCHANGED <<row, pc, attempt, held, acking, heard, pending, buffered, deleted>>
          /\ AckShape(x)
        BY <1>7 DEF vars, taskVars, worldVars, trackerVars, AckInv, AckFacts
    <2>2. Claimed(x) => Claimed(x)'
        BY <2>1, SameClaim
    <2>3. QED
        BY <2>1, <2>2, LocalAck
<1>8. QED
    BY <1>1, <1>2, <1>3, <1>4, <1>5, <1>6, <1>7 DEF Next

\* An ACK for the latest registered attempt, heard while its window is open, is never
\* lost (apply_dm_ack_code, track_pending_ack and the tracker's clean-up).
THEOREM LatestAckClaimed == Spec => []LatestAckIsClaimed
<1>1. Init => AckFacts
    BY DEF Init, AckFacts, HeardOnAir, Registered, FailedOver, AckShape, NoRow
<1>2. AirInv /\ AckFacts /\ [Next]_vars => AckFacts'
    <2> SUFFICES ASSUME AckInv, [Next]_vars PROVE AckFacts'
        BY DEF AckInv
    <2>1. HeardOnAir'
        BY HeardStep
    <2>2. \A x \in Msgs : Registered(x)'
        BY RegisteredStep
    <2>3. \A x \in Msgs : FailedOver(x)'
        BY FailedOverStep
    <2>4. \A x \in Msgs : AckShape(x)'
        BY AckStep
    <2>5. QED
        BY <2>1, <2>2, <2>3, <2>4 DEF AckFacts
<1>3. AirInv /\ AckFacts => LatestAckIsClaimed
    <2> SUFFICES ASSUME AckFacts, NEW m \in Msgs, pc[m] = "sleep", Latest(m) \in held[m],
                        heard[Latest(m)] > 0
                 PROVE  Claimed(m)
        BY DEF LatestAckIsClaimed, Claimed
    <2>1. AckShape(m)
        BY DEF AckFacts
    <2>2. QED
        BY <2>1 DEF AckShape
<1>4. QED
    BY <1>1, <1>2, <1>3, AirInvariance, PTL DEF Spec
=============================================================================
