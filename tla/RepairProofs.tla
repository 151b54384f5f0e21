---------------------------- MODULE RepairProofs ----------------------------
(***************************************************************************)
(* What the repair worker guarantees.  In order: what a step does to the   *)
(* rows, and by whom; which buckets get no more rows; what a pass has      *)
(* still to republish; why a payload survives the ack of its original; the *)
(* pointers; and the arithmetic of the wait (RepairTiming).                *)
(***************************************************************************)
EXTENDS InvariantProofs

(***************************************************************************)
(* The five things a step can do to the rows (RowStep), now with who does  *)
(* it: a put writes the index it holds, a client acks with a receipt, the  *)
(* repair worker acks the message it has just copied.                      *)
(***************************************************************************)

Puts ==
    \E index \in InFlight, blob \in Payloads :
        PutApplies(index) /\ messages' = AfterPut(index, blob) /\ UNCHANGED receipts

HandsOut ==
    \E m \in Snapshot :
        /\ m.index \in DOMAIN messages
        /\ ConsumeApplies(m)
        /\ messages[m.index].visible
        /\ messages[m.index].deliveryCount = m.deliveryCount
        /\ messages' = AfterConsume(m)
        /\ receipts' \in {receipts, receipts \cup {ReceiptOf(m)}}

ClientAcks ==
    \E receipt \in receipts :
        /\ AckApplies(receipt)
        /\ ~messages[receipt.index].isAcked
        /\ messages' = AfterAck(receipt)
        /\ UNCHANGED receipts

WorkerAcks ==
    \E w \in Workers :
        /\ wPc[w] = "ack"
        /\ AckApplies(First(wTodo[w]))
        /\ messages' = AfterAck(First(wTodo[w]))
        /\ UNCHANGED receipts

TimePasses ==
    \E i \in DOMAIN messages :
        ~messages[i].visible /\ messages' = AfterTimeout(i) /\ UNCHANGED receipts

QueueStep == Puts \/ HandsOut \/ ClientAcks \/ WorkerAcks \/ TimePasses \/ UNCHANGED <<messages, receipts>>

LEMMA ProducerQueueStep ==
    ASSUME IInv, NEW p \in Producers, UNCHANGED readerVars,
           PutRequest(p) \/ ProducerProgress(p) \/ PutFails(p) \/ PutUnanswered(p)
    PROVE  QueueStep
<1>1. CASE PutMessage(p) \/ PutUnanswered(p)
  <2>1. pPc[p] = "put" /\ pIndex[p] \in InFlight /\ pBlob[p] \in Payloads
    BY <1>1 DEF PutMessage, PutUnanswered, IInv, TypeOK, ProducerTypeOK, InFlight, ProducersPutting
  <2> QED BY <1>1, <2>1 DEF PutMessage, PutUnanswered, QueueStep, Puts, readerVars
<1>2. CASE PutRequest(p) \/ ReadMonoton(p) \/ IncrementMonoton(p) \/ PutFails(p)
  BY <1>2 DEF PutRequest, ReadMonoton, IncrementMonoton, PutFails, tableVars, QueueStep, readerVars
<1> QED BY <1>1, <1>2 DEF ProducerProgress

LEMMA ReaderQueueStep ==
    ASSUME IInv, NEW r \in Readers,
           StartRead(r) \/ ReaderProgress(r) \/ ConsumeUnanswered(r) \/ ReadFails(r)
    PROVE  QueueStep
<1>1. CASE Consume(r) \/ ConsumeUnanswered(r)
  <2>1. /\ rPc[r] \in {"consume", "consumeInvis"}
        /\ ConsumeApplies(rMessage[r])
        /\ messages' = AfterConsume(rMessage[r])
        /\ receipts' \in {receipts, receipts \cup {ReceiptOf(rMessage[r])}}
    BY <1>1 DEF Consume, ConsumeUnanswered
  <2>2. /\ rMessage[r].index \in DOMAIN messages
        /\ messages[rMessage[r].index].visible
        /\ messages[rMessage[r].index].deliveryCount = rMessage[r].deliveryCount
    BY <2>1 DEF ConsumeApplies, IInv, SnapshotsMatchVersions
  <2>3. rMessage[r] \in Snapshot
    BY DEF IInv, TypeOK, ReaderTypeOK
  <2> QED BY <2>1, <2>2, <2>3 DEF QueueStep, HandsOut
<1>2. CASE ~(Consume(r) \/ ConsumeUnanswered(r))
  BY <1>2 DEF ReaderProgress, StartRead, VisitInvis, ScanInvis, MoveInvisBack, MoveInvisOn,
       ReadBucketPointer, ScanBucket, ReadMonotonPast, TombstoneBucket, AdvanceBucket,
       ConsumeRefused, ReadFails, tableVars, QueueStep
<1> QED BY <1>1, <1>2

(* A receipt that matches belongs to a row that is not acked. *)
LEMMA MatchingReceipt ==
    ASSUME IInv, NEW receipt \in receipts, AckApplies(receipt)
    PROVE  /\ receipt.index \in DOMAIN messages
           /\ ~messages[receipt.index].isAcked
           /\ receipt.version = 1 + messages[receipt.index].deliveryCount
           /\ messages[receipt.index].deliveryCount > 0
<1>1. receipt.index \in DOMAIN messages /\ receipt.version \in 2..(1 + messages[receipt.index].deliveryCount)
  BY DEF IInv, ReceiptsOfDeliveries
<1>2. messages[receipt.index].deliveryCount \in Nat
  BY <1>1 DEF IInv, TypeOK, TablesTypeOK, IsMessageTable, Message
<1>3. messages[receipt.index].version =
          1 + messages[receipt.index].deliveryCount + (IF messages[receipt.index].isAcked THEN 1 ELSE 0)
  BY <1>1 DEF IInv, VersionCountsUpdates
<1> QED BY <1>1, <1>2, <1>3 DEF AckApplies

LEMMA AckerQueueStep ==
    ASSUME IInv, NEW a \in Ackers, UNCHANGED readerVars, BeginAck(a) \/ FinishAck(a) \/ AckFails(a)
    PROVE  QueueStep
<1>1. CASE FinishAck(a) /\ AckApplies(aReceipt[a])
  <2>1. aReceipt[a] \in receipts
    BY <1>1 DEF FinishAck, IInv, ReceiptsOfDeliveries
  <2>2. ~messages[aReceipt[a].index].isAcked
    BY <1>1, <2>1, MatchingReceipt
  <2> QED BY <1>1, <2>1, <2>2 DEF FinishAck, QueueStep, ClientAcks, readerVars
<1>2. CASE BeginAck(a) \/ AckFails(a) \/ (FinishAck(a) /\ ~AckApplies(aReceipt[a]))
  BY <1>2 DEF BeginAck, FinishAck, AckFails, tableVars, QueueStep, readerVars
<1> QED BY <1>1, <1>2

(* The message the worker is about, as it was when the bucket was read. *)
LEMMA FirstOfWork ==
    ASSUME IInv, NEW w \in Workers, wTodo[w] # {}
    PROVE  /\ First(wTodo[w]) \in wTodo[w]
           /\ First(wTodo[w]) \in Message
           /\ First(wTodo[w]).index \in DOMAIN messages
           /\ First(wTodo[w]).version = 1
<1>1. First(wTodo[w]) \in wTodo[w]
  BY FirstIsOne DEF IInv, TypeOK, WorkerTypeOK, Message
<1> QED BY <1>1 DEF IInv, TypeOK, WorkerTypeOK, WorkOnFirstVersions

LEMMA WorkerQueueStep ==
    ASSUME IInv, NEW w \in Workers, UNCHANGED readerVars,
           \/ Poll(w) \/ WorkerProgress(w) \/ EndWait(w) \/ Restart(w)
           \/ PassFails(w) \/ Stop(w)
    PROVE  QueueStep
<1>1. CASE PutCopy(w)
  <2>1. First(wTodo[w]).blob \in Payloads
    BY <1>1, FirstOfWork DEF PutCopy, IInv, WorkersHaveWork, Message
  <2>2. wIndex[w] \in InFlight
    BY <1>1 DEF PutCopy, InFlight, WorkersPutting
  <2> QED BY <1>1, <2>1, <2>2 DEF PutCopy, QueueStep, Puts, readerVars
<1>2. CASE AckOriginal(w)
  BY <1>2 DEF AckOriginal, QueueStep, WorkerAcks, readerVars
<1>3. CASE ~PutCopy(w) /\ ~AckOriginal(w)
  BY <1>3 DEF WorkerProgress, Poll, CheckTombstone, ListBucket, SkipBucket, EndWait, ReadBucket,
       FilterNext, WorkerReadMonoton, WorkerIncrementMonoton, AdvanceRepair, Restart,
       PassFails, Stop, tableVars, QueueStep, readerVars
<1> QED BY <1>1, <1>2, <1>3

LEMMA EveryQueueStep == IInv /\ [Next]_vars => QueueStep
<1> SUFFICES ASSUME IInv, [Next]_vars PROVE QueueStep
  OBVIOUS
<1>1. ASSUME NEW i \in DOMAIN messages, BecomeVisible(i) PROVE QueueStep
  BY <1>1 DEF BecomeVisible, QueueStep, TimePasses, readerVars
<1>2. CASE Fault
  BY <1>2, ProducerQueueStep, ReaderQueueStep, AckerQueueStep, WorkerQueueStep DEF Fault
<1>3. CASE UNCHANGED vars
  BY <1>3 DEF vars, tableVars, readerVars, QueueStep
<1> QED BY <1>1, <1>2, <1>3, ProducerQueueStep, ReaderQueueStep, AckerQueueStep, WorkerQueueStep
        DEF Next, NewPut, PutStep, ReadStep, AckStep, RepairStep, WaitForTimeout

(***************************************************************************)
(* What a step may do to rows that are there, and where new rows and new   *)
(* puts come from.                                                         *)
(***************************************************************************)

(* A row keeps its payload, and an undelivered one stays visible. *)
RowsAsPut ==
    \A i \in DOMAIN messages :
        /\ i \in DOMAIN messages'
        /\ messages'[i].blob = messages[i].blob
        /\ Undelivered(i)' => Undelivered(i) /\ (messages[i].visible => messages'[i].visible)

LEMMA RowTypes ==
    ASSUME IInv, NEW i \in DOMAIN messages
    PROVE  /\ messages[i] \in Message
           /\ messages[i].index = i
           /\ i \in Nat
           /\ messages[i].version \in Nat
           /\ messages[i].deliveryCount \in Nat
           /\ messages[i].isAcked \in BOOLEAN
           /\ messages[i].visible \in BOOLEAN
           /\ messages[i].blob \in Payloads
BY DEF IInv, TypeOK, TablesTypeOK, IsMessageTable, Message

(* The row of each statement, all its fields. *)
LEMMA ConsumedFields ==
    ASSUME IInv, NEW m \in Snapshot, m.index \in DOMAIN messages
    PROVE  /\ DOMAIN AfterConsume(m) = DOMAIN messages
           /\ \A i \in DOMAIN messages \ {m.index} : AfterConsume(m)[i] = messages[i]
           /\ AfterConsume(m)[m.index].blob = messages[m.index].blob
           /\ AfterConsume(m)[m.index].deliveryCount = m.deliveryCount + 1
           /\ AfterConsume(m)[m.index].isAcked = messages[m.index].isAcked
           /\ AfterConsume(m)[m.index].visible = FALSE
<1>1. messages[m.index] \in Message
  BY RowTypes
<1> DEFINE row1 == [messages[m.index] EXCEPT !.version = m.version + 1]
           row2 == [row1 EXCEPT !.deliveryCount = m.deliveryCount + 1]
<1>2. /\ DOMAIN AfterConsume(m) = DOMAIN messages
      /\ AfterConsume(m)[m.index] = [row2 EXCEPT !.visible = FALSE]
      /\ \A i \in DOMAIN messages \ {m.index} : AfterConsume(m)[i] = messages[i]
  BY DEF AfterConsume
<1> HIDE DEF row2
<1>3. /\ row2 \in Message /\ row2.blob = messages[m.index].blob
      /\ row2.deliveryCount = m.deliveryCount + 1 /\ row2.isAcked = messages[m.index].isAcked
  <2>1. row1 \in Message /\ row1.blob = messages[m.index].blob /\ row1.isAcked = messages[m.index].isAcked
    BY <1>1 DEF Message, Snapshot
  <2> HIDE DEF row1
  <2> QED BY <2>1 DEF row2, Message, Snapshot
<1> QED BY <1>2, <1>3 DEF Message

LEMMA AckedFields ==
    ASSUME IInv, NEW m, m.index \in DOMAIN messages, m.version \in Nat
    PROVE  /\ DOMAIN AfterAck(m) = DOMAIN messages
           /\ \A i \in DOMAIN messages \ {m.index} : AfterAck(m)[i] = messages[i]
           /\ AfterAck(m)[m.index].blob = messages[m.index].blob
           /\ AfterAck(m)[m.index].deliveryCount = messages[m.index].deliveryCount
           /\ AfterAck(m)[m.index].isAcked = TRUE
           /\ AfterAck(m)[m.index].visible = messages[m.index].visible
<1>1. messages[m.index] \in Message
  BY RowTypes
<1> DEFINE row1 == [messages[m.index] EXCEPT !.version = m.version + 1]
<1>2. /\ DOMAIN AfterAck(m) = DOMAIN messages
      /\ AfterAck(m)[m.index] = [row1 EXCEPT !.isAcked = TRUE]
      /\ \A i \in DOMAIN messages \ {m.index} : AfterAck(m)[i] = messages[i]
  BY DEF AfterAck
<1>3. /\ row1 \in Message /\ row1.blob = messages[m.index].blob
      /\ row1.deliveryCount = messages[m.index].deliveryCount
      /\ row1.visible = messages[m.index].visible
  BY <1>1 DEF Message
<1> HIDE DEF row1
<1> QED BY <1>2, <1>3 DEF Message

LEMMA TimedOutFields ==
    ASSUME IInv, NEW index \in DOMAIN messages
    PROVE  /\ DOMAIN AfterTimeout(index) = DOMAIN messages
           /\ \A i \in DOMAIN messages \ {index} : AfterTimeout(index)[i] = messages[i]
           /\ AfterTimeout(index)[index].blob = messages[index].blob
           /\ AfterTimeout(index)[index].deliveryCount = messages[index].deliveryCount
           /\ AfterTimeout(index)[index].isAcked = messages[index].isAcked
           /\ AfterTimeout(index)[index].visible = TRUE
<1>1. messages[index] \in Message
  BY RowTypes
<1> QED BY <1>1 DEF AfterTimeout, Message

LEMMA PutFields ==
    ASSUME IInv, NEW index \in InFlight, NEW blob \in Payloads, index \notin DOMAIN messages
    PROVE  /\ DOMAIN AfterPut(index, blob) = DOMAIN messages \cup {index}
           /\ \A i \in DOMAIN messages : AfterPut(index, blob)[i] = messages[i]
           /\ AfterPut(index, blob)[index].blob = blob
           /\ AfterPut(index, blob)[index].deliveryCount = 0
           /\ AfterPut(index, blob)[index].isAcked = FALSE
           /\ AfterPut(index, blob)[index].visible = FALSE
BY DEF AfterPut

LEMMA StepRowsAsPut == IInv /\ [Next]_vars => RowsAsPut
<1> SUFFICES ASSUME IInv, QueueStep, NEW i \in DOMAIN messages
             PROVE  /\ i \in DOMAIN messages'
                    /\ messages'[i].blob = messages[i].blob
                    /\ ~messages'[i].isAcked => ~messages[i].isAcked
                    /\ messages'[i].deliveryCount = 0 =>
                           /\ messages[i].deliveryCount = 0
                           /\ messages[i].visible => messages'[i].visible
  BY EveryQueueStep DEF RowsAsPut, Undelivered
<1>1. CASE Puts
  <2>1. PICK index \in InFlight, blob \in Payloads :
            index \notin DOMAIN messages /\ messages' = AfterPut(index, blob)
    BY <1>1 DEF Puts, PutApplies
  <2>2. DOMAIN messages' = DOMAIN messages \cup {index} /\ messages'[i] = messages[i]
    BY <2>1, PutFields
  <2> QED BY <2>2
<1>2. CASE HandsOut
  <2>1. PICK m \in Snapshot : /\ m.index \in DOMAIN messages
                              /\ messages[m.index].deliveryCount = m.deliveryCount
                              /\ messages' = AfterConsume(m)
    BY <1>2 DEF HandsOut
  <2>2. m.deliveryCount + 1 # 0
    BY DEF Snapshot
  <2>3. CASE i = m.index
    BY <2>1, <2>2, <2>3, ConsumedFields
  <2>4. CASE i # m.index
    BY <2>1, <2>4, ConsumedFields
  <2> QED BY <2>3, <2>4
<1>3. CASE ClientAcks
  <2>1. PICK receipt \in receipts : /\ receipt.index \in DOMAIN messages
                                    /\ messages' = AfterAck(receipt)
    BY <1>3, MatchingReceipt DEF ClientAcks
  <2>2. receipt.version \in Nat
    BY DEF IInv, TypeOK, ReaderTypeOK, PopReceipt
  <2>3. CASE i = receipt.index
    BY <2>1, <2>2, <2>3, AckedFields
  <2>4. CASE i # receipt.index
    BY <2>1, <2>2, <2>4, AckedFields
  <2> QED BY <2>3, <2>4
<1>4. CASE WorkerAcks
  <2>1. PICK w \in Workers : /\ wPc[w] = "ack"
                             /\ messages' = AfterAck(First(wTodo[w]))
    BY <1>4 DEF WorkerAcks
  <2> DEFINE m == First(wTodo[w])
  <2>2. m.index \in DOMAIN messages /\ m.version = 1
    BY <2>1, FirstOfWork DEF IInv, WorkersHaveWork
  <2> HIDE DEF m
  <2>3. messages' = AfterAck(m) /\ m.version \in Nat
    BY <2>1, <2>2 DEF m
  <2>4. CASE i = m.index
    BY <2>2, <2>3, <2>4, AckedFields
  <2>5. CASE i # m.index
    BY <2>2, <2>3, <2>5, AckedFields
  <2> QED BY <2>4, <2>5
<1>5. CASE TimePasses
  <2>1. PICK j \in DOMAIN messages : messages' = AfterTimeout(j)
    BY <1>5 DEF TimePasses
  <2>2. CASE i = j
    BY <2>1, <2>2, TimedOutFields
  <2>3. CASE i # j
    BY <2>1, <2>3, TimedOutFields
  <2> QED BY <2>2, <2>3
<1>6. CASE UNCHANGED <<messages, receipts>>
  BY <1>6
<1> QED BY <1>1, <1>2, <1>3, <1>4, <1>5, <1>6 DEF QueueStep

(* New rows come from puts, and their messages are there for the taking. *)
LEMMA NewRows ==
    ASSUME IInv, [Next]_vars, NEW i \in DOMAIN messages', i \notin DOMAIN messages
    PROVE  i \in InFlight /\ Alive(i)'
<1>1. CASE Puts
  <2>1. PICK index \in InFlight, blob \in Payloads :
            index \notin DOMAIN messages /\ messages' = AfterPut(index, blob)
    BY <1>1 DEF Puts, PutApplies
  <2>2. DOMAIN messages' = DOMAIN messages \cup {index} /\ messages'[index].isAcked = FALSE
    BY <2>1, PutFields
  <2>3. i = index
    BY <2>2
  <2> QED BY <2>2, <2>3 DEF Alive
<1>2. CASE ~Puts
  <2>1. HandsOut \/ ClientAcks \/ WorkerAcks \/ TimePasses \/ UNCHANGED messages
    BY <1>2, EveryQueueStep DEF QueueStep
  <2>2. DOMAIN messages' = DOMAIN messages
    BY <2>1 DEF HandsOut, ClientAcks, WorkerAcks, TimePasses, AfterConsume, AfterAck, AfterTimeout
  <2> QED BY <2>2
<1> QED BY <1>1, <1>2

(***************************************************************************)
(* Quiet buckets.  A bucket that is closed, and has no put in flight, gets *)
(* neither a put nor a row any more: new puts hold the value the counter   *)
(* had, which is past every closed bucket.                                 *)
(***************************************************************************)

(* Indexes of the puts are those handed out before, or the counter. *)
LEMMA ProducerPuts ==
    ASSUME IInv, NEW p \in Producers, NEW q \in Producers, pPc'[q] = "put",
           PutRequest(p) \/ ProducerProgress(p) \/ PutFails(p) \/ PutUnanswered(p)
    PROVE  (pPc[q] = "put" /\ pIndex'[q] = pIndex[q]) \/ pIndex'[q] = monoton
<1> USE DEF IInv, TypeOK, ProducerTypeOK
<1>1. CASE PutRequest(p) \/ PutFails(p) \/ PutUnanswered(p)
  BY <1>1 DEF PutRequest, PutFails, PutUnanswered, RequestOver
<1>2. CASE ReadMonoton(p) \/ PutMessage(p)
  BY <1>2 DEF ReadMonoton, PutMessage, RequestOver
<1>3. CASE IncrementMonoton(p)
  BY <1>3 DEF IncrementMonoton, IncrementApplies
<1> QED BY <1>1, <1>2, <1>3 DEF ProducerProgress

LEMMA WorkerPuts ==
    ASSUME IInv, NEW w \in Workers, wPc'[w] = "put", WorkerActs(w)
    PROVE  \/ wPc[w] = "put" /\ WorkerRests(w)
           \/ /\ WorkerIncrementMonoton(w)
              /\ wPc[w] = "monCas" /\ wBucket'[w] = wBucket[w] /\ wTodo'[w] = wTodo[w]
              /\ wIndex'[w] = wIndex[w] /\ wIndex[w] = monoton
<1> USE DEF IInv, TypeOK, WorkerTypeOK
<1>1. CASE Poll(w) \/ Restart(w) \/ PassFails(w) \/ Stop(w)
  BY <1>1 DEF Poll, Restart, PassFails, Stop, EndPass, WorkerRests
<1>2. CASE WaitForTimeout(w) \/ CheckTombstone(w) \/ ListBucket(w) \/ SkipBucket(w)
  BY <1>2 DEF WaitForTimeout, EndWait, CheckTombstone, ListBucket, SkipBucket, EndPass, WorkerGoTo
<1>3. CASE ReadBucket(w) \/ FilterNext(w) \/ WorkerReadMonoton(w)
  BY <1>3 DEF ReadBucket, FilterNext, WorkerReadMonoton, WorkerGoTo
<1>4. CASE WorkerIncrementMonoton(w)
  BY <1>4 DEF WorkerIncrementMonoton, WorkerGoTo, IncrementApplies
<1>5. CASE PutCopy(w) \/ AckOriginal(w) \/ AdvanceRepair(w)
  BY <1>5 DEF PutCopy, AckOriginal, AdvanceRepair, EndPass
<1> QED BY <1>1, <1>2, <1>3, <1>4, <1>5 DEF WorkerActs, WorkerProgress

LEMMA NewPuts == IInv /\ [Next]_vars => InFlight' \subseteq InFlight \cup {monoton}
<1> SUFFICES ASSUME IInv, [Next]_vars PROVE InFlight' \subseteq InFlight \cup {monoton}
  OBVIOUS
<1>1. \A q \in Producers : pPc'[q] = "put" =>
          (pPc[q] = "put" /\ pIndex'[q] = pIndex[q]) \/ pIndex'[q] = monoton
  <2>1. \/ UNCHANGED producerVars
        \/ \E p \in Producers : PutRequest(p) \/ ProducerProgress(p) \/ PutFails(p) \/ PutUnanswered(p)
    BY DEF Next, NewPut, PutStep, ReadStep, AckStep, RepairStep, BecomeVisible, Fault, vars
  <2> QED BY <2>1, ProducerPuts DEF producerVars
<1>2. \A w \in Workers : wPc'[w] = "put" =>
          (wPc[w] = "put" /\ wIndex'[w] = wIndex[w]) \/ wIndex'[w] = monoton
  BY WorkerActsOrRests, WorkerPuts DEF WorkerRests
<1> QED BY <1>1, <1>2 DEF InFlight, ProducersPutting, WorkersPutting

LEMMA BeyondBucket ==
    ASSUME NEW i \in Nat, NEW bucket \in Nat, StartOf(bucket + 1) <= i
    PROVE  BucketOf(i) > bucket
<1> SUFFICES ASSUME ~(BucketOf(i) > bucket) PROVE FALSE
  OBVIOUS
<1>1. BucketOf(i) \in Nat /\ i < StartOf(BucketOf(i) + 1)
  BY BucketBounds
<1>2. BucketOf(i) = bucket \/ BucketOf(i) < bucket
  BY <1>1
<1>3. CASE BucketOf(i) = bucket
  BY <1>1, <1>3, StartType
<1>4. CASE BucketOf(i) < bucket
  <2>1. StartOf(BucketOf(i) + 1) <= StartOf(bucket)
    BY <1>1, <1>4, StartOrder
  <2>2. StartOf(bucket + 1) = StartOf(bucket) + BucketSize /\ StartOf(bucket) \in Nat
    BY BucketSizeAssumption DEF StartOf
  <2>3. StartOf(BucketOf(i) + 1) \in Nat
    BY <1>1, StartType
  <2> QED BY <1>1, <2>1, <2>2, <2>3, BucketSizeAssumption
<1> QED BY <1>2, <1>3, <1>4

LEMMA QuietStays ==
    ASSUME IInv, [Next]_vars, NEW bucket \in tombstones, NoPutInFlight(bucket)
    PROVE  /\ \A i \in InFlight' : BucketOf(i) # bucket
           /\ \A i \in DOMAIN messages' : BucketOf(i) = bucket => i \in DOMAIN messages
<1>1. monoton \in Nat /\ bucket \in Nat /\ StartOf(bucket + 1) <= monoton
  BY DEF IInv, TypeOK, TablesTypeOK, BucketsClosedInOrder
<1>2. BucketOf(monoton) # bucket
  <2>1. BucketOf(monoton) > bucket
    BY <1>1, BeyondBucket
  <2> QED BY <1>1, <2>1
<1>3. \A i \in InFlight' : BucketOf(i) # bucket
  BY <1>2, NewPuts DEF NoPutInFlight
<1>4. \A i \in DOMAIN messages' : BucketOf(i) = bucket => i \in DOMAIN messages
  BY NewRows DEF NoPutInFlight
<1> QED BY <1>3, <1>4

LEMMA FullIsQuiet ==
    ASSUME IInv, NEW bucket \in tombstones, FullAndAcked(GetMessages(bucket))
    PROVE  NoPutInFlight(bucket)
<1>1. bucket \in Nat /\ IsMessageTable(messages)
  BY DEF IInv, TypeOK, TablesTypeOK
<1>2. InFlight \subseteq Nat
  BY IndexesInNat DEF IInv, TypeInv
<1>3. \A i \in InFlight : BucketOf(i) = bucket => i \in DOMAIN messages
  BY <1>1, <1>2, FullBucketHasAll DEF FullAndAcked
<1> QED BY <1>3 DEF NoPutInFlight, IInv, IndexesHaveOneOwner

(***************************************************************************)
(* The pointers.                                                           *)
(***************************************************************************)

(* Only a worker that is done with the bucket moves the repair pointer. *)
LEMMA RepairPointerSteps ==
    ASSUME IInv, [Next]_vars, repairPointer' # repairPointer
    PROVE  /\ repairPointer' = repairPointer + 1
           /\ \E w \in Workers : wPc[w] \in {"skip", "advance"} /\ wBucket[w] = repairPointer
<1>1. \E w \in Workers : SkipBucket(w) \/ AdvanceRepair(w)
  <2>1. ASSUME NEW p \in Producers,
               PutRequest(p) \/ ProducerProgress(p) \/ PutFails(p) \/ PutUnanswered(p)
        PROVE  FALSE
    BY <2>1 DEF PutRequest, ProducerProgress, ReadMonoton, IncrementMonoton, PutMessage,
                PutFails, PutUnanswered, tableVars
  <2>2. ASSUME NEW r \in Readers,
               StartRead(r) \/ ReaderProgress(r) \/ ConsumeUnanswered(r) \/ ReadFails(r)
        PROVE  FALSE
    BY <2>2 DEF ReaderProgress, StartRead, VisitInvis, ScanInvis, MoveInvisBack, MoveInvisOn,
                ReadBucketPointer, ScanBucket, ReadMonotonPast, TombstoneBucket, AdvanceBucket,
                Consume, ConsumeUnanswered, ConsumeRefused, ReadFails, tableVars
  <2>3. ASSUME NEW a \in Ackers, BeginAck(a) \/ FinishAck(a) \/ AckFails(a)
        PROVE  FALSE
    BY <2>3 DEF BeginAck, FinishAck, AckFails, tableVars
  <2>4. ASSUME NEW w \in Workers, ~SkipBucket(w), ~AdvanceRepair(w), WorkerActs(w)
        PROVE  FALSE
    BY <2>4 DEF WorkerActs, WorkerProgress, Poll, CheckTombstone, ListBucket, WaitForTimeout,
                EndWait, ReadBucket, FilterNext, WorkerReadMonoton, WorkerIncrementMonoton,
                PutCopy, AckOriginal, Restart, PassFails, Stop, tableVars
  <2>5. CASE UNCHANGED vars
    BY <2>5 DEF vars, tableVars
  <2>6. ~ \E i \in DOMAIN messages : BecomeVisible(i)
    BY DEF BecomeVisible
  <2> QED BY <2>1, <2>2, <2>3, <2>4, <2>5, <2>6
          DEF Next, NewPut, PutStep, ReadStep, AckStep, RepairStep, Fault, WorkerActs
<1>2. PICK w \in Workers : SkipBucket(w) \/ AdvanceRepair(w)
  BY <1>1
<1> QED BY <1>2 DEF SkipBucket, AdvanceRepair, PointerAfterMove, AdvanceApplies

LEMMA AckedStays ==
    ASSUME IInv, [Next]_vars, NEW i \in DOMAIN messages
    PROVE  i \in DOMAIN messages' /\ (messages[i].isAcked => messages'[i].isAcked)
BY PartsOfIInv, EveryRowStep, RowStepKeeps, StepTypes DEF VersionInv, RowsLater, RowLater

(***************************************************************************)
(* Nothing undelivered is left behind.                                     *)
(***************************************************************************)

LEMMA SkipMoves ==
    ASSUME IInv, NEW w \in Workers, WorkerActs(w), wPc'[w] = "skip"
    PROVE  \/ wPc[w] = "skip" /\ WorkerRests(w)
           \/ /\ wPc[w] = "list" /\ wBucket'[w] = wBucket[w]
              /\ FullAndAcked(GetMessages(wBucket[w]))
              /\ UNCHANGED messages
<1> USE DEF IInv, TypeOK, WorkerTypeOK
<1>1. CASE Poll(w) \/ Restart(w) \/ PassFails(w) \/ Stop(w)
  BY <1>1 DEF Poll, Restart, PassFails, Stop, EndPass, WorkerRests
<1>2. CASE ListBucket(w)
  BY <1>2 DEF ListBucket, WorkerGoTo, tableVars
<1>3. CASE WaitForTimeout(w) \/ CheckTombstone(w) \/ SkipBucket(w) \/ ReadBucket(w) \/ FilterNext(w)
  BY <1>3 DEF WaitForTimeout, EndWait, CheckTombstone, SkipBucket, ReadBucket, FilterNext,
              EndPass, WorkerGoTo
<1>4. CASE \/ WorkerReadMonoton(w) \/ WorkerIncrementMonoton(w)
           \/ PutCopy(w) \/ AckOriginal(w) \/ AdvanceRepair(w)
  BY <1>4 DEF WorkerReadMonoton, WorkerIncrementMonoton, PutCopy, AckOriginal, AdvanceRepair,
              EndPass, WorkerGoTo
<1> QED BY <1>1, <1>2, <1>3, <1>4 DEF WorkerActs, WorkerProgress

LEMMA AfterWaitMoves ==
    ASSUME IInv, NEW w \in Workers, WorkerActs(w), wPc'[w] \in AfterWait
    PROVE  /\ wBucket'[w] = wBucket[w]
           /\ \/ wPc[w] \in AfterWait
              \/ /\ wPc[w] = "wait" /\ wPc'[w] = "read"
                 /\ Settled(wBucket[w])
                 /\ UNCHANGED messages
<1> USE DEF IInv, TypeOK, WorkerTypeOK, AfterWait
<1>1. CASE Poll(w) \/ Restart(w) \/ PassFails(w) \/ Stop(w)
  BY <1>1 DEF Poll, Restart, PassFails, Stop, EndPass
<1>2. CASE WaitForTimeout(w)
  BY <1>2 DEF WaitForTimeout, EndWait, EndPass, WorkerGoTo, tableVars
<1>3. CASE ListBucket(w) \/ CheckTombstone(w) \/ SkipBucket(w)
  BY <1>3 DEF ListBucket, CheckTombstone, SkipBucket, EndPass, WorkerGoTo
<1>4. CASE ReadBucket(w) \/ FilterNext(w) \/ WorkerReadMonoton(w) \/ WorkerIncrementMonoton(w)
  BY <1>4 DEF ReadBucket, FilterNext, WorkerReadMonoton, WorkerIncrementMonoton, WorkerGoTo
<1>5. CASE PutCopy(w) \/ AckOriginal(w) \/ AdvanceRepair(w)
  BY <1>5 DEF PutCopy, AckOriginal, AdvanceRepair, EndPass
<1> QED BY <1>1, <1>2, <1>3, <1>4, <1>5 DEF WorkerActs, WorkerProgress

(* A bucket behind the pointer, or one the step puts behind it, is closed  *)
(* and quiet.                                                              *)
LEMMA BehindPointer ==
    ASSUME IInv, NoLateRows, [Next]_vars, NEW bucket \in Nat, bucket < repairPointer'
    PROVE  /\ bucket \in tombstones
           /\ \/ bucket < repairPointer
              \/ \E w \in Workers : wPc[w] \in {"skip", "advance"} /\ wBucket[w] = bucket
           /\ TimeoutOutlastsWrites => NoPutInFlight(bucket)
<1>0. repairPointer \in Nat /\ 0..(repairPointer - 1) \subseteq tombstones
  BY DEF IInv, TypeOK, TablesTypeOK, BucketsClosedInOrder
<1>1. CASE bucket < repairPointer
  <2>1. bucket \in 0..(repairPointer - 1)
    BY <1>0, <1>1
  <2>2. TimeoutOutlastsWrites => NoPutInFlight(bucket)
    BY <1>0, <1>1 DEF NoLateRows, NoPutInFlight
  <2> QED BY <1>0, <1>1, <2>1, <2>2
<1>2. CASE ~(bucket < repairPointer)
  <2>1. /\ repairPointer' = repairPointer + 1
        /\ \E w \in Workers : wPc[w] \in {"skip", "advance"} /\ wBucket[w] = repairPointer
    BY <1>2, RepairPointerSteps
  <2>2. bucket = repairPointer
    BY <1>0, <1>2, <2>1
  <2>3. PICK w \in Workers : wPc[w] \in {"skip", "advance"} /\ wBucket[w] = bucket
    BY <2>1, <2>2
  <2>4. bucket \in tombstones
    BY <2>3 DEF IInv, WorkersInClosedBuckets
  <2>5. TimeoutOutlastsWrites => NoPutInFlight(bucket)
    BY <2>3 DEF NoLateRows, AfterWait
  <2> QED BY <2>3, <2>4, <2>5
<1> QED BY <1>1, <1>2

LEMMA StepNoLateRows == IInv /\ IInv' /\ NoLateRows /\ [Next]_vars => NoLateRows'
<1> SUFFICES ASSUME IInv, IInv', NoLateRows, [Next]_vars PROVE NoLateRows'
  OBVIOUS
<1>1. ASSUME TimeoutOutlastsWrites, NEW i \in InFlight', ~(BucketOf(i) >= repairPointer')
      PROVE  FALSE
  <2>1. InFlight \subseteq Nat /\ monoton \in Nat /\ repairPointer' \in Nat
    BY IndexesInNat DEF IInv, TypeInv, TypeOK, TablesTypeOK
  <2>2. i \in Nat
    BY <2>1, NewPuts
  <2>3. BucketOf(i) \in Nat /\ BucketOf(i) < repairPointer'
    BY <1>1, <2>1, <2>2, BucketBounds
  <2>4. BucketOf(i) \in tombstones /\ NoPutInFlight(BucketOf(i))
    BY <1>1, <2>3, BehindPointer
  <2> QED BY <2>4, QuietStays
<1>2. ASSUME NEW w \in Workers, wPc'[w] = "skip"
      PROVE  \A i \in InFlight' : BucketOf(i) # wBucket'[w]
  <2>1. /\ wBucket'[w] = wBucket[w]
        /\ \/ wPc[w] = "skip"
           \/ wPc[w] = "list" /\ FullAndAcked(GetMessages(wBucket[w]))
    BY <1>2, WorkerActsOrRests, SkipMoves DEF WorkerRests
  <2>2. wBucket[w] \in tombstones
    BY <2>1 DEF IInv, WorkersInClosedBuckets
  <2>3. NoPutInFlight(wBucket[w])
    BY <2>1, <2>2, FullIsQuiet DEF NoLateRows
  <2> QED BY <2>1, <2>2, <2>3, QuietStays
<1>3. ASSUME NEW w \in Workers, TimeoutOutlastsWrites, wPc'[w] \in AfterWait
      PROVE  \A i \in InFlight' : BucketOf(i) # wBucket'[w]
  <2>1. /\ wBucket'[w] = wBucket[w]
        /\ wPc[w] \in AfterWait \/ (wPc[w] = "wait" /\ Settled(wBucket[w]))
    BY <1>3, WorkerActsOrRests, AfterWaitMoves DEF WorkerRests
  <2>2. wBucket[w] \in tombstones
    BY <2>1 DEF IInv, WorkersInClosedBuckets, AfterWait
  <2>3. NoPutInFlight(wBucket[w])
    BY <1>3, <2>1 DEF NoLateRows, Settled
  <2> QED BY <2>1, <2>2, <2>3, QuietStays
<1>4. AfterWait' = AfterWait /\ (TimeoutOutlastsWrites' <=> TimeoutOutlastsWrites)
  BY DEF AfterWait, TimeoutOutlastsWrites, Outlasts
<1> QED BY <1>1, <1>2, <1>3, <1>4 DEF NoLateRows, NoPutInFlight

LEMMA StepSkipped == IInv /\ NoLateRows /\ SkippedIsAcked /\ [Next]_vars => SkippedIsAcked'
<1> SUFFICES ASSUME IInv, NoLateRows, SkippedIsAcked, [Next]_vars,
                    NEW w \in Workers, wPc'[w] = "skip",
                    NEW i \in DOMAIN messages', BucketOf(i) = wBucket'[w]
             PROVE  messages'[i].isAcked
  BY DEF SkippedIsAcked
<1>1. \/ wPc[w] = "skip" /\ WorkerRests(w)
      \/ /\ wPc[w] = "list" /\ wBucket'[w] = wBucket[w]
         /\ FullAndAcked(GetMessages(wBucket[w])) /\ UNCHANGED messages
  BY WorkerActsOrRests, SkipMoves DEF WorkerRests
<1>2. CASE wPc[w] = "skip" /\ WorkerRests(w)
  <2>1. wBucket'[w] = wBucket[w] /\ wBucket[w] \in tombstones /\ NoPutInFlight(wBucket[w])
    BY <1>2 DEF WorkerRests, IInv, WorkersInClosedBuckets, NoLateRows
  <2>2. i \in DOMAIN messages
    BY <2>1, QuietStays
  <2>3. messages[i].isAcked
    BY <1>2, <2>1, <2>2 DEF SkippedIsAcked
  <2> QED BY <2>2, <2>3, AckedStays
<1>3. CASE FullAndAcked(GetMessages(wBucket[w])) /\ wBucket'[w] = wBucket[w] /\ UNCHANGED messages
  BY <1>3 DEF FullAndAcked, GetMessages
<1> QED BY <1>1, <1>2, <1>3

LEMMA StepUndelivered ==
    IInv /\ IInv' /\ NoUndeliveredLeftBehind /\ NoLateRows /\ SkippedIsAcked /\ WorkIsComplete
        /\ [Next]_vars
    => NoUndeliveredLeftBehind'
<1> SUFFICES ASSUME IInv, IInv', NoUndeliveredLeftBehind, NoLateRows, SkippedIsAcked, WorkIsComplete,
                    [Next]_vars, TimeoutOutlastsWrites, TimeoutOutlastsDelays,
                    NEW i \in DOMAIN messages', Undelivered(i)', ~(BucketOf(i) >= repairPointer')
             PROVE  FALSE
  BY DEF NoUndeliveredLeftBehind, TimeoutOutlastsWrites, TimeoutOutlastsDelays, Outlasts
<1>1. i \in Nat /\ repairPointer' \in Nat /\ repairPointer \in Nat
  BY DEF IInv, TypeOK, TablesTypeOK, IsMessageTable
<1>2. BucketOf(i) \in Nat /\ BucketOf(i) < repairPointer'
  BY <1>1, BucketBounds
<1>3. /\ BucketOf(i) \in tombstones
      /\ \/ BucketOf(i) < repairPointer
         \/ \E w \in Workers : wPc[w] \in {"skip", "advance"} /\ wBucket[w] = BucketOf(i)
      /\ NoPutInFlight(BucketOf(i))
  BY <1>2, BehindPointer
<1>4. i \in DOMAIN messages
  BY <1>3, QuietStays
<1>5. Undelivered(i)
  BY <1>4, StepRowsAsPut DEF RowsAsPut
<1>6. CASE BucketOf(i) < repairPointer
  BY <1>1, <1>2, <1>4, <1>5, <1>6 DEF NoUndeliveredLeftBehind
<1>7. ASSUME NEW w \in Workers, wPc[w] \in {"skip", "advance"}, wBucket[w] = BucketOf(i)
      PROVE  FALSE
  <2>1. CASE wPc[w] = "skip"
    BY <1>4, <1>5, <1>7, <2>1 DEF SkippedIsAcked, Undelivered
  <2>2. CASE wPc[w] = "advance"
    BY <1>4, <1>5, <1>7, <2>2 DEF WorkIsComplete, AfterWait
  <2> QED BY <1>7, <2>1, <2>2
<1> QED BY <1>3, <1>6, <1>7

(* What a step of a worker makes of its work. *)
LEMMA WorkMoves ==
    ASSUME IInv, NEW w \in Workers, WorkerActs(w), wPc[w] \in AfterWait, wPc'[w] \in AfterWait,
           wPc'[w] # "read"
    PROVE  \/ wPc[w] = "read" /\ UNCHANGED messages
              /\ wTodo'[w] = {m \in GetMessages(wBucket[w]) : ~m.isAcked /\ m.deliveryCount = 0}
              /\ wPc'[w] = "filter"
           \/ wPc[w] = "filter" /\ UNCHANGED messages /\ wTodo'[w] = {} /\ wTodo[w] = {}
           \/ wPc[w] = "filter" /\ UNCHANGED messages /\ wPc'[w] = "filter" /\ wTodo[w] # {}
              /\ wTodo'[w] = wTodo[w] \ {First(wTodo[w])}
              /\ ~messages[First(wTodo[w]).index].visible
           \/ wPc[w] # "read" /\ wTodo'[w] = wTodo[w]
              /\ (wPc'[w] = "advance" => wPc[w] = "advance")
           \/ wPc[w] = "ack" /\ wPc'[w] = "filter"
              /\ wTodo'[w] = wTodo[w] \ {First(wTodo[w])}
              /\ messages' = IF AckApplies(First(wTodo[w])) THEN AfterAck(First(wTodo[w])) ELSE messages
<1> USE DEF IInv, TypeOK, WorkerTypeOK, AfterWait
<1>1. CASE Poll(w) \/ Restart(w) \/ PassFails(w) \/ Stop(w)
  BY <1>1 DEF Poll, Restart, PassFails, Stop, EndPass
<1>2. CASE WaitForTimeout(w) \/ ListBucket(w) \/ CheckTombstone(w) \/ SkipBucket(w)
  BY <1>2 DEF WaitForTimeout, EndWait, ListBucket, CheckTombstone, SkipBucket
<1>3. CASE ReadBucket(w)
  BY <1>3 DEF ReadBucket, tableVars
<1>4. CASE FilterNext(w)
  BY <1>4 DEF FilterNext, WorkerGoTo, VisibleByNow, tableVars
<1>5. CASE WorkerReadMonoton(w) \/ WorkerIncrementMonoton(w) \/ PutCopy(w)
  BY <1>5 DEF WorkerReadMonoton, WorkerIncrementMonoton, PutCopy, WorkerGoTo
<1>6. CASE AckOriginal(w)
  BY <1>6 DEF AckOriginal
<1>7. CASE AdvanceRepair(w)
  BY <1>7 DEF AdvanceRepair, EndPass
<1> QED BY <1>1, <1>2, <1>3, <1>4, <1>5, <1>6, <1>7 DEF WorkerActs, WorkerProgress

(* The ack of a row that was never delivered goes through. *)
LEMMA FirstIsAcked ==
    ASSUME IInv, NEW w \in Workers, wPc[w] = "ack",
           Undelivered(First(wTodo[w]).index),
           messages' = IF AckApplies(First(wTodo[w])) THEN AfterAck(First(wTodo[w])) ELSE messages
    PROVE  messages'[First(wTodo[w]).index].isAcked
<1> DEFINE m == First(wTodo[w])
<1>1. m.index \in DOMAIN messages /\ m.version = 1
  BY FirstOfWork DEF IInv, WorkersHaveWork
<1>2. messages[m.index].version = 1
  BY <1>1 DEF Undelivered, IInv, VersionCountsUpdates
<1> HIDE DEF m
<1>3. messages' = AfterAck(m) /\ m.version \in Nat
  BY <1>1, <1>2 DEF AckApplies, m
<1>4. messages'[m.index].isAcked
  BY <1>1, <1>3, AckedFields
<1> QED BY <1>4 DEF m

LEMMA StepWorkIsComplete == IInv /\ NoLateRows /\ WorkIsComplete /\ [Next]_vars => WorkIsComplete'
<1> SUFFICES ASSUME IInv, NoLateRows, WorkIsComplete, [Next]_vars,
                    TimeoutOutlastsWrites, TimeoutOutlastsDelays,
                    NEW w \in Workers, wPc'[w] \in AfterWait,
                    NEW i \in DOMAIN messages', BucketOf(i) = wBucket'[w], Undelivered(i)'
             PROVE  /\ messages'[i].visible
                    /\ wPc'[w] # "read" => wPc'[w] # "advance" /\ \E m \in wTodo'[w] : m.index = i
  BY DEF WorkIsComplete, TimeoutOutlastsWrites, TimeoutOutlastsDelays, Outlasts, AfterWait
<1>1. \/ WorkerRests(w)
      \/ /\ WorkerActs(w) /\ wBucket'[w] = wBucket[w]
         /\ \/ wPc[w] \in AfterWait
            \/ wPc[w] = "wait" /\ wPc'[w] = "read" /\ Settled(wBucket[w]) /\ UNCHANGED messages
  BY WorkerActsOrRests, AfterWaitMoves
<1>2. CASE wPc[w] = "wait" /\ wPc'[w] = "read" /\ Settled(wBucket[w]) /\ UNCHANGED messages
           /\ wBucket'[w] = wBucket[w]
  BY <1>2 DEF Settled, Undelivered
<1>3. CASE wPc[w] \in AfterWait /\ wBucket'[w] = wBucket[w]
  <2>1. wBucket[w] \in tombstones /\ NoPutInFlight(wBucket[w])
    BY <1>3 DEF IInv, WorkersInClosedBuckets, AfterWait, NoLateRows
  <2>2. i \in DOMAIN messages
    BY <1>3, <2>1, QuietStays
  <2>3. Undelivered(i) /\ (messages[i].visible => messages'[i].visible)
    BY <2>2, StepRowsAsPut DEF RowsAsPut
  <2>4. /\ messages[i].visible
        /\ wPc[w] # "read" => wPc[w] # "advance" /\ \E m \in wTodo[w] : m.index = i
    BY <1>3, <2>2, <2>3 DEF WorkIsComplete
  <2>5. messages'[i].visible
    BY <2>3, <2>4
  <2>6. CASE WorkerRests(w)
    BY <2>4, <2>5, <2>6 DEF WorkerRests
  <2>7. ASSUME WorkerActs(w), wPc'[w] # "read"
        PROVE  wPc'[w] # "advance" /\ \E m \in wTodo'[w] : m.index = i
    <3> DEFINE first == First(wTodo[w])
    <3>1. CASE wPc[w] = "read" /\ wPc'[w] = "filter"
               /\ wTodo'[w] = {m \in GetMessages(wBucket[w]) : ~m.isAcked /\ m.deliveryCount = 0}
      <4>1. messages[i] \in wTodo'[w]
        BY <1>3, <2>2, <2>3, <3>1 DEF GetMessages, Undelivered
      <4>2. messages[i].index = i
        BY <2>2, RowTypes
      <4> QED BY <3>1, <4>1, <4>2
    <3>2. CASE wPc[w] = "filter" /\ wTodo[w] = {}
      BY <2>4, <3>2
    <3>3. CASE /\ wPc[w] = "filter" /\ wPc'[w] = "filter" /\ wTodo'[w] = wTodo[w] \ {first}
               /\ ~messages[first.index].visible
      <4>1. PICK m \in wTodo[w] : m.index = i
        BY <2>4, <3>3
      <4>2. m # first
        BY <2>4, <3>3, <4>1
      <4> QED BY <3>3, <4>1, <4>2
    <3>4. CASE wPc[w] # "read" /\ wTodo'[w] = wTodo[w] /\ (wPc'[w] = "advance" => wPc[w] = "advance")
      BY <2>4, <3>4
    <3>5. CASE /\ wPc[w] = "ack" /\ wPc'[w] = "filter" /\ wTodo'[w] = wTodo[w] \ {first}
               /\ messages' = IF AckApplies(first) THEN AfterAck(first) ELSE messages
      <4>1. PICK m \in wTodo[w] : m.index = i
        BY <2>4, <3>5
      <4>2. m # first
        BY <2>3, <3>5, <4>1, FirstIsAcked DEF Undelivered
      <4> QED BY <3>5, <4>1, <4>2
    <3> QED BY <1>3, <2>7, <3>1, <3>2, <3>3, <3>4, <3>5, WorkMoves
  <2> QED BY <1>1, <1>3, <2>5, <2>6, <2>7 DEF AfterWait
<1> QED BY <1>1, <1>2, <1>3 DEF WorkerRests

(***************************************************************************)
(* No payload is lost.  A row that is acked without a delivery was acked   *)
(* by a repair worker, whose copy of it is further on in the queue; the    *)
(* copy may have been given up for a copy in turn, but never for a row     *)
(* before it, so somebody is alive at the end.                             *)
(***************************************************************************)

LEMMA Survival ==
    ASSUME IInv, CopyFollowsOriginal, WorkOnRows, [Next]_vars, NEW i \in DOMAIN messages, Alive(i)
    PROVE  \E j \in DOMAIN messages' :
               j >= i /\ messages'[j].blob = messages[i].blob /\ Alive(j)'
<1> USE DEF Alive
<1>0. /\ RowsAsPut
      /\ \A j \in DOMAIN messages : j \in Nat /\ messages[j].deliveryCount \in Nat
      /\ \A j \in DOMAIN messages' : messages'[j].deliveryCount \in Nat
  BY StepRowsAsPut, RowTypes, StepIInv DEF IInv, TypeOK, TablesTypeOK, IsMessageTable, Message
<1>1. \A j \in DOMAIN messages : messages[j].deliveryCount > 0 => messages'[j].deliveryCount > 0
  BY <1>0, PartsOfIInv, EveryRowStep, RowStepKeeps, StepTypes DEF VersionInv, RowsLater, RowLater
<1>2. CASE messages[i].deliveryCount > 0 \/ ~messages'[i].isAcked
  BY <1>0, <1>1, <1>2 DEF RowsAsPut
<1>3. CASE ~(messages[i].deliveryCount > 0) /\ ~messages[i].isAcked /\ messages'[i].isAcked
  <2>1. CASE ~WorkerAcks
    <3>1. CASE Puts
      <4>1. PICK index \in InFlight, blob \in Payloads :
                index \notin DOMAIN messages /\ messages' = AfterPut(index, blob)
        BY <3>1 DEF Puts, PutApplies
      <4>2. messages'[i] = messages[i]
        BY <4>1, PutFields
      <4> QED BY <1>3, <4>2
    <3>2. CASE HandsOut
      <4>1. PICK m \in Snapshot : m.index \in DOMAIN messages /\ messages' = AfterConsume(m)
        BY <3>2 DEF HandsOut
      <4>2. CASE i = m.index
        BY <1>3, <4>1, <4>2, ConsumedFields
      <4>3. CASE i # m.index
        BY <1>3, <4>1, <4>3, ConsumedFields
      <4> QED BY <4>2, <4>3
    <3>3. CASE ClientAcks
      <4>1. PICK receipt \in receipts :
                /\ receipt.index \in DOMAIN messages
                /\ messages[receipt.index].deliveryCount > 0
                /\ messages' = AfterAck(receipt)
        BY <3>3, MatchingReceipt DEF ClientAcks
      <4>2. receipt.version \in Nat
        BY DEF IInv, TypeOK, ReaderTypeOK, PopReceipt
      <4>3. i # receipt.index
        BY <1>3, <4>1
      <4> QED BY <1>3, <4>1, <4>2, <4>3, AckedFields
    <3>4. CASE TimePasses
      <4>1. PICK j \in DOMAIN messages : messages' = AfterTimeout(j)
        BY <3>4 DEF TimePasses
      <4>2. CASE i = j
        BY <1>3, <4>1, <4>2, TimedOutFields
      <4>3. CASE i # j
        BY <1>3, <4>1, <4>3, TimedOutFields
      <4> QED BY <4>2, <4>3
    <3> QED BY <1>3, <2>1, <3>1, <3>2, <3>3, <3>4, EveryQueueStep DEF QueueStep
  <2>2. CASE WorkerAcks
    <3>1. PICK w \in Workers : wPc[w] = "ack" /\ messages' = AfterAck(First(wTodo[w]))
      BY <2>2 DEF WorkerAcks
    <3> DEFINE m == First(wTodo[w])
    <3>2. m \in wTodo[w] /\ m.index \in DOMAIN messages /\ m.version = 1
      BY <3>1, FirstOfWork DEF IInv, WorkersHaveWork
    <3>3. messages[m.index].blob = m.blob
      BY <3>2 DEF WorkOnRows
    <3>4. PICK j \in DOMAIN messages : j > m.index /\ messages[j].blob = m.blob /\ Alive(j)
      BY <3>1 DEF CopyFollowsOriginal
    <3> HIDE DEF m
    <3>5. messages' = AfterAck(m) /\ m.version \in Nat
      BY <3>1, <3>2 DEF m
    <3>6. i = m.index
      BY <1>3, <3>2, <3>5, AckedFields
    <3>7. j # m.index
      BY <1>0, <3>2, <3>4
    <3>8. messages'[j] = messages[j] /\ j \in DOMAIN messages'
      BY <3>2, <3>5, <3>7, AckedFields
    <3> QED BY <1>0, <3>3, <3>4, <3>6, <3>8
  <2> QED BY <2>1, <2>2
<1> QED BY <1>2, <1>3

LEMMA StepAccepted ==
    IInv /\ CopyFollowsOriginal /\ WorkOnRows /\ AcceptedIsKept /\ [Next]_vars => AcceptedIsKept'
<1> SUFFICES ASSUME IInv, CopyFollowsOriginal, WorkOnRows, AcceptedIsKept, [Next]_vars,
                    NEW i \in DOMAIN messages'
             PROVE  \E j \in DOMAIN messages' : messages'[j].blob = messages'[i].blob /\ Alive(j)'
  BY DEF AcceptedIsKept
<1>1. CASE i \in DOMAIN messages
  <2>1. messages'[i].blob = messages[i].blob
    BY <1>1, StepRowsAsPut DEF RowsAsPut
  <2>2. PICK j \in DOMAIN messages : messages[j].blob = messages[i].blob /\ Alive(j)
    BY <1>1 DEF AcceptedIsKept
  <2> QED BY <2>1, <2>2, Survival
<1>2. CASE i \notin DOMAIN messages
  BY <1>2, NewRows
<1> QED BY <1>1, <1>2

LEMMA StepWorkOnRows == IInv /\ WorkOnRows /\ [Next]_vars => WorkOnRows'
<1> SUFFICES ASSUME IInv, WorkOnRows, [Next]_vars, NEW w \in Workers, NEW m \in wTodo'[w]
             PROVE  messages'[m.index].blob = m.blob
  BY DEF WorkOnRows
<1>1. CASE m \in wTodo[w]
  BY <1>1, StepRowsAsPut DEF RowsAsPut, WorkOnRows, IInv, WorkOnFirstVersions
<1>2. CASE m \in GetMessages(wBucket[w])
  <2>1. m.index \in DOMAIN messages /\ m = messages[m.index]
    BY <1>2, RowsOfBucket DEF IInv, TypeOK, TablesTypeOK
  <2> QED BY <2>1, StepRowsAsPut DEF RowsAsPut
<1>3. m \in wTodo[w] \/ m \in GetMessages(wBucket[w])
  <2> USE DEF IInv, TypeOK, WorkerTypeOK
  <2>1. CASE WorkerRests(w)
    BY <2>1 DEF WorkerRests
  <2>2. CASE Poll(w) \/ Restart(w) \/ PassFails(w) \/ Stop(w) \/ WaitForTimeout(w)
    BY <2>2 DEF Poll, Restart, PassFails, Stop, EndPass, WaitForTimeout, EndWait, WorkerGoTo
  <2>3. CASE ListBucket(w) \/ CheckTombstone(w) \/ SkipBucket(w) \/ ReadBucket(w)
    BY <2>3 DEF ListBucket, CheckTombstone, SkipBucket, ReadBucket, EndPass, WorkerGoTo
  <2>4. CASE FilterNext(w) \/ WorkerReadMonoton(w) \/ WorkerIncrementMonoton(w)
    BY <2>4 DEF FilterNext, WorkerReadMonoton, WorkerIncrementMonoton, WorkerGoTo
  <2>5. CASE PutCopy(w) \/ AckOriginal(w) \/ AdvanceRepair(w)
    BY <2>5 DEF PutCopy, AckOriginal, AdvanceRepair, EndPass
  <2> QED BY <2>1, <2>2, <2>3, <2>4, <2>5, WorkerActsOrRests DEF WorkerActs, WorkerProgress
<1> QED BY <1>1, <1>2, <1>3

LEMMA AckMoves ==
    ASSUME IInv, NEW w \in Workers, WorkerActs(w), wPc'[w] = "ack"
    PROVE  (wPc[w] = "ack" /\ WorkerRests(w)) \/ PutCopy(w)
<1> USE DEF IInv, TypeOK, WorkerTypeOK
<1>1. CASE Poll(w) \/ Restart(w) \/ PassFails(w) \/ Stop(w)
  BY <1>1 DEF Poll, Restart, PassFails, Stop, EndPass, WorkerRests
<1>2. CASE WaitForTimeout(w) \/ CheckTombstone(w) \/ ListBucket(w) \/ SkipBucket(w)
  BY <1>2 DEF WaitForTimeout, EndWait, CheckTombstone, ListBucket, SkipBucket, EndPass, WorkerGoTo
<1>3. CASE ReadBucket(w) \/ FilterNext(w) \/ WorkerReadMonoton(w) \/ WorkerIncrementMonoton(w)
  BY <1>3 DEF ReadBucket, FilterNext, WorkerReadMonoton, WorkerIncrementMonoton, WorkerGoTo
<1>4. CASE AckOriginal(w) \/ AdvanceRepair(w)
  BY <1>4 DEF AckOriginal, AdvanceRepair, EndPass
<1> QED BY <1>1, <1>2, <1>3, <1>4 DEF WorkerActs, WorkerProgress

LEMMA StepCopies ==
    IInv /\ CopyFollowsOriginal /\ WorkOnRows /\ [Next]_vars => CopyFollowsOriginal'
<1> SUFFICES ASSUME IInv, CopyFollowsOriginal, WorkOnRows, [Next]_vars, NEW w \in Workers
             PROVE  /\ wPc'[w] = "put" => wIndex'[w] > First(wTodo'[w]).index
                    /\ wPc'[w] = "ack" =>
                          \E j \in DOMAIN messages' :
                              /\ j > First(wTodo'[w]).index
                              /\ messages'[j].blob = First(wTodo'[w]).blob
                              /\ Alive(j)'
  BY DEF CopyFollowsOriginal, First
<1> DEFINE first == First(wTodo[w])
<1>0. wTodo[w] # {} => first \in Message /\ first.index \in DOMAIN messages /\ first.index \in Nat
                       /\ first.blob \in Payloads
  BY FirstOfWork DEF Message
<1>1. ASSUME wPc'[w] = "put" PROVE wIndex'[w] > First(wTodo'[w]).index
  <2>1. CASE wPc[w] = "put" /\ WorkerRests(w)
    BY <2>1 DEF WorkerRests, CopyFollowsOriginal
  <2>2. CASE /\ wPc[w] = "monCas" /\ wTodo'[w] = wTodo[w]
             /\ wIndex'[w] = wIndex[w] /\ wIndex[w] = monoton
    <3>1. first.index \in DOMAIN messages /\ first.index \in Nat
      BY <1>0, <2>2 DEF IInv, WorkersHaveWork
    <3>2. first.index < monoton
      BY <3>1 DEF IInv, IndexesHaveOneOwner
    <3> HIDE DEF first
    <3>3. monoton > first.index
      BY <3>1, <3>2 DEF IInv, TypeOK, TablesTypeOK
    <3> QED BY <2>2, <3>3 DEF first
  <2> QED BY <1>1, <2>1, <2>2, WorkerActsOrRests, WorkerPuts DEF WorkerRests
<1>2. ASSUME wPc'[w] = "ack"
      PROVE  \E j \in DOMAIN messages' :
                 /\ j > First(wTodo'[w]).index
                 /\ messages'[j].blob = First(wTodo'[w]).blob
                 /\ Alive(j)'
  <2>1. CASE wPc[w] = "ack" /\ WorkerRests(w)
    <3>1. wTodo'[w] = wTodo[w] /\ first.index \in Nat
      BY <1>0, <2>1 DEF WorkerRests, IInv, WorkersHaveWork
    <3>2. PICK j \in DOMAIN messages : j > first.index /\ messages[j].blob = first.blob /\ Alive(j)
      BY <2>1 DEF CopyFollowsOriginal
    <3>3. PICK k \in DOMAIN messages' : k >= j /\ messages'[k].blob = messages[j].blob /\ Alive(k)'
      BY <3>2, Survival
    <3>4. j \in Nat /\ k \in Nat
      BY RowTypes, StepIInv DEF IInv, TypeOK, TablesTypeOK, IsMessageTable
    <3> HIDE DEF first
    <3>5. k > first.index
      BY <3>1, <3>2, <3>3, <3>4
    <3> QED BY <3>1, <3>2, <3>3, <3>5 DEF first
  <2>2. CASE PutCopy(w)
    <3>1. /\ wPc[w] = "put" /\ wTodo'[w] = wTodo[w]
          /\ wIndex[w] \notin DOMAIN messages
          /\ messages' = AfterPut(wIndex[w], first.blob)
          /\ wIndex[w] \in InFlight
      BY <2>2 DEF PutCopy, PutApplies, InFlight, WorkersPutting
    <3>2. first.blob \in Payloads
      BY <1>0, <3>1 DEF IInv, WorkersHaveWork
    <3>3. wIndex[w] > first.index
      BY <3>1 DEF CopyFollowsOriginal
    <3> HIDE DEF first
    <3>4. /\ wIndex[w] \in DOMAIN messages'
          /\ messages'[wIndex[w]].blob = first.blob
          /\ messages'[wIndex[w]].isAcked = FALSE
      BY <3>1, <3>2, PutFields
    <3> DEFINE copy == wIndex[w]
    <3>5. copy > first.index
      BY <3>3
    <3>6. messages'[copy].isAcked = FALSE /\ messages'[copy].blob = first.blob /\ copy \in DOMAIN messages'
      BY <3>4
    <3> HIDE DEF copy
    <3>7. \E j \in DOMAIN messages' : j > first.index /\ messages'[j].blob = first.blob /\ Alive(j)'
      BY <3>5, <3>6 DEF Alive
    <3> QED BY <3>1, <3>7 DEF first
  <2> QED BY <1>2, <2>1, <2>2, WorkerActsOrRests, AckMoves DEF WorkerRests
<1> QED BY <1>1, <1>2

-----------------------------------------------------------------------------
LEMMA StepRepair == IInv /\ RepairInv /\ [Next]_vars => RepairInv'
<1> SUFFICES ASSUME IInv, IInv', RepairInv, [Next]_vars PROVE RepairInv'
  BY StepIInv
<1> QED BY StepNoLateRows, StepSkipped, StepUndelivered, StepWorkIsComplete, StepAccepted,
           StepWorkOnRows, StepCopies DEF RepairInv

LEMMA InitRepair == Init => RepairInv
<1> SUFFICES ASSUME Init PROVE RepairInv
  OBVIOUS
<1>1. /\ DOMAIN messages = {}
      /\ InFlight = {}
      /\ \A w \in Workers : wPc[w] = "idle" /\ wTodo[w] = {}
  BY DEF Init, TablesInit, ProducerInit, WorkerInit, InFlight, ProducersPutting, WorkersPutting
<1> QED BY <1>1 DEF RepairInv, NoUndeliveredLeftBehind, AcceptedIsKept, NoLateRows, SkippedIsAcked,
                    WorkIsComplete, CopyFollowsOriginal, WorkOnRows, NoPutInFlight, AfterWait

(* What passes remember of the buckets they work on stays true of the      *)
(* tables, for any number of repair workers that overlap, die and restart. *)
THEOREM RepairIsSafe == Spec => []RepairInv
<1>1. Init => IInv /\ RepairInv
  BY InitIInv, InitRepair
<1>2. (IInv /\ RepairInv) /\ [Next]_vars => (IInv /\ RepairInv)'
  BY StepIInv, StepRepair
<1> QED BY <1>1, <1>2, PTL DEF Spec

(* RepairWorkerImpl: a timeout that outlasts slow puts and initial         *)
(* invisibilities leaves no message behind that nobody was given.          *)
THEOREM NothingLeftBehind == Spec => []NoUndeliveredLeftBehind
<1>1. RepairInv => NoUndeliveredLeftBehind
  BY DEF RepairInv
<1> QED BY <1>1, RepairIsSafe, PTL

(* README, at least once: with any timeout, and whatever interleaves or    *)
(* fails, a payload that was put was delivered or still can be.            *)
THEOREM NothingAcceptedIsLost == Spec => []AcceptedIsKept
<1>1. RepairInv => AcceptedIsKept
  BY DEF RepairInv
<1> QED BY <1>1, RepairIsSafe, PTL

LEMMA BucketPointerSteps ==
    ASSUME IInv, [Next]_vars
    PROVE  bucketPointer' \in {bucketPointer, bucketPointer + 1}
<1>1. CASE \E r \in Readers : AdvanceBucket(r)
  BY <1>1 DEF AdvanceBucket, PointerAfterMove
<1>2. CASE ~ \E r \in Readers : AdvanceBucket(r)
  <2>1. ASSUME NEW p \in Producers,
               PutRequest(p) \/ ProducerProgress(p) \/ PutFails(p) \/ PutUnanswered(p)
        PROVE  UNCHANGED bucketPointer
    BY <2>1 DEF PutRequest, ProducerProgress, ReadMonoton, IncrementMonoton, PutMessage,
                PutFails, PutUnanswered, tableVars
  <2>2. ASSUME NEW r \in Readers,
               StartRead(r) \/ ReaderProgress(r) \/ ConsumeUnanswered(r) \/ ReadFails(r)
        PROVE  UNCHANGED bucketPointer
    BY <1>2, <2>2 DEF ReaderProgress, StartRead, VisitInvis, ScanInvis, MoveInvisBack, MoveInvisOn,
                ReadBucketPointer, ScanBucket, ReadMonotonPast, TombstoneBucket,
                Consume, ConsumeUnanswered, ConsumeRefused, ReadFails, tableVars
  <2>3. ASSUME NEW a \in Ackers, BeginAck(a) \/ FinishAck(a) \/ AckFails(a)
        PROVE  UNCHANGED bucketPointer
    BY <2>3 DEF BeginAck, FinishAck, AckFails, tableVars
  <2>4. ASSUME NEW w \in Workers, WorkerActs(w) PROVE UNCHANGED bucketPointer
    BY <2>4 DEF WorkerActs, WorkerProgress, Poll, CheckTombstone, ListBucket, SkipBucket,
                WaitForTimeout, EndWait, ReadBucket, FilterNext, WorkerReadMonoton,
                WorkerIncrementMonoton, PutCopy, AckOriginal, AdvanceRepair, Restart,
                PassFails, Stop, tableVars
  <2>5. CASE UNCHANGED vars
    BY <2>5 DEF vars, tableVars
  <2>6. ASSUME NEW i \in DOMAIN messages, BecomeVisible(i) PROVE UNCHANGED bucketPointer
    BY <2>6 DEF BecomeVisible
  <2> QED BY <2>1, <2>2, <2>3, <2>4, <2>5, <2>6
          DEF Next, NewPut, PutStep, ReadStep, AckStep, RepairStep, Fault, WorkerActs
<1> QED BY <1>1, <1>2

(* Requests and passes that read a pointer long before move it on by one   *)
(* bucket or not at all, and the worker passes no bucket with a put in it. *)
THEOREM PointersForward == Spec => PointersMoveForward
<1> DEFINE Forward == /\ bucketPointer' \in {bucketPointer, bucketPointer + 1}
                      /\ repairPointer' \in {repairPointer, repairPointer + 1}
                      /\ TimeoutOutlastsWrites /\ repairPointer' # repairPointer =>
                             NoPutInFlight(repairPointer)
<1>1. IInv /\ RepairInv /\ [Next]_vars => [Forward]_vars
  <2> SUFFICES ASSUME IInv, RepairInv, [Next]_vars PROVE Forward
    OBVIOUS
  <2>1. ASSUME TimeoutOutlastsWrites, repairPointer' # repairPointer
        PROVE  NoPutInFlight(repairPointer)
    BY <2>1, RepairPointerSteps DEF RepairInv, NoLateRows, AfterWait
  <2> QED BY <2>1, BucketPointerSteps, RepairPointerSteps
<1>2. Spec => []IInv /\ []RepairInv
  BY Inductive, RepairIsSafe
<1> QED BY <1>1, <1>2, PTL DEF Spec, PointersMoveForward

(***************************************************************************)
(* The wait in milliseconds: what Settled says of the states in which a    *)
(* pass goes on follows from the sleep the worker computes.                *)
(***************************************************************************)

LEMMA ReadsAtType ==
    ASSUME NEW now \in Int, NEW tombstonedAt \in Int
    PROVE  ReadsAt(now, tombstonedAt) \in Int
<1>1. SecondsBetween(now, tombstonedAt + RepairTimeout) \in Int
  BY TimingAssumption DEF SecondsBetween, Second
<1> QED BY <1>1 DEF ReadsAt, SleepFor, Second

(* Dropping the fraction costs less than a second. *)
LEMMA WaitIsShortByLessThanASecond ==
    ASSUME NEW now \in Int, NEW tombstonedAt \in Int
    PROVE  ReadsAt(now, tombstonedAt) > tombstonedAt + RepairTimeout - Second
<1> DEFINE end == tombstonedAt + RepairTimeout
<1>0. end \in Int
  BY TimingAssumption
<1> HIDE DEF end
<1>1. CASE now <= end
  <2>1. /\ (end - now) \div 1000 \in Nat
        /\ end - now < ((end - now) \div 1000 + 1) * 1000
    <3>1. end - now \in Nat
      BY <1>0, <1>1
    <3> QED BY <3>1, Division
  <2> DEFINE seconds == (end - now) \div 1000
  <2>2. ReadsAt(now, tombstonedAt) = now + (IF seconds > 0 THEN seconds * 1000 ELSE 0)
    BY <1>1 DEF ReadsAt, SleepFor, SecondsBetween, Second, end
  <2>3. end - now < seconds * 1000 + 1000 /\ seconds \in Nat
    BY <2>1
  <2> HIDE DEF seconds
  <2>4. ReadsAt(now, tombstonedAt) > end - 1000
    BY <1>0, <2>2, <2>3
  <2> QED BY <2>4, TimingAssumption DEF end, Second
<1>2. CASE ~(now <= end)
  <2>1. (now - end) \div 1000 \in Nat
    <3>1. now - end \in Nat
      BY <1>0, <1>2
    <3> QED BY <3>1, Division
  <2>2. SecondsBetween(now, end) = -((now - end) \div 1000)
    BY <1>2 DEF SecondsBetween, Second
  <2>3. ~(SecondsBetween(now, end) > 0)
    BY <2>1, <2>2
  <2>4. ReadsAt(now, tombstonedAt) = now + 0
    BY <2>3 DEF ReadsAt, SleepFor, end
  <2>5. now > end - 1000
    BY <1>0, <1>2
  <2> QED BY <2>4, <2>5, TimingAssumption DEF end, Second
<1> QED BY <1>1, <1>2

(* A put that took its index before the bucket was closed is over when the *)
(* worker reads the bucket.  All moments are those of the worker's clock,  *)
(* but for the time in the tombstone, which another node's clock gave.     *)
THEOREM WritesAreOver ==
    ASSUME TimeoutOutlastsWrites,
           NEW now \in Int, NEW tombstonedAt \in Int, NEW closed \in Int,
           closed <= tombstonedAt + ClockSkew,
           NEW taken \in Int, taken <= closed,
           NEW written \in Int, written <= taken + LongestWrite
    PROVE  written < ReadsAt(now, tombstonedAt)
<1>1. written <= tombstonedAt + RepairTimeout - 1000
  BY TimingAssumption DEF TimeoutOutlastsWrites, Outlasts, Second
<1>2. ReadsAt(now, tombstonedAt) > tombstonedAt + RepairTimeout - 1000
  BY WaitIsShortByLessThanASecond DEF Second
<1> QED BY <1>1, <1>2, ReadsAtType, TimingAssumption

(* The initial invisibility of its row is over as well: next_visible_on    *)
(* counts from the clock of the node that put the message.                 *)
THEOREM DelaysAreOver ==
    ASSUME TimeoutOutlastsDelays,
           NEW now \in Int, NEW tombstonedAt \in Int, NEW closed \in Int,
           closed <= tombstonedAt + ClockSkew,
           NEW taken \in Int, taken <= closed,
           NEW written \in Int, written <= taken + LongestWrite,
           NEW nextVisibleOn \in Int, nextVisibleOn <= written + ClockSkew + LongestDelay
    PROVE  nextVisibleOn < ReadsAt(now, tombstonedAt)
<1>1. nextVisibleOn <= tombstonedAt + RepairTimeout - 1000
  BY TimingAssumption DEF TimeoutOutlastsDelays, Outlasts, Second
<1>2. ReadsAt(now, tombstonedAt) > tombstonedAt + RepairTimeout - 1000
  BY WaitIsShortByLessThanASecond DEF Second
<1> QED BY <1>1, <1>2, ReadsAtType, TimingAssumption
=============================================================================
