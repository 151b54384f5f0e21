--------------------------- MODULE ContractProofs ---------------------------
(***************************************************************************)
(* AngelQueue implements DeliveryContract.  Every step does to the rows    *)
(* one of the five things of QueueStep, or leaves them alone, and each is  *)
(* an action of the contract on the entries the rows stand for.  What the  *)
(* requests and passes rely on (IInv, RepairInv) supplies the conditions   *)
(* of those actions: a matching version means that nothing happened since  *)
(* the row was read, and the ack of a pass comes after its copy.           *)
(***************************************************************************)
EXTENDS RepairProofs

(* Only indexes below the bound are handed out. *)
IndexBound ==
    /\ monoton <= MaxIndex
    /\ \A p \in Producers : pPc[p] = "increment" => pIndex[p] < MaxIndex
    /\ \A w \in Workers : wPc[w] = "monCas" => wIndex[w] < MaxIndex

LEMMA ProducerBound ==
    ASSUME IInv, IndexBound, NEW p \in Producers, UNCHANGED workerVars,
           PutRequest(p) \/ ProducerProgress(p) \/ PutFails(p) \/ PutUnanswered(p)
    PROVE  IndexBound'
<1> USE MaxIndexAssumption DEF IndexBound, IInv, TypeOK, TablesTypeOK, ProducerTypeOK, workerVars
<1>1. CASE PutRequest(p) \/ PutFails(p)
  BY <1>1 DEF PutRequest, PutFails, RequestOver, tableVars
<1>2. CASE PutUnanswered(p) \/ PutMessage(p)
  BY <1>2 DEF PutUnanswered, PutMessage, RequestOver
<1>3. CASE ReadMonoton(p)
  BY <1>3 DEF ReadMonoton, tableVars
<1>4. CASE IncrementMonoton(p)
  BY <1>4 DEF IncrementMonoton, MonotonAfterIncrement, IncrementApplies
<1> QED BY <1>1, <1>2, <1>3, <1>4 DEF ProducerProgress

LEMMA WorkerBound ==
    ASSUME IInv, IndexBound, NEW w \in Workers, UNCHANGED producerVars, WorkerActs(w)
    PROVE  IndexBound'
<1> USE MaxIndexAssumption DEF IndexBound, IInv, TypeOK, TablesTypeOK, WorkerTypeOK, producerVars
<1>1. CASE Poll(w) \/ Restart(w) \/ PassFails(w) \/ Stop(w)
  BY <1>1 DEF Poll, Restart, PassFails, Stop, EndPass, tableVars
<1>2. CASE WaitForTimeout(w) \/ CheckTombstone(w) \/ ListBucket(w) \/ SkipBucket(w)
  BY <1>2 DEF WaitForTimeout, EndWait, CheckTombstone, ListBucket, SkipBucket, EndPass, WorkerGoTo,
              tableVars
<1>3. CASE ReadBucket(w) \/ FilterNext(w)
  BY <1>3 DEF ReadBucket, FilterNext, WorkerGoTo, tableVars
<1>4. CASE WorkerReadMonoton(w)
  BY <1>4 DEF WorkerReadMonoton, tableVars
<1>5. CASE WorkerIncrementMonoton(w)
  BY <1>5 DEF WorkerIncrementMonoton, WorkerGoTo, MonotonAfterIncrement, IncrementApplies
<1>6. CASE PutCopy(w) \/ AckOriginal(w) \/ AdvanceRepair(w)
  BY <1>6 DEF PutCopy, AckOriginal, AdvanceRepair, EndPass
<1> QED BY <1>1, <1>2, <1>3, <1>4, <1>5, <1>6 DEF WorkerActs, WorkerProgress

LEMMA StepBound == IInv /\ IndexBound /\ [Next]_vars => IndexBound'
<1> SUFFICES ASSUME IInv, IndexBound, [Next]_vars PROVE IndexBound'
  OBVIOUS
<1>1. ASSUME UNCHANGED <<monoton, producerVars, workerVars>> PROVE IndexBound'
  BY <1>1 DEF IndexBound, producerVars, workerVars
<1>2. ASSUME NEW r \in Readers, StartRead(r) \/ ReaderProgress(r) \/ ConsumeUnanswered(r) \/ ReadFails(r)
      PROVE  UNCHANGED monoton
  BY <1>2 DEF ReaderProgress, StartRead, VisitInvis, ScanInvis, MoveInvisBack, MoveInvisOn,
              ReadBucketPointer, ScanBucket, ReadMonotonPast, TombstoneBucket, AdvanceBucket,
              Consume, ConsumeUnanswered, ConsumeRefused, ReadFails, tableVars
<1>3. ASSUME NEW a \in Ackers, BeginAck(a) \/ FinishAck(a) \/ AckFails(a) PROVE UNCHANGED monoton
  BY <1>3 DEF BeginAck, FinishAck, AckFails, tableVars
<1>4. ASSUME NEW i \in DOMAIN messages, BecomeVisible(i) PROVE IndexBound'
  BY <1>1, <1>4 DEF BecomeVisible
<1>5. CASE UNCHANGED vars
  BY <1>1, <1>5 DEF vars, tableVars
<1>6. CASE Fault
  BY <1>1, <1>2, <1>3, <1>6, ProducerBound, WorkerBound DEF Fault, WorkerActs
<1> QED BY <1>1, <1>2, <1>3, <1>4, <1>5, <1>6, ProducerBound, WorkerBound
        DEF Next, NewPut, PutStep, ReadStep, AckStep, RepairStep, WorkerActs

LEMMA InitBound == Init => IndexBound
BY MaxIndexAssumption DEF Init, TablesInit, ProducerInit, WorkerInit, IndexBound

-----------------------------------------------------------------------------
(* What the contract sees of a row, and of the receipts. *)

EntryOf(row) ==
    [payload |-> row.blob, deliveries |-> row.deliveryCount, ready |-> row.visible, done |-> row.isAcked]
Entries == [i \in DOMAIN messages |-> EntryOf(messages[i])]
DeliveryOf(receipt) == [entry |-> receipt.index, number |-> receipt.version - 1]
Given == {DeliveryOf(receipt) : receipt \in receipts}

LEMMA PutIsAccept == IInv /\ IndexBound /\ Puts => Contract!ContractNext
<1> SUFFICES ASSUME IInv, IndexBound, Puts PROVE Contract!ContractNext
  OBVIOUS
<1>1. PICK index \in InFlight, blob \in Payloads :
          index \notin DOMAIN messages /\ messages' = AfterPut(index, blob) /\ UNCHANGED receipts
  BY DEF Puts, PutApplies
<1>2. index \in 0..(MaxIndex - 1)
  <2>1. index \in Nat /\ index < monoton /\ monoton \in Nat
    BY IndexesInNat DEF IInv, TypeInv, TypeOK, TablesTypeOK, IndexesHaveOneOwner
  <2> QED BY <2>1, MaxIndexAssumption DEF IndexBound
<1> DEFINE old == [i \in DOMAIN messages |-> EntryOf(messages[i])]
           new == [i \in DOMAIN messages' |-> EntryOf(messages'[i])]
           fresh == [payload |-> blob, deliveries |-> 0, ready |-> FALSE, done |-> FALSE]
           accepted == [i \in DOMAIN old \cup {index} |-> IF i = index THEN fresh ELSE old[i]]
<1>3. new = accepted
  <2>1. DOMAIN new = DOMAIN accepted
    BY <1>1, PutFields
  <2>2. new[index] = accepted[index]
    <3>1. EntryOf(messages'[index]) = fresh
      BY <1>1, PutFields DEF EntryOf
    <3>2. index \in DOMAIN messages'
      BY <1>1, PutFields
    <3> HIDE DEF fresh
    <3> QED BY <3>1, <3>2
  <2>3. ASSUME NEW i \in DOMAIN messages PROVE new[i] = accepted[i]
    BY <1>1, PutFields
  <2> QED BY <2>1, <2>2, <2>3
<1>4. Contract!Accept(index, blob)
  BY <1>1, <1>3 DEF Contract!Accept, EntryOf
<1> QED BY <1>2, <1>4 DEF Contract!ContractNext

LEMMA TimeIsBecomeReady == IInv /\ TimePasses => Contract!ContractNext
<1> SUFFICES ASSUME IInv, TimePasses PROVE Contract!ContractNext
  OBVIOUS
<1>1. PICK i \in DOMAIN messages :
          ~messages[i].visible /\ messages' = AfterTimeout(i) /\ UNCHANGED receipts
  BY DEF TimePasses
<1> DEFINE old == [j \in DOMAIN messages |-> EntryOf(messages[j])]
           new == [j \in DOMAIN messages' |-> EntryOf(messages'[j])]
           ready == [old EXCEPT ![i].ready = TRUE]
<1>2. new = ready
  <2>1. DOMAIN new = DOMAIN ready
    BY <1>1, TimedOutFields
  <2>2. ASSUME NEW j \in DOMAIN messages PROVE new[j] = ready[j]
    <3>1. CASE j = i
      BY <1>1, <3>1, TimedOutFields DEF EntryOf
    <3>2. CASE j # i
      BY <1>1, <3>2, TimedOutFields
    <3> QED BY <3>1, <3>2
  <2> QED BY <2>1, <2>2
<1>3. Contract!BecomeReady(i)
  BY <1>1, <1>2 DEF Contract!BecomeReady, EntryOf
<1> QED BY <1>1, <1>3 DEF Contract!ContractNext

LEMMA HandOutIsDeliver == IInv /\ HandsOut => Contract!ContractNext
<1> SUFFICES ASSUME IInv, HandsOut PROVE Contract!ContractNext
  OBVIOUS
<1>1. PICK m \in Snapshot :
          /\ m.index \in DOMAIN messages
          /\ ConsumeApplies(m)
          /\ messages[m.index].visible
          /\ messages[m.index].deliveryCount = m.deliveryCount
          /\ messages' = AfterConsume(m)
          /\ receipts' \in {receipts, receipts \cup {ReceiptOf(m)}}
  BY DEF HandsOut
<1> DEFINE id == m.index
           number == messages[id].deliveryCount + 1
           old == [i \in DOMAIN messages |-> EntryOf(messages[i])]
           new == [i \in DOMAIN messages' |-> EntryOf(messages'[i])]
           delivered == [old EXCEPT ![id].deliveries = number, ![id].ready = FALSE]
<1>2. new = delivered
  <2>1. DOMAIN new = DOMAIN delivered
    BY <1>1, ConsumedFields
  <2>2. ASSUME NEW i \in DOMAIN messages PROVE new[i] = delivered[i]
    <3>1. CASE i = id
      BY <1>1, <3>1, ConsumedFields DEF EntryOf
    <3>2. CASE i # id
      BY <1>1, <3>2, ConsumedFields
    <3> QED BY <3>1, <3>2
  <2> QED BY <2>1, <2>2
<1>3. old[id].deliveries + 1 = number /\ old[id].ready /\ ~old[id].done
  BY <1>1 DEF EntryOf, ConsumeApplies
<1>4. Given' \in {Given, Given \cup {[entry |-> id, number |-> number]}}
  <2>1. ~messages[id].isAcked /\ messages[id].version = m.version
    BY <1>1 DEF ConsumeApplies
  <2>2. m.version = number
    <3>1. messages[id].version = 1 + messages[id].deliveryCount + 0
      BY <1>1, <2>1 DEF IInv, VersionCountsUpdates
    <3> QED BY <1>1, <2>1, <3>1, RowTypes
  <2>3. DeliveryOf(ReceiptOf(m)) = [entry |-> id, number |-> number]
    BY <2>2 DEF DeliveryOf, ReceiptOf, Snapshot
  <2> HIDE DEF number, id
  <2>4. CASE receipts' = receipts
    BY <2>4 DEF Given
  <2>5. CASE receipts' = receipts \cup {ReceiptOf(m)}
    BY <2>3, <2>5 DEF Given
  <2> QED BY <1>1, <2>4, <2>5
<1>5. Contract!Deliver(id)
  BY <1>2, <1>3, <1>4 DEF Contract!Deliver, EntryOf, Given, DeliveryOf
<1> QED BY <1>1, <1>5 DEF Contract!ContractNext

(* The row of an ack, by whomever. *)
LEMMA AckedEntry ==
    ASSUME IInv, NEW m, m.index \in DOMAIN messages, m.version \in Nat,
           messages' = AfterAck(m)
    PROVE  [i \in DOMAIN messages' |-> EntryOf(messages'[i])] =
               [[i \in DOMAIN messages |-> EntryOf(messages[i])] EXCEPT ![m.index].done = TRUE]
<1> DEFINE old == [i \in DOMAIN messages |-> EntryOf(messages[i])]
           new == [i \in DOMAIN messages' |-> EntryOf(messages'[i])]
           acked == [old EXCEPT ![m.index].done = TRUE]
<1>1. DOMAIN new = DOMAIN acked
  BY AckedFields
<1>2. ASSUME NEW i \in DOMAIN messages PROVE new[i] = acked[i]
  <2>1. CASE i = m.index
    BY <2>1, AckedFields DEF EntryOf
  <2>2. CASE i # m.index
    BY <2>2, AckedFields
  <2> QED BY <2>1, <2>2
<1> QED BY <1>1, <1>2

LEMMA ClientAckIsAcknowledge == IInv /\ ClientAcks => Contract!ContractNext
<1> SUFFICES ASSUME IInv, ClientAcks PROVE Contract!ContractNext
  OBVIOUS
<1>1. PICK receipt \in receipts :
          AckApplies(receipt) /\ messages' = AfterAck(receipt) /\ UNCHANGED receipts
  BY DEF ClientAcks
<1> DEFINE id == receipt.index
<1>2. /\ id \in DOMAIN messages
      /\ ~messages[id].isAcked
      /\ receipt.version = 1 + messages[id].deliveryCount
      /\ messages[id].deliveryCount \in Nat
  BY <1>1, MatchingReceipt, RowTypes
<1>3. [entry |-> id, number |-> messages[id].deliveryCount] \in Given
  <2>1. DeliveryOf(receipt) = [entry |-> id, number |-> messages[id].deliveryCount]
    BY <1>2 DEF DeliveryOf
  <2> QED BY <2>1 DEF Given
<1>4. receipt.version \in Nat
  BY <1>2
<1>5. [i \in DOMAIN messages' |-> EntryOf(messages'[i])] =
          [[i \in DOMAIN messages |-> EntryOf(messages[i])] EXCEPT ![id].done = TRUE]
  BY <1>1, <1>2, <1>4, AckedEntry
<1>6. Contract!Acknowledge(id)
  BY <1>1, <1>2, <1>3, <1>5 DEF Contract!Acknowledge, EntryOf, Given, DeliveryOf
<1> QED BY <1>2, <1>6 DEF Contract!ContractNext

LEMMA WorkerAckIsWithdraw == IInv /\ RepairInv /\ WorkerAcks => Contract!ContractNext
<1> SUFFICES ASSUME IInv, RepairInv, WorkerAcks PROVE Contract!ContractNext
  OBVIOUS
<1>1. PICK w \in Workers :
          /\ wPc[w] = "ack"
          /\ AckApplies(First(wTodo[w]))
          /\ messages' = AfterAck(First(wTodo[w]))
          /\ UNCHANGED receipts
  BY DEF WorkerAcks
<1>2. PICK original : original = First(wTodo[w])
  OBVIOUS
<1> DEFINE id == original.index
<1>2a. original \in wTodo[w] /\ id \in DOMAIN messages /\ original.version = 1
  BY <1>1, <1>2, FirstOfWork DEF IInv, WorkersHaveWork
<1>3. messages[id].deliveryCount = 0 /\ ~messages[id].isAcked
  <2>1. /\ messages[id].version = 1
        /\ messages[id].version =
               1 + messages[id].deliveryCount + (IF messages[id].isAcked THEN 1 ELSE 0)
        /\ messages[id].deliveryCount \in Nat
    BY <1>2a, <1>1, <1>2, RowTypes DEF AckApplies, IInv, VersionCountsUpdates
  <2> QED BY <2>1
<1>4. PICK copy \in DOMAIN messages :
          copy > id /\ messages[copy].blob = messages[id].blob
          /\ (messages[copy].deliveryCount > 0 \/ ~messages[copy].isAcked)
  <2>1. \E j \in DOMAIN messages : j > id /\ messages[j].blob = original.blob /\ Alive(j)
    BY <1>1, <1>2 DEF RepairInv, CopyFollowsOriginal
  <2>2. messages[id].blob = original.blob
    BY <1>2a DEF RepairInv, WorkOnRows
  <2> QED BY <2>1, <2>2 DEF Alive
<1>5. copy # id
  BY <1>2a, <1>4, RowTypes
<1>6. [i \in DOMAIN messages' |-> EntryOf(messages'[i])] =
          [[i \in DOMAIN messages |-> EntryOf(messages[i])] EXCEPT ![id].done = TRUE]
  BY <1>2a, <1>1, <1>2, AckedEntry
<1>7. Contract!Withdraw(id)
  BY <1>2a, <1>1, <1>3, <1>4, <1>5, <1>6 DEF Contract!Withdraw, Contract!Alive, EntryOf
<1> QED BY <1>2a, <1>7 DEF Contract!ContractNext

-----------------------------------------------------------------------------
LEMMA StepContract ==
    IInv /\ RepairInv /\ IndexBound /\ [Next]_vars => [Contract!ContractNext]_(Contract!contractVars)
<1> SUFFICES ASSUME IInv, RepairInv, IndexBound, QueueStep
             PROVE  [Contract!ContractNext]_(Contract!contractVars)
  BY EveryQueueStep
<1>1. CASE UNCHANGED <<messages, receipts>>
  BY <1>1 DEF Contract!contractVars
<1> QED BY <1>1, PutIsAccept, HandOutIsDeliver, ClientAckIsAcknowledge, WorkerAckIsWithdraw,
           TimeIsBecomeReady DEF QueueStep

LEMMA InitContract == Init => Contract!ContractInit
BY DEF Init, TablesInit, ReaderInit, Contract!ContractInit

(* What clients see of the queue is what the contract allows, for any      *)
(* number of requests and workers, any bucket size and any timeout.        *)
THEOREM QueueKeepsContract == Spec => ImplementsContract
<1>1. Init => IInv /\ RepairInv /\ IndexBound
  BY InitIInv, InitRepair, InitBound
<1>2. (IInv /\ RepairInv /\ IndexBound) /\ [Next]_vars => (IInv /\ RepairInv /\ IndexBound)'
  BY StepIInv, StepRepair, StepBound
<1> QED BY <1>1, <1>2, InitContract, StepContract, PTL
        DEF Spec, ImplementsContract, Contract!ContractSpec
=============================================================================
