--------------------------- MODULE InvariantProofs ---------------------------
(***************************************************************************)
(* The inductive invariant IInv of the queue: what the version conditions  *)
(* are worth, where the invisibility pointer can be, and, with the indexes *)
(* and buckets of AngelQueueProofs, the whole.  Then what it says of       *)
(* requests and passes that start over or walk on.                         *)
(***************************************************************************)
EXTENDS AngelQueueProofs

(***************************************************************************)
(* What the version conditions are worth.  A request acts on a row it read *)
(* statements earlier; when the version still matches, everything else it  *)
(* read still holds (SnapshotsMatchVersions), because a row only moves on  *)
(* in the order RowLater.                                                  *)
(***************************************************************************)

RowLater(old, new) ==
    /\ old.version <= new.version
    /\ old.deliveryCount <= new.deliveryCount
    /\ old.isAcked => new.isAcked
    /\ old.version = new.version =>
           /\ new.isAcked = old.isAcked
           /\ new.deliveryCount = old.deliveryCount
           /\ old.visible => new.visible

RowsLater ==
    \A i \in DOMAIN messages : i \in DOMAIN messages' /\ RowLater(messages[i], messages'[i])

(* The five things a step can do to the message table. *)
Putting ==
    \E index \in Nat, blob \in Payloads : PutApplies(index) /\ messages' = AfterPut(index, blob)
Consuming ==
    \E m \in Snapshot :
        /\ m.index \in DOMAIN messages
        /\ ConsumeApplies(m)
        /\ messages[m.index].visible
        /\ messages[m.index].deliveryCount = m.deliveryCount
        /\ messages' = AfterConsume(m)
Acking ==
    \E m \in PopReceipt :
        /\ m.index \in DOMAIN messages
        /\ AckApplies(m)
        /\ ~messages[m.index].isAcked
        /\ messages' = AfterAck(m)
TimingOut == \E i \in DOMAIN messages : messages' = AfterTimeout(i)

RowStep == Putting \/ Consuming \/ Acking \/ TimingOut \/ UNCHANGED messages

VersionInv ==
    /\ TypeInv
    /\ VersionCountsUpdates
    /\ SnapshotsMatchVersions
    /\ ReceiptsOfDeliveries
    /\ WorkOnFirstVersions

-----------------------------------------------------------------------------
(* What each statement makes of the row it is about. *)

LEMMA ConsumedRow ==
    ASSUME IsMessageTable(messages), NEW m, m.index \in DOMAIN messages,
           m.version \in Nat, m.deliveryCount \in Nat
    PROVE  /\ AfterConsume(m)[m.index].version = m.version + 1
           /\ AfterConsume(m)[m.index].deliveryCount = m.deliveryCount + 1
           /\ AfterConsume(m)[m.index].isAcked = messages[m.index].isAcked
<1> DEFINE table == AfterConsume(m)
           row1 == [messages[m.index] EXCEPT !.version = m.version + 1]
           row2 == [row1 EXCEPT !.deliveryCount = m.deliveryCount + 1]
<1>1. messages[m.index] \in Message
  BY DEF IsMessageTable
<1>2. table[m.index] = [row2 EXCEPT !.visible = FALSE]
  BY DEF AfterConsume
<1>3. /\ row1 \in Message
      /\ row1.version = m.version + 1
      /\ row1.isAcked = messages[m.index].isAcked
  BY <1>1 DEF Message
<1> HIDE DEF row1, table
<1>4. /\ row2 \in Message
      /\ row2.version = m.version + 1
      /\ row2.deliveryCount = m.deliveryCount + 1
      /\ row2.isAcked = messages[m.index].isAcked
  BY <1>3 DEF Message
<1> HIDE DEF row2
<1>5. /\ table[m.index].version = m.version + 1
      /\ table[m.index].deliveryCount = m.deliveryCount + 1
      /\ table[m.index].isAcked = messages[m.index].isAcked
  BY <1>2, <1>4 DEF Message
<1> QED BY <1>5 DEF table

LEMMA AckedRow ==
    ASSUME IsMessageTable(messages), NEW m, m.index \in DOMAIN messages, m.version \in Nat
    PROVE  /\ AfterAck(m)[m.index].version = m.version + 1
           /\ AfterAck(m)[m.index].isAcked
           /\ AfterAck(m)[m.index].deliveryCount = messages[m.index].deliveryCount
           /\ \A i \in DOMAIN messages \ {m.index} : AfterAck(m)[i] = messages[i]
<1> DEFINE table == AfterAck(m)
           row1 == [messages[m.index] EXCEPT !.version = m.version + 1]
<1>1. messages[m.index] \in Message
  BY DEF IsMessageTable
<1>2. table[m.index] = [row1 EXCEPT !.isAcked = TRUE]
  BY DEF AfterAck
<1>3. /\ row1 \in Message
      /\ row1.version = m.version + 1
      /\ row1.deliveryCount = messages[m.index].deliveryCount
  BY <1>1 DEF Message
<1>4. \A i \in DOMAIN messages \ {m.index} : table[i] = messages[i]
  BY DEF AfterAck
<1> HIDE DEF row1, table
<1>5. /\ table[m.index].version = m.version + 1
      /\ table[m.index].isAcked
      /\ table[m.index].deliveryCount = messages[m.index].deliveryCount
  BY <1>2, <1>3 DEF Message
<1> QED BY <1>4, <1>5 DEF table

LEMMA TimedOutRow ==
    ASSUME IsMessageTable(messages), NEW index \in DOMAIN messages
    PROVE  /\ AfterTimeout(index)[index].version = messages[index].version
           /\ AfterTimeout(index)[index].deliveryCount = messages[index].deliveryCount
           /\ AfterTimeout(index)[index].isAcked = messages[index].isAcked
           /\ AfterTimeout(index)[index].visible
           /\ \A i \in DOMAIN messages \ {index} : AfterTimeout(index)[i] = messages[i]
<1> DEFINE table == AfterTimeout(index)
<1>1. messages[index] \in Message
  BY DEF IsMessageTable
<1>2. table[index] = [messages[index] EXCEPT !.visible = TRUE]
  BY DEF AfterTimeout
<1>3. \A i \in DOMAIN messages \ {index} : table[i] = messages[i]
  BY DEF AfterTimeout
<1> HIDE DEF table
<1>4. /\ table[index].version = messages[index].version
      /\ table[index].deliveryCount = messages[index].deliveryCount
      /\ table[index].isAcked = messages[index].isAcked
      /\ table[index].visible
  BY <1>1, <1>2 DEF Message
<1> QED BY <1>3, <1>4 DEF table

(* Every row moves on, and its version counts the step. *)
LEMMA RowStepKeeps ==
    ASSUME TypeInv, TypeInv', VersionCountsUpdates, RowStep
    PROVE  /\ RowsLater
           /\ VersionCountsUpdates'
           /\ \A i \in DOMAIN messages :
                  messages'[i].deliveryCount > messages[i].deliveryCount =>
                      messages[i].visible /\ ~messages[i].isAcked
           /\ \A i \in DOMAIN messages :
                  messages[i].isAcked =>
                      messages'[i].isAcked /\ messages'[i].deliveryCount = messages[i].deliveryCount
<1>1. IsMessageTable(messages) /\ IsMessageTable(messages')
  BY DEF TypeInv, TypeOK, TablesTypeOK, IsMessageTable, Message
<1>2. \A i \in DOMAIN messages : /\ messages[i].version \in Nat /\ messages[i].deliveryCount \in Nat
                                 /\ messages[i].isAcked \in BOOLEAN
  BY <1>1 DEF IsMessageTable, Message
<1> USE DEF RowsLater, RowLater, VersionCountsUpdates
<1>3. CASE Putting
  <2>1. PICK index \in Nat, blob \in Payloads : PutApplies(index) /\ messages' = AfterPut(index, blob)
    BY <1>3 DEF Putting
  <2>2. /\ DOMAIN messages' = DOMAIN messages \cup {index}
        /\ \A i \in DOMAIN messages : i # index => messages'[i] = messages[i]
    BY <1>1, <2>1, PutRows
  <2>3. /\ messages'[index].version = 1 /\ messages'[index].deliveryCount = 0
        /\ ~messages'[index].isAcked
    BY <2>1 DEF AfterPut
  <2> QED BY <1>2, <2>1, <2>2, <2>3 DEF PutApplies
<1>4. CASE Consuming
  <2>1. PICK m \in Snapshot :
            /\ m.index \in DOMAIN messages
            /\ ConsumeApplies(m)
            /\ messages[m.index].visible
            /\ messages[m.index].deliveryCount = m.deliveryCount
            /\ messages' = AfterConsume(m)
    BY <1>4 DEF Consuming
  <2>2. m.version \in Nat /\ m.deliveryCount \in Nat
    BY DEF Snapshot
  <2>3. /\ messages'[m.index].version = m.version + 1
        /\ messages'[m.index].deliveryCount = m.deliveryCount + 1
        /\ messages'[m.index].isAcked = messages[m.index].isAcked
    BY <1>1, <2>1, <2>2, ConsumedRow
  <2>4. /\ DOMAIN messages' = DOMAIN messages
        /\ \A i \in DOMAIN messages : i # m.index => messages'[i] = messages[i]
    BY <1>1, <2>1, <2>2, ConsumeRows
  <2> QED BY <1>2, <2>1, <2>2, <2>3, <2>4 DEF ConsumeApplies
<1>5. CASE Acking
  <2>1. PICK m \in PopReceipt :
            /\ m.index \in DOMAIN messages
            /\ AckApplies(m)
            /\ ~messages[m.index].isAcked
            /\ messages' = AfterAck(m)
    BY <1>5 DEF Acking
  <2>2. m.version \in Nat
    BY DEF PopReceipt
  <2>3. DOMAIN messages' = DOMAIN messages
    BY <1>1, <2>1, <2>2, AckRows
  <2>4. /\ messages'[m.index].version = m.version + 1
        /\ messages'[m.index].isAcked
        /\ messages'[m.index].deliveryCount = messages[m.index].deliveryCount
        /\ \A i \in DOMAIN messages \ {m.index} : messages'[i] = messages[i]
    BY <1>1, <2>1, <2>2, AckedRow
  <2> QED BY <1>2, <2>1, <2>2, <2>3, <2>4 DEF AckApplies
<1>6. CASE TimingOut
  <2>1. PICK index \in DOMAIN messages : messages' = AfterTimeout(index)
    BY <1>6 DEF TimingOut
  <2>2. DOMAIN messages' = DOMAIN messages
    BY <1>1, <2>1, TimeoutRows
  <2> QED BY <1>1, <1>2, <2>1, <2>2, TimedOutRow
<1>7. CASE UNCHANGED messages
  BY <1>2, <1>7
<1> QED BY <1>3, <1>4, <1>5, <1>6, <1>7 DEF RowStep

-----------------------------------------------------------------------------
(* Every step is one of the five, on the strength of what its maker read.  *)

LEMMA ProducerRowStep ==
    ASSUME VersionInv, NEW p \in Producers,
           PutRequest(p) \/ ProducerProgress(p) \/ PutFails(p) \/ PutUnanswered(p)
    PROVE  RowStep
<1>1. CASE PutMessage(p) \/ PutUnanswered(p)
  <2>1. pIndex[p] \in Nat /\ pBlob[p] \in Payloads
    BY <1>1 DEF PutMessage, PutUnanswered, VersionInv, TypeInv, TypeOK, ProducerTypeOK
  <2> QED BY <1>1, <2>1 DEF PutMessage, PutUnanswered, RowStep, Putting
<1>2. CASE PutRequest(p) \/ ReadMonoton(p) \/ IncrementMonoton(p) \/ PutFails(p)
  BY <1>2 DEF PutRequest, ReadMonoton, IncrementMonoton, PutFails, tableVars, RowStep
<1> QED BY <1>1, <1>2 DEF ProducerProgress

LEMMA ReaderRowStep ==
    ASSUME VersionInv, NEW r \in Readers,
           StartRead(r) \/ ReaderProgress(r) \/ ConsumeUnanswered(r) \/ ReadFails(r)
    PROVE  RowStep
<1>1. CASE Consume(r) \/ ConsumeUnanswered(r)
  <2>1. /\ rPc[r] \in {"consume", "consumeInvis"}
        /\ ConsumeApplies(rMessage[r])
        /\ messages' = AfterConsume(rMessage[r])
    BY <1>1 DEF Consume, ConsumeUnanswered
  <2>2. /\ rMessage[r].index \in DOMAIN messages
        /\ messages[rMessage[r].index].visible
        /\ messages[rMessage[r].index].deliveryCount = rMessage[r].deliveryCount
    BY <2>1 DEF ConsumeApplies, VersionInv, SnapshotsMatchVersions
  <2>3. rMessage[r] \in Snapshot
    BY DEF VersionInv, TypeInv, TypeOK, ReaderTypeOK
  <2> QED BY <2>1, <2>2, <2>3 DEF RowStep, Consuming
<1>2. CASE ~(Consume(r) \/ ConsumeUnanswered(r))
  BY <1>2 DEF ReaderProgress, StartRead, VisitInvis, ScanInvis, MoveInvisBack, MoveInvisOn,
       ReadBucketPointer, ScanBucket, ReadMonotonPast, TombstoneBucket, AdvanceBucket,
       ConsumeRefused, ReadFails, tableVars, RowStep
<1> QED BY <1>1, <1>2

LEMMA AckerRowStep ==
    ASSUME VersionInv, NEW a \in Ackers, BeginAck(a) \/ FinishAck(a) \/ AckFails(a)
    PROVE  RowStep
<1>1. CASE FinishAck(a) /\ AckApplies(aReceipt[a])
  <2>1. aReceipt[a] \in PopReceipt /\ aReceipt[a].version \in Nat
    BY DEF VersionInv, TypeInv, TypeOK, ReaderTypeOK, PopReceipt
  <2>2. /\ aReceipt[a].index \in DOMAIN messages
        /\ aReceipt[a].version <= 1 + messages[aReceipt[a].index].deliveryCount
    BY <1>1 DEF FinishAck, VersionInv, ReceiptsOfDeliveries
  <2>3. messages[aReceipt[a].index].deliveryCount \in Nat
    BY <2>2 DEF VersionInv, TypeInv, TypeOK, TablesTypeOK, IsMessageTable, Message
  <2>4. ~messages[aReceipt[a].index].isAcked
    BY <1>1, <2>1, <2>2, <2>3 DEF AckApplies, VersionInv, VersionCountsUpdates
  <2> QED BY <1>1, <2>1, <2>2, <2>4 DEF FinishAck, RowStep, Acking
<1>2. CASE BeginAck(a) \/ AckFails(a) \/ (FinishAck(a) /\ ~AckApplies(aReceipt[a]))
  BY <1>2 DEF BeginAck, FinishAck, AckFails, tableVars, RowStep
<1> QED BY <1>1, <1>2

LEMMA WorkerRowStep ==
    ASSUME VersionInv, NEW w \in Workers,
           \/ Poll(w) \/ WorkerProgress(w) \/ EndWait(w) \/ Restart(w)
           \/ PassFails(w) \/ Stop(w)
    PROVE  RowStep
<1> DEFINE first == First(wTodo[w])
           receipt == [index |-> first.index, version |-> first.version]
<1>1. wTodo[w] # {} => first \in wTodo[w] /\ first \in Message
  BY FirstIsOne DEF VersionInv, TypeInv, TypeOK, WorkerTypeOK, Message
<1>2. CASE PutCopy(w)
  <2>1. wIndex[w] \in Nat /\ first.blob \in Payloads
    BY <1>1, <1>2 DEF PutCopy, VersionInv, TypeInv, TypeOK, WorkerTypeOK, WorkersHaveWork, Message
  <2> QED BY <1>2, <2>1 DEF PutCopy, RowStep, Putting
<1>3. CASE AckOriginal(w) /\ AckApplies(first)
  <2>1. first \in wTodo[w] /\ first \in Message
    BY <1>1, <1>3 DEF AckOriginal, VersionInv, TypeInv, WorkersHaveWork
  <2>2. first.index \in DOMAIN messages /\ first.version = 1
    BY <2>1 DEF VersionInv, WorkOnFirstVersions
  <2>3. messages[first.index].deliveryCount \in Nat
    BY <2>2 DEF VersionInv, TypeInv, TypeOK, TablesTypeOK, IsMessageTable, Message
  <2>4. ~messages[first.index].isAcked
    BY <1>3, <2>2, <2>3 DEF AckApplies, VersionInv, VersionCountsUpdates
  <2>5. receipt \in PopReceipt
    BY <2>1 DEF PopReceipt, Message
  <2>6. messages' = AfterAck(receipt) /\ AckApplies(receipt)
    BY <1>3 DEF AckOriginal, AckApplies, AfterAck
  <2> HIDE DEF first
  <2> QED BY <2>2, <2>4, <2>5, <2>6 DEF RowStep, Acking
<1>4. CASE ~PutCopy(w) /\ ~(AckOriginal(w) /\ AckApplies(first))
  BY <1>4 DEF WorkerProgress, Poll, CheckTombstone, ListBucket, SkipBucket, EndWait, ReadBucket,
       FilterNext, WorkerReadMonoton, WorkerIncrementMonoton, AckOriginal, AdvanceRepair, Restart,
       PassFails, Stop, tableVars, RowStep
<1> QED BY <1>2, <1>3, <1>4

LEMMA EveryRowStep == VersionInv /\ [Next]_vars => RowStep
<1> SUFFICES ASSUME VersionInv, [Next]_vars PROVE RowStep
  OBVIOUS
<1>1. ASSUME NEW i \in DOMAIN messages, BecomeVisible(i) PROVE RowStep
  BY <1>1 DEF BecomeVisible, RowStep, TimingOut
<1>2. CASE Fault
  BY <1>2, ProducerRowStep, ReaderRowStep, AckerRowStep, WorkerRowStep DEF Fault
<1>3. CASE UNCHANGED vars
  BY <1>3 DEF vars, tableVars, RowStep
<1> QED BY <1>1, <1>2, <1>3, ProducerRowStep, ReaderRowStep, AckerRowStep, WorkerRowStep
        DEF Next, NewPut, PutStep, ReadStep, AckStep, RepairStep, WaitForTimeout

-----------------------------------------------------------------------------
(* What requests and passes remember stays true of the rows as they are,   *)
(* whoever else moves the rows on.                                         *)

Consumes(pc) == pc \in {"consume", "consumeInvis"}

Matches(snapshot) ==
    /\ snapshot.index \in DOMAIN messages
    /\ snapshot.version <= messages[snapshot.index].version
    /\ snapshot.version = messages[snapshot.index].version =>
           /\ messages[snapshot.index].visible
           /\ ~messages[snapshot.index].isAcked
           /\ messages[snapshot.index].deliveryCount = snapshot.deliveryCount

LEMMA SnapshotsKept ==
    ASSUME TypeInv, TypeInv', RowsLater, SnapshotsMatchVersions,
           \A r \in Readers : Consumes(rPc'[r]) =>
               \/ Consumes(rPc[r]) /\ rMessage'[r] = rMessage[r]
               \/ Matches(rMessage'[r]) /\ UNCHANGED messages
    PROVE  SnapshotsMatchVersions'
<1>1. \A i \in DOMAIN messages : messages[i].version \in Nat /\ messages'[i].version \in Nat
  BY DEF TypeInv, TypeOK, TablesTypeOK, IsMessageTable, Message, RowsLater
<1>2. \A r \in Readers : rMessage[r].version \in Nat
  BY DEF TypeInv, TypeOK, ReaderTypeOK, Snapshot
<1> SUFFICES ASSUME NEW r \in Readers, Consumes(rPc'[r]) PROVE Matches(rMessage[r])'
  BY DEF SnapshotsMatchVersions, Consumes, Matches
<1>3. CASE Matches(rMessage'[r]) /\ UNCHANGED messages
  BY <1>3 DEF Matches
<1>4. CASE Consumes(rPc[r]) /\ rMessage'[r] = rMessage[r]
  <2>1. Matches(rMessage[r])
    BY <1>4 DEF SnapshotsMatchVersions, Consumes, Matches
  <2> QED BY <1>1, <1>2, <1>4, <2>1 DEF Matches, RowsLater, RowLater
<1> QED BY <1>3, <1>4

LEMMA ReceiptsKept ==
    ASSUME TypeInv, TypeInv', RowsLater, ReceiptsOfDeliveries,
           \A receipt \in receipts' : receipt \in receipts
               \/ /\ receipt.index \in DOMAIN messages'
                  /\ receipt.version \in 2..(1 + messages'[receipt.index].deliveryCount),
           \A a \in Ackers : aPc'[a] = "ack" => aReceipt'[a] \in receipts'
    PROVE  ReceiptsOfDeliveries'
<1>1. \A i \in DOMAIN messages : messages[i].deliveryCount \in Nat /\ messages'[i].deliveryCount \in Nat
  BY DEF TypeInv, TypeOK, TablesTypeOK, IsMessageTable, Message, RowsLater
<1>2. ASSUME NEW receipt \in receipts
      PROVE  /\ receipt.index \in DOMAIN messages'
             /\ receipt.version \in 2..(1 + messages'[receipt.index].deliveryCount)
  <2>1. /\ receipt.index \in DOMAIN messages
        /\ receipt.version \in 2..(1 + messages[receipt.index].deliveryCount)
    BY <1>2 DEF ReceiptsOfDeliveries
  <2> QED BY <1>1, <2>1 DEF RowsLater, RowLater
<1> QED BY <1>2 DEF ReceiptsOfDeliveries

LEMMA WorkKept ==
    ASSUME RowsLater, WorkOnFirstVersions,
           \A w \in Workers : wTodo'[w] \subseteq wTodo[w]
               \/ \A m \in wTodo'[w] :
                      m.index \in DOMAIN messages /\ m.version = 1 /\ m.deliveryCount = 0
    PROVE  WorkOnFirstVersions'
BY DEF RowsLater, WorkOnFirstVersions

LEMMA ReaderSnapshots ==
    ASSUME VersionInv, TypeInv', RowsLater, NEW r \in Readers,
           StartRead(r) \/ ReaderProgress(r) \/ ConsumeUnanswered(r) \/ ReadFails(r)
    PROVE  SnapshotsMatchVersions'
<1> USE DEF VersionInv
<1>0. /\ rPc \in [Readers -> ReaderPc] /\ rMessage \in [Readers -> Snapshot]
      /\ IsMessageTable(messages)
  BY DEF TypeInv, TypeOK, ReaderTypeOK, TablesTypeOK
<1>1. ASSUME NEW m \in Message, NEW pc, Remember(r, m, pc), UNCHANGED messages,
             Consumes(pc) => m.index \in DOMAIN messages /\ m = messages[m.index]
                             /\ m.visible /\ ~m.isAcked
      PROVE  SnapshotsMatchVersions'
  <2>1. /\ SnapshotOf(m).index = m.index
        /\ SnapshotOf(m).version = m.version
        /\ SnapshotOf(m).deliveryCount = m.deliveryCount
    BY DEF SnapshotOf
  <2>2. m.version \in Nat
    BY DEF Message
  <2>3. Consumes(pc) => Matches(SnapshotOf(m))
    BY <1>1, <2>1, <2>2 DEF Matches
  <2>4. \A q \in Readers : IF q = r THEN rPc'[q] = pc /\ rMessage'[q] = SnapshotOf(m)
                                    ELSE rPc'[q] = rPc[q] /\ rMessage'[q] = rMessage[q]
    BY <1>0, <1>1 DEF Remember
  <2> QED BY <1>1, <2>3, <2>4, SnapshotsKept
<1>2. ASSUME ~Consumes(rPc'[r]),
             \A q \in Readers \ {r} : rPc'[q] = rPc[q] /\ rMessage'[q] = rMessage[q]
      PROVE  SnapshotsMatchVersions'
  BY <1>2, SnapshotsKept
<1>3. CASE VisitInvis(r) /\ Remember(r, messages[rPtr[r]], "consumeInvis")
           /\ rPtr[r] \in DOMAIN messages /\ Revivable(messages[rPtr[r]])
  <2>1. messages[rPtr[r]] \in Message /\ messages[rPtr[r]].index = rPtr[r]
    BY <1>0, <1>3 DEF IsMessageTable
  <2>2. UNCHANGED messages
    BY <1>3 DEF VisitInvis, tableVars
  <2> QED BY <1>1, <1>3, <2>1, <2>2 DEF Revivable
<1>4. CASE ScanBucket(r) /\ Servable(rBucket[r]) # {}
  <2> DEFINE m == First(Servable(rBucket[r]))
  <2>1. m \in Servable(rBucket[r]) /\ m \in Message
    BY <1>0, <1>4, FirstOfBucket DEF Servable
  <2>2. m.index \in DOMAIN messages /\ m = messages[m.index] /\ m.visible /\ ~m.isAcked
    BY <1>0, <2>1, RowsOfBucket DEF Servable
  <2>3. Remember(r, m, "consume") /\ UNCHANGED messages
    BY <1>4 DEF ScanBucket, tableVars
  <2> QED BY <1>1, <2>1, <2>2, <2>3
<1>5. CASE \/ StartRead(r) \/ ScanInvis(r) \/ MoveInvisBack(r) \/ MoveInvisOn(r)
           \/ VisitInvis(r) /\ (GoTo(r, "scanInvis") \/ TurnToBucket(r))
           \/ ReadBucketPointer(r)
           \/ ScanBucket(r) /\ Servable(rBucket[r]) = {}
           \/ ReadMonotonPast(r) \/ TombstoneBucket(r) \/ AdvanceBucket(r)
           \/ Consume(r) \/ ConsumeUnanswered(r) \/ ConsumeRefused(r) \/ ReadFails(r)
  <2>1. /\ ~Consumes(rPc'[r])
        /\ \A q \in Readers \ {r} : rPc'[q] = rPc[q] /\ rMessage'[q] = rMessage[q]
    BY <1>0, <1>5 DEF StartRead, ScanInvis, MoveInvisBack, MoveInvisOn, ReadBucketPointer,
       ScanBucket, ReadMonotonPast, TombstoneBucket, AdvanceBucket, Consume, ConsumeUnanswered,
       ConsumeRefused, ReadFails, GoTo, Remember, Answer, TurnToBucket, Consumes
  <2> QED BY <1>2, <2>1
<1> QED BY <1>3, <1>4, <1>5 DEF ReaderProgress, VisitInvis

LEMMA ReaderReceipts ==
    ASSUME VersionInv, TypeInv', RowsLater, NEW r \in Readers, UNCHANGED ackerVars,
           StartRead(r) \/ ReaderProgress(r) \/ ConsumeUnanswered(r) \/ ReadFails(r)
    PROVE  ReceiptsOfDeliveries'
<1> USE DEF VersionInv
<1>1. CASE Consume(r)
  <2> DEFINE snapshot == rMessage[r]
             row == messages[snapshot.index]
  <2>1. /\ snapshot.index \in DOMAIN messages
        /\ snapshot.version = row.version
        /\ ~row.isAcked
        /\ snapshot.deliveryCount = row.deliveryCount
    BY <1>1 DEF Consume, ConsumeApplies, SnapshotsMatchVersions
  <2>2. snapshot.version \in Nat /\ snapshot.deliveryCount \in Nat
    BY DEF TypeInv, TypeOK, ReaderTypeOK, Snapshot
  <2>3. messages'[snapshot.index].deliveryCount = snapshot.deliveryCount + 1
    BY <1>1, <2>1, <2>2, ConsumedRow DEF Consume, TypeInv, TypeOK, TablesTypeOK
  <2>4. snapshot.version = 1 + snapshot.deliveryCount
    BY <2>1, <2>2 DEF VersionCountsUpdates
  <2>5. /\ ReceiptOf(snapshot).index = snapshot.index
        /\ ReceiptOf(snapshot).version = snapshot.version + 1
    BY DEF ReceiptOf
  <2>6. /\ ReceiptOf(snapshot).index \in DOMAIN messages'
        /\ ReceiptOf(snapshot).version \in 2..(1 + messages'[snapshot.index].deliveryCount)
    BY <2>1, <2>2, <2>3, <2>4, <2>5 DEF RowsLater
  <2>7. receipts' = receipts \cup {ReceiptOf(snapshot)} /\ UNCHANGED <<aPc, aReceipt>>
    BY <1>1 DEF Consume, ackerVars
  <2>8. \A a \in Ackers : aPc'[a] = "ack" => aReceipt'[a] \in receipts'
    BY <2>7 DEF ReceiptsOfDeliveries
  <2> QED BY <2>5, <2>6, <2>7, <2>8, ReceiptsKept
<1>2. CASE ~Consume(r)
  <2>1. UNCHANGED receipts
    BY <1>2 DEF ReaderProgress, StartRead, VisitInvis, ScanInvis, MoveInvisBack, MoveInvisOn,
       ReadBucketPointer, ScanBucket, ReadMonotonPast, TombstoneBucket, AdvanceBucket,
       ConsumeRefused, ConsumeUnanswered, ReadFails
  <2>2. \A a \in Ackers : aPc'[a] = "ack" => aReceipt'[a] \in receipts'
    BY <2>1 DEF ReceiptsOfDeliveries, ackerVars
  <2> QED BY <2>1, <2>2, ReceiptsKept
<1> QED BY <1>1, <1>2

LEMMA AckerReceipts ==
    ASSUME VersionInv, TypeInv', RowsLater, NEW a \in Ackers, UNCHANGED receipts,
           BeginAck(a) \/ FinishAck(a) \/ AckFails(a)
    PROVE  ReceiptsOfDeliveries'
<1>1. \A b \in Ackers : aPc'[b] = "ack" => aReceipt'[b] \in receipts'
  BY DEF BeginAck, FinishAck, AckFails, VersionInv, TypeInv, TypeOK, ReaderTypeOK, ReceiptsOfDeliveries
<1> QED BY <1>1, ReceiptsKept DEF VersionInv

LEMMA WorkerWork ==
    ASSUME VersionInv, TypeInv', RowsLater, NEW w \in Workers,
           \/ Poll(w) \/ WorkerProgress(w) \/ EndWait(w) \/ Restart(w)
           \/ PassFails(w) \/ Stop(w)
    PROVE  WorkOnFirstVersions'
<1> USE DEF VersionInv
<1>0. wTodo \in [Workers -> SUBSET Message]
  BY DEF TypeInv, TypeOK, WorkerTypeOK
<1>1. CASE ReadBucket(w)
  <2> DEFINE work == {m \in GetMessages(wBucket[w]) : ~m.isAcked /\ m.deliveryCount = 0}
  <2>1. ASSUME NEW m \in work
        PROVE  m.index \in DOMAIN messages /\ m.version = 1 /\ m.deliveryCount = 0
    BY RowsOfBucket DEF TypeInv, TypeOK, TablesTypeOK, VersionCountsUpdates
  <2>2. wTodo' = [wTodo EXCEPT ![w] = work]
    BY <1>1 DEF ReadBucket
  <2> HIDE DEF work
  <2> QED BY <1>0, <2>1, <2>2, WorkKept
<1>2. CASE ~ReadBucket(w)
  <2>1. \A v \in Workers : wTodo'[v] \subseteq wTodo[v]
    BY <1>0, <1>2 DEF WorkerProgress, Poll, CheckTombstone, ListBucket, SkipBucket, EndWait,
       FilterNext, WorkerReadMonoton, WorkerIncrementMonoton, PutCopy, AckOriginal, AdvanceRepair,
       Restart, PassFails, Stop, EndPass, WorkerGoTo
  <2> QED BY <2>1, WorkKept
<1> QED BY <1>1, <1>2

(* The components a step leaves alone. *)
LEMMA SnapshotsSame ==
    ASSUME VersionInv, TypeInv', RowsLater, UNCHANGED readerVars
    PROVE  SnapshotsMatchVersions'
BY SnapshotsKept DEF VersionInv, readerVars

LEMMA ReceiptsSame ==
    ASSUME VersionInv, TypeInv', RowsLater, UNCHANGED <<readerVars, ackerVars>>
    PROVE  ReceiptsOfDeliveries'
<1>1. UNCHANGED <<receipts, aPc, aReceipt>>
  BY DEF readerVars, ackerVars
<1>2. \A a \in Ackers : aPc'[a] = "ack" => aReceipt'[a] \in receipts'
  BY <1>1 DEF VersionInv, ReceiptsOfDeliveries
<1> QED BY <1>1, <1>2, ReceiptsKept DEF VersionInv

LEMMA WorkSame ==
    ASSUME VersionInv, RowsLater, UNCHANGED workerVars
    PROVE  WorkOnFirstVersions'
BY WorkKept DEF VersionInv, workerVars

LEMMA StepVersions == VersionInv /\ [Next]_vars => VersionInv'
<1> SUFFICES ASSUME VersionInv, [Next]_vars
             PROVE  SnapshotsMatchVersions' /\ ReceiptsOfDeliveries' /\ WorkOnFirstVersions'
  BY StepTypes, EveryRowStep, RowStepKeeps DEF VersionInv
<1>0. TypeInv' /\ RowsLater
  BY StepTypes, EveryRowStep, RowStepKeeps DEF VersionInv
<1> DEFINE Goal == SnapshotsMatchVersions' /\ ReceiptsOfDeliveries' /\ WorkOnFirstVersions'
<1>1. ASSUME NEW r \in Readers, UNCHANGED <<ackerVars, workerVars>>,
             StartRead(r) \/ ReaderProgress(r) \/ ConsumeUnanswered(r) \/ ReadFails(r)
      PROVE  Goal
  BY <1>0, <1>1, ReaderSnapshots, ReaderReceipts, WorkSame
<1>2. ASSUME NEW a \in Ackers, BeginAck(a) \/ FinishAck(a) \/ AckFails(a),
             UNCHANGED <<readerVars, workerVars>>
      PROVE  Goal
  BY <1>0, <1>2, SnapshotsSame, AckerReceipts, WorkSame DEF readerVars
<1>3. ASSUME NEW w \in Workers, UNCHANGED <<readerVars, ackerVars>>,
             \/ Poll(w) \/ WorkerProgress(w) \/ EndWait(w) \/ Restart(w)
             \/ PassFails(w) \/ Stop(w)
      PROVE  Goal
  BY <1>0, <1>3, SnapshotsSame, ReceiptsSame, WorkerWork
<1>4. ASSUME UNCHANGED <<readerVars, ackerVars, workerVars>>
      PROVE  Goal
  BY <1>0, <1>4, SnapshotsSame, ReceiptsSame, WorkSame
<1>5. CASE Fault
  BY <1>1, <1>2, <1>3, <1>4, <1>5 DEF Fault
<1>6. CASE \/ \E p \in Producers : NewPut(p) \/ PutStep(p)
           \/ \E i \in DOMAIN messages : BecomeVisible(i)
           \/ UNCHANGED vars
  BY <1>4, <1>6 DEF NewPut, PutStep, BecomeVisible, vars
<1> QED BY <1>1, <1>2, <1>3, <1>5, <1>6 DEF Next, ReadStep, AckStep, RepairStep, WaitForTimeout

LEMMA InitVersions == Init => VersionInv
<1>1. Init => /\ VersionCountsUpdates /\ SnapshotsMatchVersions
              /\ ReceiptsOfDeliveries /\ WorkOnFirstVersions
  BY DEF Init, TablesInit, ReaderInit, WorkerInit, VersionCountsUpdates, SnapshotsMatchVersions,
         ReceiptsOfDeliveries, WorkOnFirstVersions
<1> QED BY <1>1, InitTypes DEF VersionInv

(* No update of a row is made on top of one its maker has not seen.        *)
THEOREM VersionsCount == Spec => []VersionCountsUpdates
<1>1. VersionInv => VersionCountsUpdates
  BY DEF VersionInv
<1> QED BY <1>1, InitVersions, StepVersions, PTL DEF Spec

(* A message is handed out only while it is visible and not acked, whatever *)
(* the number of requests that found it, and whatever they do to it since.  *)
THEOREM DeliveredVisible == Spec => DeliveredOnlyWhenVisible
<1> DEFINE Visible == \A i \in DOMAIN messages :
                          messages'[i].deliveryCount > messages[i].deliveryCount =>
                              messages[i].visible /\ ~messages[i].isAcked
<1>1. VersionInv /\ [Next]_vars => [Visible]_vars
  BY StepTypes, EveryRowStep, RowStepKeeps DEF VersionInv
<1> QED BY <1>1, InitVersions, StepVersions, PTL DEF Spec, DeliveredOnlyWhenVisible

(* Once a row is acked no reader and no repair worker changes it any more. *)
THEOREM AcksFinal == Spec => AckIsFinal
<1> DEFINE Final == \A i \in DOMAIN messages :
                        messages[i].isAcked =>
                            messages'[i].isAcked
                            /\ messages'[i].deliveryCount = messages[i].deliveryCount
<1>1. VersionInv /\ [Next]_vars => [Final]_vars
  BY StepTypes, EveryRowStep, RowStepKeeps DEF VersionInv
<1> QED BY <1>1, InitVersions, StepVersions, PTL DEF Spec, AckIsFinal

(***************************************************************************)
(* Where the invisibility pointer can be.  A get request moves it to a row *)
(* it read two statements earlier: the row is still there and delivered    *)
(* (RowsKept), and it is in the bucket of the pointer the request works    *)
(* from (InvisMovesInBucket), which is what both conditions of             *)
(* tryMoveInvisiblityPointerTo compare with.                               *)
(***************************************************************************)

(* Rows are never removed, and a delivered row stays delivered. *)
RowsKept ==
    \A i \in DOMAIN messages :
        i \in DOMAIN messages' /\ (messages[i].deliveryCount > 0 => messages'[i].deliveryCount > 0)

LEMMA StepRowsKept == VersionInv /\ [Next]_vars => RowsKept
<1> SUFFICES ASSUME VersionInv, [Next]_vars, NEW i \in DOMAIN messages
             PROVE  i \in DOMAIN messages' /\ (messages[i].deliveryCount > 0 => messages'[i].deliveryCount > 0)
  BY DEF RowsKept
<1>1. TypeInv /\ TypeInv' /\ RowsLater
  BY StepTypes, EveryRowStep, RowStepKeeps DEF VersionInv
<1>2. i \in DOMAIN messages' /\ messages[i].deliveryCount <= messages'[i].deliveryCount
  BY <1>1 DEF RowsLater, RowLater
<1>3. messages[i].deliveryCount \in Nat /\ messages'[i].deliveryCount \in Nat
  BY <1>1, <1>2 DEF TypeInv, TypeOK, TablesTypeOK, IsMessageTable, Message
<1> QED BY <1>2, <1>3

InvisParts == InvisPointerAtDelivered /\ InvisPointerInFirstBucket /\ InvisMovesInBucket

InvisInv == VersionInv /\ InvisParts

(* A step that leaves the pointer and the get requests alone. *)
LEMMA InvisFrame ==
    ASSUME InvisParts, RowsKept, UNCHANGED <<invisPointer, readerVars>>
    PROVE  InvisParts'
BY DEF RowsKept, InvisParts, InvisPointerAtDelivered, InvisPointerInFirstBucket, InvisMovesInBucket,
       readerVars

LEMMA ReaderInvis ==
    ASSUME TypeInv, InvisParts, RowsKept, NEW r \in Readers,
           StartRead(r) \/ ReaderProgress(r) \/ ConsumeUnanswered(r) \/ ReadFails(r)
    PROVE  InvisParts'
<1> USE DEF InvisParts
<1> DEFINE Elsewhere == /\ invisPointer' = invisPointer
                        /\ rPc'[r] \notin {"moveBack", "moveOn"}
                        /\ \A q \in Readers \ {r} : UNCHANGED <<rPc[q], rPtr[q], rMessage[q]>>
<1>1. ASSUME Elsewhere PROVE InvisParts'
  BY <1>1 DEF RowsKept, InvisPointerAtDelivered, InvisPointerInFirstBucket, InvisMovesInBucket
<1>2. CASE \/ StartRead(r) \/ VisitInvis(r) \/ ReadBucketPointer(r) \/ ScanBucket(r)
           \/ ReadMonotonPast(r) \/ TombstoneBucket(r) \/ AdvanceBucket(r) \/ Consume(r)
           \/ ConsumeUnanswered(r) \/ ConsumeRefused(r) \/ ReadFails(r)
  <2>1. Elsewhere
    BY <1>2 DEF StartRead, VisitInvis, ReadBucketPointer, ScanBucket, ReadMonotonPast,
         TombstoneBucket, AdvanceBucket, Consume, ConsumeUnanswered, ConsumeRefused, ReadFails,
         GoTo, Remember, Answer, TurnToBucket, tableVars, TypeInv, TypeOK, ReaderTypeOK
  <2> QED BY <1>1, <2>1
<1>3. CASE ScanInvis(r)
  <2> DEFINE found == OutForDelivery(InvisBucketOf(rPtr[r]))
  <2>1. CASE found # {} /\ Remember(r, First(found), "moveBack")
    <3>1. First(found) \in found /\ First(found) \in GetMessages(InvisBucketOf(rPtr[r]))
      BY <2>1, FirstOfBucket DEF OutForDelivery, TypeInv, TypeOK, TablesTypeOK
    <3>2. /\ First(found).index \in DOMAIN messages
          /\ messages[First(found).index].deliveryCount > 0
          /\ BucketOf(First(found).index) = InvisBucketOf(rPtr[r])
      BY <3>1, RowsOfBucket DEF OutForDelivery, TypeInv, TypeOK, TablesTypeOK
    <3>3. rMessage'[r].index = First(found).index
      BY <2>1 DEF Remember, SnapshotOf, TypeInv, TypeOK, ReaderTypeOK
    <3>4. UNCHANGED <<messages, invisPointer, rPtr>>
      BY <1>3, <2>1 DEF ScanInvis, Remember, tableVars
    <3>5. InvisMovesInBucket'
      BY <2>1, <3>2, <3>3, <3>4 DEF Remember, InvisMovesInBucket, TypeInv, TypeOK, ReaderTypeOK
    <3> QED BY <3>4, <3>5 DEF InvisPointerAtDelivered, InvisPointerInFirstBucket
  <2>2. CASE TurnToBucket(r) \/ rPc' = [rPc EXCEPT ![r] = "visit"]
    <3>1. Elsewhere
      BY <1>3, <2>2 DEF ScanInvis, TurnToBucket, Remember, tableVars, TypeInv, TypeOK, ReaderTypeOK
    <3> QED BY <1>1, <3>1
  <2> QED BY <1>3, <2>1, <2>2 DEF ScanInvis
<1>4. CASE MoveInvisBack(r)
  <2>1. /\ rMessage[r].index \in DOMAIN messages
        /\ messages[rMessage[r].index].deliveryCount > 0
        /\ UNCHANGED <<messages, rMessage>> \/ TurnToBucket(r)
        /\ UNCHANGED messages
    BY <1>4 DEF MoveInvisBack, GoTo, InvisMovesInBucket
  <2>2. \/ invisPointer' = invisPointer
        \/ invisPointer' = rMessage[r].index /\ invisPointer > rMessage[r].index
    BY <1>4 DEF MoveInvisBack, PointerAfterMove, MoveBackApplies
  <2>3. InvisPointerAtDelivered' /\ InvisPointerInFirstBucket'
    BY <2>1, <2>2, BucketSizeAssumption
       DEF InvisPointerAtDelivered, InvisPointerInFirstBucket, TypeInv, TypeOK, TablesTypeOK, ReaderTypeOK, Snapshot
  <2>4. InvisMovesInBucket'
    BY <1>4, <2>1 DEF MoveInvisBack, GoTo, TurnToBucket, InvisMovesInBucket, TypeInv, TypeOK, ReaderTypeOK
  <2> QED BY <2>3, <2>4
<1>5. CASE MoveInvisOn(r)
  <2>1. /\ rMessage[r].index \in DOMAIN messages
        /\ messages[rMessage[r].index].deliveryCount > 0
        /\ BucketOf(rMessage[r].index) = InvisBucketOf(rPtr[r])
        /\ TurnToBucket(r)
        /\ UNCHANGED messages
    BY <1>5 DEF MoveInvisOn, InvisMovesInBucket
  <2>2. \/ invisPointer' = invisPointer
        \/ invisPointer' = rMessage[r].index /\ invisPointer = rPtr[r]
    BY <1>5 DEF MoveInvisOn, PointerAfterMove, MoveOnApplies
  <2>3. ASSUME invisPointer = rPtr[r] PROVE rMessage[r].index < BucketSize
    <3>1. invisPointer \in Int /\ invisPointer < BucketSize /\ rMessage[r].index \in Nat
      BY DEF InvisPointerInFirstBucket, TypeInv, TypeOK, TablesTypeOK, ReaderTypeOK, Snapshot
    <3>2. invisPointer > 0 => BucketOf(invisPointer) = 0
      BY <3>1, BucketSizeAssumption DEF BucketOf
    <3>3. BucketOf(rMessage[r].index) = 0
      BY <2>1, <2>3, <3>1, <3>2 DEF InvisBucketOf
    <3> QED BY <3>1, <3>3, BucketBounds, BucketSizeAssumption DEF StartOf
  <2>4. InvisPointerAtDelivered' /\ InvisPointerInFirstBucket'
    BY <2>1, <2>2, <2>3 DEF InvisPointerAtDelivered, InvisPointerInFirstBucket
  <2>5. InvisMovesInBucket'
    BY <2>1 DEF TurnToBucket, InvisMovesInBucket, TypeInv, TypeOK, ReaderTypeOK
  <2> QED BY <2>4, <2>5
<1> QED BY <1>2, <1>3, <1>4, <1>5 DEF ReaderProgress

LEMMA StepInvis == InvisInv /\ [Next]_vars => InvisInv'
<1> SUFFICES ASSUME InvisInv, [Next]_vars PROVE InvisParts'
  BY StepVersions DEF InvisInv
<1>1. TypeInv /\ InvisParts /\ RowsKept
  BY StepRowsKept DEF InvisInv, VersionInv
<1>2. ASSUME NEW r \in Readers,
             StartRead(r) \/ ReaderProgress(r) \/ ConsumeUnanswered(r) \/ ReadFails(r)
      PROVE  InvisParts'
  BY <1>1, <1>2, ReaderInvis
<1>3. ASSUME NEW p \in Producers, UNCHANGED readerVars,
             PutRequest(p) \/ ProducerProgress(p) \/ PutFails(p) \/ PutUnanswered(p)
      PROVE  UNCHANGED <<invisPointer, readerVars>>
  BY <1>3 DEF ProducerProgress, PutRequest, ReadMonoton, IncrementMonoton, PutMessage, PutFails,
           PutUnanswered, tableVars
<1>4. ASSUME NEW a \in Ackers, BeginAck(a) \/ FinishAck(a) \/ AckFails(a), UNCHANGED readerVars
      PROVE  UNCHANGED <<invisPointer, readerVars>>
  BY <1>4 DEF BeginAck, FinishAck, AckFails, tableVars
<1>5. ASSUME NEW w \in Workers, UNCHANGED readerVars,
             \/ Poll(w) \/ WorkerProgress(w) \/ EndWait(w) \/ Restart(w)
             \/ PassFails(w) \/ Stop(w)
      PROVE  UNCHANGED <<invisPointer, readerVars>>
  BY <1>5 DEF WorkerProgress, Poll, CheckTombstone, ListBucket, SkipBucket, EndWait, ReadBucket,
         FilterNext, WorkerReadMonoton, WorkerIncrementMonoton, PutCopy, AckOriginal, AdvanceRepair,
         Restart, PassFails, Stop, tableVars
<1>6. CASE Fault
  BY <1>1, <1>2, <1>3, <1>4, <1>5, <1>6, InvisFrame DEF Fault
<1>7. CASE UNCHANGED vars \/ \E i \in DOMAIN messages : BecomeVisible(i)
  BY <1>1, <1>7, InvisFrame DEF vars, tableVars, BecomeVisible
<1> QED BY <1>1, <1>2, <1>3, <1>4, <1>5, <1>6, <1>7, InvisFrame
        DEF Next, NewPut, PutStep, ReadStep, AckStep, RepairStep, WaitForTimeout

LEMMA InitInvis == Init => InvisInv
<1>1. Init => InvisPointerAtDelivered /\ InvisPointerInFirstBucket /\ InvisMovesInBucket
  BY BucketSizeAssumption
     DEF Init, TablesInit, ReaderInit, InvisPointerAtDelivered, InvisPointerInFirstBucket, InvisMovesInBucket
<1> QED BY <1>1, InitVersions DEF InvisInv, InvisParts

(* The invisibility pointer is at a message that was delivered, unless it  *)
(* is still where createQueue put it: it is never parked at a message that *)
(* was not delivered yet, as the comment of ReaderImpl has it.             *)
THEOREM InvisAtDelivered == Spec => []InvisPointerAtDelivered
<1>1. InvisInv => InvisPointerAtDelivered
  BY DEF InvisInv, InvisParts
<1> QED BY <1>1, InitInvis, StepInvis, PTL DEF Spec

(* The invisibility pointer never leaves the first bucket, however long    *)
(* the queue gets, although README and ReaderImpl let it follow the reader *)
(* from bucket to bucket: InvisPointerMovesOn fails for every bucket size. *)
THEOREM InvisInFirstBucket == Spec => []InvisPointerInFirstBucket
<1>1. InvisInv => InvisPointerInFirstBucket
  BY DEF InvisInv, InvisParts
<1> QED BY <1>1, InitInvis, StepInvis, PTL DEF Spec

(***************************************************************************)
(* The parts of the inductive invariant were shown in the order in which   *)
(* they need each other.  Together they are IInv, which a step of any      *)
(* component preserves without a further assumption on the state.          *)
(***************************************************************************)

LEMMA PartsOfIInv == IInv <=> ClosedInv /\ InvisInv /\ VersionInv /\ ReadsNotAhead
BY DEF IInv, ClosedInv, InvisInv, InvisParts, VersionInv, TypeInv

LEMMA StepIInv == IInv /\ [Next]_vars => IInv'
<1>1. IInv' <=> ClosedInv' /\ InvisInv' /\ VersionInv' /\ ReadsNotAhead'
  BY PartsOfIInv, PTL
<1>2. ClosedInv => TypeInv
  BY DEF ClosedInv
<1> QED BY <1>1, <1>2, PartsOfIInv, StepClosed, StepInvis, StepVersions, StepReads

LEMMA InitIInv == Init => IInv
BY PartsOfIInv, InitClosed, InitInvis, InitVersions, InitReads

(* The invariant that the runs check on small instances holds for any      *)
(* number of requests and workers and any size of the buckets: what        *)
(* requests and passes remember stays in step with the tables.             *)
THEOREM Inductive == Spec => []IInv
BY InitIInv, StepIInv, PTL DEF Spec

(***************************************************************************)
(* A request or a pass takes a step of its own, or its variables stay as   *)
(* they are.                                                               *)
(***************************************************************************)

ReaderActs(r) == StartRead(r) \/ ReaderProgress(r) \/ ConsumeUnanswered(r) \/ ReadFails(r)

ReaderRests(r) == rPc'[r] = rPc[r]

LEMMA OtherReadersRest ==
    ASSUME IInv, NEW q \in Readers, NEW r \in Readers, q # r, ReaderActs(q)
    PROVE  ReaderRests(r)
<1>1. \E pc : rPc' = [rPc EXCEPT ![q] = pc]
  <2>1. CASE StartRead(q) \/ ReadBucketPointer(q) \/ AdvanceBucket(q)
    BY <2>1 DEF StartRead, ReadBucketPointer, AdvanceBucket
  <2>2. CASE VisitInvis(q) \/ ScanInvis(q) \/ MoveInvisBack(q) \/ MoveInvisOn(q)
    BY <2>2 DEF VisitInvis, ScanInvis, MoveInvisBack, MoveInvisOn, GoTo, Remember, TurnToBucket
  <2>3. CASE ScanBucket(q) \/ ReadMonotonPast(q) \/ TombstoneBucket(q)
    BY <2>3 DEF ScanBucket, ReadMonotonPast, TombstoneBucket, GoTo, Remember, Answer
  <2>4. CASE Consume(q) \/ ConsumeUnanswered(q) \/ ConsumeRefused(q) \/ ReadFails(q)
    BY <2>4 DEF Consume, ConsumeUnanswered, ConsumeRefused, ReadFails, TurnToBucket, Answer
  <2> QED BY <2>1, <2>2, <2>3, <2>4 DEF ReaderActs, ReaderProgress
<1> QED BY <1>1 DEF ReaderRests, IInv, TypeOK, ReaderTypeOK

LEMMA ReaderActsOrRests ==
    ASSUME IInv, [Next]_vars, NEW r \in Readers
    PROVE  ReaderActs(r) \/ ReaderRests(r)
<1>1. UNCHANGED rPc \/ \E q \in Readers : ReaderActs(q)
  BY DEF Next, NewPut, PutStep, ReadStep, AckStep, RepairStep, BecomeVisible, Fault, ReaderActs,
         vars, readerVars
<1> QED BY <1>1, OtherReadersRest DEF ReaderRests

WorkerActs(w) ==
    \/ Poll(w) \/ WorkerProgress(w) \/ WaitForTimeout(w) \/ Restart(w)
    \/ PassFails(w) \/ Stop(w)

WorkerRests(w) ==
    /\ wPc'[w] = wPc[w]
    /\ wBucket'[w] = wBucket[w]
    /\ wTodo'[w] = wTodo[w]
    /\ wIndex'[w] = wIndex[w]

LEMMA OthersRest ==
    ASSUME IInv, NEW v \in Workers, NEW w \in Workers, v # w, WorkerActs(v)
    PROVE  WorkerRests(w)
<1>1. /\ \E pc : wPc' = [wPc EXCEPT ![v] = pc]
      /\ \E b : wBucket' = [wBucket EXCEPT ![v] = b]
      /\ \E todo : wTodo' = [wTodo EXCEPT ![v] = todo]
      /\ \E i : wIndex' = [wIndex EXCEPT ![v] = i]
  <2>0. /\ wPc = [wPc EXCEPT ![v] = wPc[v]]
        /\ wBucket = [wBucket EXCEPT ![v] = wBucket[v]]
        /\ wTodo = [wTodo EXCEPT ![v] = wTodo[v]]
        /\ wIndex = [wIndex EXCEPT ![v] = wIndex[v]]
    BY DEF IInv, TypeOK, WorkerTypeOK
  <2>1. CASE Poll(v) \/ Restart(v) \/ PassFails(v) \/ Stop(v)
    BY <2>0, <2>1 DEF Poll, Restart, PassFails, Stop, EndPass
  <2>2. CASE WaitForTimeout(v) \/ CheckTombstone(v) \/ ListBucket(v) \/ SkipBucket(v)
    BY <2>0, <2>2 DEF WaitForTimeout, EndWait, CheckTombstone, ListBucket, SkipBucket, EndPass, WorkerGoTo
  <2>3. CASE ReadBucket(v) \/ FilterNext(v) \/ WorkerReadMonoton(v) \/ WorkerIncrementMonoton(v)
    BY <2>0, <2>3 DEF ReadBucket, FilterNext, WorkerReadMonoton, WorkerIncrementMonoton, WorkerGoTo
  <2>4. CASE PutCopy(v) \/ AckOriginal(v) \/ AdvanceRepair(v)
    BY <2>0, <2>4 DEF PutCopy, AckOriginal, AdvanceRepair, EndPass
  <2> QED BY <2>1, <2>2, <2>3, <2>4 DEF WorkerActs, WorkerProgress
<1> QED BY <1>1 DEF WorkerRests, IInv, TypeOK, WorkerTypeOK

LEMMA WorkerActsOrRests ==
    ASSUME IInv, [Next]_vars, NEW w \in Workers
    PROVE  WorkerActs(w) \/ WorkerRests(w)
<1>1. \/ UNCHANGED workerVars
      \/ \E v \in Workers : WorkerActs(v)
  BY DEF Next, NewPut, PutStep, ReadStep, AckStep, RepairStep, BecomeVisible, Fault, WorkerActs, vars
<1>2. CASE UNCHANGED workerVars
  BY <1>2 DEF workerVars, WorkerRests
<1> QED BY <1>1, <1>2, OthersRest

(***************************************************************************)
(* Why requests and passes do not go round in circles on their own.  Who   *)
(* starts over was overtaken; who walks on goes forward, up to the         *)
(* counter.  That each ends under fairness is left to the runs.            *)
(***************************************************************************)

LEMMA PutOvertaken ==
    ASSUME IInv, [Next]_vars, NEW p \in Producers, pPc[p] = "increment", pPc'[p] = "read"
    PROVE  pIndex[p] < monoton
<1> USE DEF IInv, TypeOK, ProducerTypeOK, TablesTypeOK
<1>1. PICK q \in Producers :
          PutRequest(q) \/ ProducerProgress(q) \/ PutFails(q) \/ PutUnanswered(q)
  BY DEF Next, NewPut, PutStep, ReadStep, AckStep, RepairStep, BecomeVisible, Fault, vars, producerVars
<1>2. IncrementMonoton(p) /\ ~IncrementApplies(pIndex[p])
  <2>1. CASE PutRequest(q) \/ ReadMonoton(q)
    BY <2>1 DEF PutRequest, ReadMonoton
  <2>2. CASE PutMessage(q) \/ PutFails(q) \/ PutUnanswered(q)
    BY <2>2 DEF PutMessage, PutFails, PutUnanswered, RequestOver
  <2>3. CASE IncrementMonoton(q)
    BY <2>3 DEF IncrementMonoton
  <2> QED BY <1>1, <2>1, <2>2, <2>3 DEF ProducerProgress
<1>3. pIndex[p] <= monoton
  BY DEF ReadsNotAhead
<1> QED BY <1>2, <1>3 DEF IncrementApplies

LEMMA ConsumeOvertaken ==
    ASSUME IInv, [Next]_vars, NEW r \in Readers,
           \/ rPc[r] = "consume" /\ rPc'[r] = "scan"
           \/ rPc[r] = "consumeInvis" /\ rPc'[r] = "bucket"
    PROVE  rMessage[r].version < messages[rMessage[r].index].version
<1> DEFINE snapshot == rMessage[r]
           row == messages[snapshot.index]
<1>1. ReaderActs(r)
  BY ReaderActsOrRests DEF ReaderRests
<1>2. ConsumeRefused(r)
  <2>1. rPc \in [Readers -> ReaderPc]
    BY DEF IInv, TypeOK, ReaderTypeOK
  <2> QED BY <1>1, <2>1 DEF ReaderActs, ReaderProgress, StartRead, VisitInvis, ScanInvis, MoveInvisBack,
         MoveInvisOn, ReadBucketPointer, ScanBucket, ReadMonotonPast, TombstoneBucket,
         AdvanceBucket, Consume, ConsumeUnanswered, ReadFails, Answer
<1>3. /\ snapshot.index \in DOMAIN messages
      /\ snapshot.version <= row.version
      /\ snapshot.version = row.version => ~row.isAcked
  BY DEF IInv, SnapshotsMatchVersions
<1>4. snapshot.version \in Nat /\ row.version \in Nat
  BY <1>3 DEF IInv, TypeOK, ReaderTypeOK, Snapshot, TablesTypeOK, IsMessageTable, Message
<1> QED BY <1>2, <1>3, <1>4 DEF ConsumeRefused, ConsumeApplies

LEMMA AdvanceStep ==
    ASSUME IInv, [Next]_vars, NEW r \in Readers, rPc[r] = "advance", rPc'[r] = "scan"
    PROVE  AdvanceBucket(r)
<1>1. ReaderActs(r)
  BY ReaderActsOrRests DEF ReaderRests
<1>2. rPc \in [Readers -> ReaderPc]
  BY DEF IInv, TypeOK, ReaderTypeOK
<1> QED BY <1>1, <1>2 DEF ReaderActs, ReaderProgress, StartRead, VisitInvis, ScanInvis, MoveInvisBack,
       MoveInvisOn, ReadBucketPointer, ScanBucket, ReadMonotonPast, TombstoneBucket, Consume,
       ConsumeUnanswered, ConsumeRefused, ReadFails, Answer

LEMMA AdvanceOvertaken ==
    ASSUME IInv, [Next]_vars, NEW r \in Readers,
           rPc[r] = "advance", rPc'[r] = "scan", UNCHANGED bucketPointer
    PROVE  rBucket[r] < bucketPointer
<1>1. rBucket[r] \in Nat /\ bucketPointer \in Nat /\ rBucket[r] <= bucketPointer
  BY DEF IInv, TypeOK, ReaderTypeOK, TablesTypeOK, ReadersBehindPointer
<1>2. bucketPointer # rBucket[r]
  BY <1>1, AdvanceStep DEF AdvanceBucket, PointerAfterMove
<1> QED BY <1>1, <1>2

LEMMA PassOvertaken ==
    ASSUME IInv, [Next]_vars, NEW w \in Workers
    PROVE  /\ wPc[w] = "monCas" /\ wPc'[w] = "monRead" => wIndex[w] < monoton
           /\ wPc[w] = "skip" /\ wPc'[w] = "check" /\ UNCHANGED repairPointer =>
                  wBucket[w] < repairPointer
<1>1. /\ wPc \in [Workers -> WorkerPc]
      /\ wIndex[w] \in Nat /\ monoton \in Nat /\ wBucket[w] \in Nat /\ repairPointer \in Nat
  BY DEF IInv, TypeOK, WorkerTypeOK, TablesTypeOK
<1>2. CASE wPc[w] = "monCas" /\ wPc'[w] = "monRead"
  <2>1. WorkerActs(w)
    BY <1>2, WorkerActsOrRests DEF WorkerRests
  <2>2. WorkerIncrementMonoton(w)
    BY <1>1, <1>2, <2>1 DEF WorkerActs, WorkerProgress, Poll, CheckTombstone, ListBucket, SkipBucket,
       WaitForTimeout, EndWait, ReadBucket, FilterNext, WorkerReadMonoton, PutCopy, AckOriginal,
       AdvanceRepair, Restart, PassFails, Stop, EndPass
  <2>3. ~IncrementApplies(wIndex[w])
    BY <1>1, <1>2, <2>2 DEF WorkerIncrementMonoton, WorkerGoTo
  <2>4. wIndex[w] <= monoton
    BY <1>2 DEF IInv, ReadsNotAhead
  <2> QED BY <1>1, <1>2, <2>3, <2>4 DEF IncrementApplies
<1>3. CASE wPc[w] = "skip" /\ wPc'[w] = "check" /\ UNCHANGED repairPointer
  <2>1. WorkerActs(w)
    BY <1>3, WorkerActsOrRests DEF WorkerRests
  <2>2. SkipBucket(w)
    BY <1>1, <1>3, <2>1 DEF WorkerActs, WorkerProgress, Poll, CheckTombstone, ListBucket,
       WaitForTimeout, EndWait, ReadBucket, FilterNext, WorkerReadMonoton, WorkerIncrementMonoton,
       PutCopy, AckOriginal, AdvanceRepair, Restart, PassFails, Stop, EndPass
  <2>3. ~AdvanceApplies(wBucket[w])
    BY <1>1, <1>3, <2>2 DEF SkipBucket, AdvanceApplies, PointerAfterMove
  <2>4. wBucket[w] <= repairPointer
    BY <1>3 DEF IInv, ReadsNotAhead
  <2> QED BY <1>1, <1>3, <2>3, <2>4 DEF AdvanceApplies
<1> QED BY <1>2, <1>3

(* Puts, get requests and repair passes start over only when an update of  *)
(* somebody else got through since they read, however many compete.        *)
THEOREM OvertakenOnly == Spec => OnlyOvertakenStartOver
<1> DEFINE Overtaken ==
        /\ \A p \in Producers :
              pPc[p] = "increment" /\ pPc'[p] = "read" => pIndex[p] < monoton
        /\ \A r \in Readers :
              /\ \/ rPc[r] = "consume" /\ rPc'[r] = "scan"
                 \/ rPc[r] = "consumeInvis" /\ rPc'[r] = "bucket"
                 => rMessage[r].version < messages[rMessage[r].index].version
              /\ rPc[r] = "advance" /\ rPc'[r] = "scan" /\ UNCHANGED bucketPointer =>
                     rBucket[r] < bucketPointer
        /\ \A w \in Workers :
              /\ wPc[w] = "monCas" /\ wPc'[w] = "monRead" => wIndex[w] < monoton
              /\ wPc[w] = "skip" /\ wPc'[w] = "check" /\ UNCHANGED repairPointer =>
                     wBucket[w] < repairPointer
<1>1. IInv /\ [Next]_vars => [Overtaken]_vars
  BY PutOvertaken, ConsumeOvertaken, AdvanceOvertaken, PassOvertaken
<1> QED BY <1>1, InitIInv, StepIInv, PTL DEF Spec, OnlyOvertakenStartOver

(***************************************************************************)
(* Who walks on.  A bucket that has rows, or that may be tombstoned, is    *)
(* one the counter has reached.                                            *)
(***************************************************************************)

LEMMA BucketOfStart ==
    ASSUME NEW b \in Nat
    PROVE  InvisBucketOf(StartOf(b + 1)) = b + 1 /\ StartOf(b + 1) = StartOf(b) + BucketSize
<1>1. StartOf(b + 1) = StartOf(b) + BucketSize /\ StartOf(b) \in Nat /\ StartOf(b + 1) > 0
  BY BucketSizeAssumption DEF StartOf
<1> DEFINE start == StartOf(b + 1)
           bucket == BucketOf(start)
<1>2. start \in Nat /\ start > 0
  BY <1>1, BucketSizeAssumption
<1>3. bucket \in Nat /\ StartOf(bucket) <= start /\ start < StartOf(bucket + 1)
  BY <1>2, BucketBounds
<1>4. StartOf(bucket) \in Nat /\ StartOf(bucket + 1) \in Nat
  BY <1>3, StartType
<1>5. StartOf(b + 2) > start /\ StartOf(b + 2) \in Nat
  BY BucketSizeAssumption DEF StartOf
<1>6. ~(bucket < b + 1)
  <2>1. SUFFICES ASSUME bucket < b + 1 PROVE FALSE
    OBVIOUS
  <2>2. StartOf(bucket + 1) <= start
    BY <1>3, <2>1, StartOrder
  <2> QED BY <1>2, <1>3, <1>4, <2>2
<1>7. ~(b + 1 < bucket)
  <2>1. SUFFICES ASSUME b + 1 < bucket PROVE FALSE
    OBVIOUS
  <2>2. b + 1 \in Nat /\ (b + 1) + 1 = b + 2
    OBVIOUS
  <2>3. StartOf(b + 2) <= StartOf(bucket)
    BY <1>3, <2>1, <2>2, StartOrder
  <2> QED BY <1>2, <1>3, <1>4, <1>5, <2>3
<1>8. bucket = b + 1
  BY <1>3, <1>6, <1>7
<1> QED BY <1>1, <1>2, <1>8 DEF InvisBucketOf

LEMMA InvisWalk ==
    ASSUME IInv, [Next]_vars, NEW r \in Readers, rPc[r] = "scanInvis", rPc'[r] = "visit"
    PROVE  /\ InvisBucketOf(rPtr'[r]) = InvisBucketOf(rPtr[r]) + 1
           /\ rPtr'[r] < monoton + BucketSize
<1> DEFINE bucket == InvisBucketOf(rPtr[r])
<1>1. ReaderActs(r)
  BY ReaderActsOrRests DEF ReaderRests
<1>2. rPc \in [Readers -> ReaderPc] /\ rPtr \in [Readers -> Int] /\ monoton \in Nat
      /\ IsMessageTable(messages)
  BY DEF IInv, TypeOK, ReaderTypeOK, TablesTypeOK
<1>3. ScanInvis(r)
  BY <1>1, <1>2 DEF ReaderActs, ReaderProgress, StartRead, VisitInvis, MoveInvisBack,
       MoveInvisOn, ReadBucketPointer, ScanBucket, ReadMonotonPast, TombstoneBucket,
       AdvanceBucket, Consume, ConsumeUnanswered, ConsumeRefused, ReadFails, Answer
<1>4. GetMessages(bucket) # {} /\ rPtr'[r] = StartOf(bucket + 1)
  BY <1>2, <1>3 DEF ScanInvis, TurnToBucket, Remember
<1>5. bucket \in Nat
  BY <1>2, InvisBucketType
<1>6. PICK m \in GetMessages(bucket) : TRUE
  BY <1>4
<1>7. m.index \in DOMAIN messages /\ m.index \in Nat /\ BucketOf(m.index) = bucket
  BY <1>2, <1>6, RowsOfBucket DEF Message
<1>8. m.index < monoton
  BY <1>7 DEF IInv, IndexesHaveOneOwner
<1>9. StartOf(bucket) <= m.index /\ StartOf(bucket) \in Nat
  BY <1>5, <1>7, BucketBounds, StartType
<1> HIDE DEF bucket
<1> QED BY <1>2, <1>4, <1>5, <1>7, <1>8, <1>9, BucketOfStart, BucketSizeAssumption DEF bucket

LEMMA BucketWalk ==
    ASSUME IInv, [Next]_vars, NEW r \in Readers, rPc[r] = "advance", rPc'[r] = "scan"
    PROVE  /\ rBucket'[r] \in {rBucket[r], rBucket[r] + 1}
           /\ StartOf(rBucket'[r]) <= monoton
<1>1. rBucket \in [Readers -> Nat] /\ rBucket[r] \in Nat /\ monoton \in Nat
  BY DEF IInv, TypeOK, ReaderTypeOK, TablesTypeOK
<1>2. rBucket'[r] \in {rBucket[r], rBucket[r] + 1}
  BY <1>1, AdvanceStep DEF AdvanceBucket, MoveResult
<1>3. StartOf(rBucket[r] + 1) <= monoton
  BY DEF IInv, ReadersBehindPointer, BucketsClosedInOrder
<1>4. StartOf(rBucket[r] + 1) = StartOf(rBucket[r]) + BucketSize /\ StartOf(rBucket[r]) \in Nat
  BY <1>1, BucketOfStart, StartType
<1> QED BY <1>1, <1>2, <1>3, <1>4, BucketSizeAssumption

(* Neither walk of a get request goes past the counter, whatever the       *)
(* buckets hold and whoever moves the pointers meanwhile.                  *)
THEOREM WalksEnd == Spec => WalksEndAtCounter
<1> DEFINE Ends ==
        \A r \in Readers :
          /\ rPc[r] = "scanInvis" /\ rPc'[r] = "visit" =>
                 /\ InvisBucketOf(rPtr'[r]) = InvisBucketOf(rPtr[r]) + 1
                 /\ rPtr'[r] < monoton + BucketSize
          /\ rPc[r] = "advance" /\ rPc'[r] = "scan" =>
                 /\ rBucket'[r] \in {rBucket[r], rBucket[r] + 1}
                 /\ StartOf(rBucket'[r]) <= monoton
<1>1. IInv /\ [Next]_vars => [Ends]_vars
  BY InvisWalk, BucketWalk
<1> QED BY <1>1, InitIInv, StepIInv, PTL DEF Spec, WalksEndAtCounter
=============================================================================
