-------------------------- MODULE AngelQueueProofs --------------------------
(***************************************************************************)
(* Facts about the tables that the proofs about the queue rest on: the     *)
(* arithmetic of buckets, the first row of a bucket, and what each         *)
(* statement does to the rows of the message table.  Then the types, the   *)
(* indexes and the buckets of the queue.                                   *)
(***************************************************************************)
EXTENDS AngelQueue, FiniteSetTheorems, WellFoundedInduction, TLAPS

LEMMA LeastNatural ==
    ASSUME NEW S, S \subseteq Nat, S # {}
    PROVE  \E x \in S : \A y \in S : x <= y
<1> DEFINE R == {ss \in Nat \X Nat : ss[1] < ss[2]}
<1>1. IsWellFoundedOn(R, Nat)
  BY NatLessThanWellFounded, Zenon DEF OpToRel
<1> HIDE DEF R
<1>2. PICK x \in S : \A y \in S : ~ (<<y, x>> \in R)
  BY <1>1, WFMin
<1>3. ASSUME NEW y \in S, ~(x <= y) PROVE <<y, x>> \in R
  <2>1. y \in Nat /\ x \in Nat
    OBVIOUS
  <2>2. <<y, x>> \in Nat \X Nat /\ y < x
    BY <1>3, <2>1
  <2> QED BY <2>2 DEF R
<1> QED BY <1>2, <1>3

LEMMA FirstIsOne ==
    ASSUME NEW rows, rows # {}, \A m \in rows : m.index \in Nat
    PROVE  First(rows) \in rows
<1> DEFINE S == {m.index : m \in rows}
<1>1. \E x \in S : \A y \in S : x <= y
  BY LeastNatural
<1>2. \E m \in rows : \A n \in rows : m.index <= n.index
  BY <1>1
<1> QED BY <1>2 DEF First

LEMMA Division ==
    ASSUME NEW n \in Nat, NEW d \in Nat \ {0}
    PROVE  /\ n \div d \in Nat
           /\ (n \div d) * d <= n
           /\ n < (n \div d + 1) * d
OBVIOUS

LEMMA StartOrder ==
    ASSUME NEW a \in Nat, NEW b \in Nat, a < b
    PROVE  StartOf(a + 1) <= StartOf(b)
BY BucketSizeAssumption, Z3 DEF StartOf

LEMMA BucketBounds ==
    ASSUME NEW i \in Nat
    PROVE  /\ BucketOf(i) \in Nat
           /\ StartOf(BucketOf(i)) <= i
           /\ i < StartOf(BucketOf(i) + 1)
BY Division, BucketSizeAssumption DEF BucketOf, StartOf

LEMMA PastBucket ==
    ASSUME NEW i \in Nat, NEW b \in Nat, BucketOf(i) > b
    PROVE  StartOf(b + 1) <= i
<1>1. BucketOf(i) \in Nat /\ StartOf(BucketOf(i)) <= i
  BY BucketBounds
<1>2. StartOf(b + 1) <= StartOf(BucketOf(i))
  BY <1>1, StartOrder
<1> QED BY <1>1, <1>2, BucketSizeAssumption DEF StartOf
-----------------------------------------------------------------------------
(* What each statement does to a row, and that the table keeps its type. *)

LEMMA PutRows ==
    ASSUME IsMessageTable(messages), NEW index \in Nat, NEW blob \in Payloads
    PROVE  /\ IsMessageTable(AfterPut(index, blob))
           /\ DOMAIN AfterPut(index, blob) = DOMAIN messages \cup {index}
           /\ \A i \in DOMAIN messages : i # index => AfterPut(index, blob)[i] = messages[i]
BY DEF IsMessageTable, AfterPut, Message

LEMMA ConsumeRows ==
    ASSUME IsMessageTable(messages), NEW m, m.version \in Nat, m.deliveryCount \in Nat
    PROVE  /\ IsMessageTable(AfterConsume(m))
           /\ DOMAIN AfterConsume(m) = DOMAIN messages
           /\ \A i \in DOMAIN messages :
                  IF i = m.index THEN AfterConsume(m)[i].deliveryCount > 0
                                 ELSE AfterConsume(m)[i] = messages[i]
<1> DEFINE table == AfterConsume(m)
<1>1. DOMAIN table = DOMAIN messages
  BY DEF AfterConsume
<1>2. ASSUME NEW i \in DOMAIN messages, i # m.index
      PROVE  table[i] = messages[i]
  BY <1>2 DEF AfterConsume
<1>3. ASSUME NEW i \in DOMAIN messages, i = m.index
      PROVE  /\ table[i] \in Message
             /\ table[i].index = i
             /\ table[i].deliveryCount > 0
  <2>1. messages[i] \in Message /\ messages[i].index = i
    BY DEF IsMessageTable
  <2> DEFINE row1 == [messages[i] EXCEPT !.version = m.version + 1]
             row2 == [row1 EXCEPT !.deliveryCount = m.deliveryCount + 1]
  <2>2. table[i] = [row2 EXCEPT !.visible = FALSE]
    BY <1>3 DEF AfterConsume
  <2>3. row1 \in Message /\ row1.index = i
    BY <2>1 DEF Message
  <2> HIDE DEF row1, table
  <2>4. row2 \in Message /\ row2.index = i /\ row2.deliveryCount > 0
    BY <2>3 DEF Message
  <2> HIDE DEF row2
  <2> QED BY <2>2, <2>4 DEF Message
<1> QED BY <1>1, <1>2, <1>3 DEF IsMessageTable

LEMMA AckRows ==
    ASSUME IsMessageTable(messages), NEW m, m.version \in Nat
    PROVE  /\ IsMessageTable(AfterAck(m))
           /\ DOMAIN AfterAck(m) = DOMAIN messages
           /\ \A i \in DOMAIN messages :
                  AfterAck(m)[i].deliveryCount = messages[i].deliveryCount
<1> DEFINE table == AfterAck(m)
<1>1. DOMAIN table = DOMAIN messages
  BY DEF AfterAck
<1>2. ASSUME NEW i \in DOMAIN messages, i # m.index
      PROVE  table[i] = messages[i]
  BY <1>2 DEF AfterAck
<1>3. ASSUME NEW i \in DOMAIN messages, i = m.index
      PROVE  /\ table[i] \in Message
             /\ table[i].index = i
             /\ table[i].deliveryCount = messages[i].deliveryCount
  <2>1. messages[i] \in Message /\ messages[i].index = i
    BY DEF IsMessageTable
  <2> DEFINE row1 == [messages[i] EXCEPT !.version = m.version + 1]
  <2>2. table[i] = [row1 EXCEPT !.isAcked = TRUE]
    BY <1>3 DEF AfterAck
  <2>3. /\ row1 \in Message
        /\ row1.index = i
        /\ row1.deliveryCount = messages[i].deliveryCount
    BY <2>1 DEF Message
  <2> HIDE DEF row1, table
  <2> QED BY <2>2, <2>3 DEF Message
<1> QED BY <1>1, <1>2, <1>3 DEF IsMessageTable

LEMMA TimeoutRows ==
    ASSUME IsMessageTable(messages), NEW index
    PROVE  /\ IsMessageTable(AfterTimeout(index))
           /\ DOMAIN AfterTimeout(index) = DOMAIN messages
           /\ \A i \in DOMAIN messages :
                  AfterTimeout(index)[i].deliveryCount = messages[i].deliveryCount
<1> DEFINE table == AfterTimeout(index)
<1>1. DOMAIN table = DOMAIN messages
  BY DEF AfterTimeout
<1>2. ASSUME NEW i \in DOMAIN messages, i # index
      PROVE  table[i] = messages[i]
  BY <1>2 DEF AfterTimeout
<1>3. ASSUME NEW i \in DOMAIN messages, i = index
      PROVE  /\ table[i] \in Message
             /\ table[i].index = i
             /\ table[i].deliveryCount = messages[i].deliveryCount
  <2>1. messages[i] \in Message /\ messages[i].index = i
    BY DEF IsMessageTable
  <2>2. table[i] = [messages[i] EXCEPT !.visible = TRUE]
    BY <1>3 DEF AfterTimeout
  <2> HIDE DEF table
  <2> QED BY <2>1, <2>2 DEF Message
<1> QED BY <1>1, <1>2, <1>3 DEF IsMessageTable

LEMMA RowsOfBucket ==
    ASSUME IsMessageTable(messages), NEW bucket, NEW m \in GetMessages(bucket)
    PROVE  /\ m \in Message
           /\ m.index \in DOMAIN messages
           /\ m = messages[m.index]
           /\ BucketOf(m.index) = bucket
BY DEF IsMessageTable, GetMessages

(* A bucket that holds as many rows as fit has used all its indexes. *)
LEMMA FullBucket ==
    ASSUME IsMessageTable(messages), monoton \in Nat,
           \A i \in DOMAIN messages : i < monoton,
           NEW bucket \in Nat, Cardinality(GetMessages(bucket)) = BucketSize
    PROVE  StartOf(bucket + 1) <= monoton
<1> DEFINE rows == GetMessages(bucket)
           used == StartOf(bucket)..(monoton - 1)
           f == [m \in rows |-> m.index]
<1>1. StartOf(bucket) \in Nat /\ StartOf(bucket + 1) = StartOf(bucket) + BucketSize
  BY BucketSizeAssumption DEF StartOf
<1>2. ASSUME NEW m \in rows PROVE m.index \in used
  <2>1. m.index \in Nat /\ m.index < monoton /\ BucketOf(m.index) = bucket
    BY RowsOfBucket DEF IsMessageTable
  <2>2. StartOf(bucket) <= m.index
    BY <2>1, BucketBounds
  <2> QED BY <1>1, <2>1, <2>2
<1>3. \A m, n \in rows : m.index = n.index => m = n
  BY RowsOfBucket
<1>4. f \in Injection(rows, used)
  BY <1>2, <1>3 DEF Injection, IsInjective
<1>5. IsFiniteSet(used) /\ Cardinality(used) = IF StartOf(bucket) > monoton - 1 THEN 0
                                              ELSE monoton - StartOf(bucket)
  <2>1. StartOf(bucket) \in Int /\ monoton - 1 \in Int
    BY <1>1
  <2> QED BY <2>1, FS_Interval
<1>6. Cardinality(rows) <= Cardinality(used)
  <2> HIDE DEF rows, used, f
  <2> QED BY <1>4, <1>5, FS_Injection
<1> QED BY <1>1, <1>5, <1>6, BucketSizeAssumption

(* It has a row for each of them: a put in flight has no index in it. *)
LEMMA FullBucketHasAll ==
    ASSUME IsMessageTable(messages), NEW bucket \in Nat,
           Cardinality(GetMessages(bucket)) = BucketSize,
           NEW index \in Nat, BucketOf(index) = bucket
    PROVE  index \in DOMAIN messages
<1> SUFFICES ASSUME index \notin DOMAIN messages PROVE FALSE
  OBVIOUS
<1> DEFINE rows == GetMessages(bucket)
           all == StartOf(bucket)..(StartOf(bucket + 1) - 1)
           others == all \ {index}
           f == [m \in rows |-> m.index]
<1>1. /\ StartOf(bucket) \in Nat /\ StartOf(bucket + 1) \in Nat
      /\ StartOf(bucket + 1) = StartOf(bucket) + BucketSize
  BY BucketSizeAssumption DEF StartOf
<1>2. ASSUME NEW m \in rows PROVE m.index \in others
  <2>1. m.index \in Nat /\ m.index \in DOMAIN messages /\ BucketOf(m.index) = bucket
    BY RowsOfBucket DEF IsMessageTable
  <2>2. StartOf(bucket) <= m.index /\ m.index < StartOf(bucket + 1)
    BY <2>1, BucketBounds
  <2>3. m.index \in all
    BY <1>1, <2>1, <2>2
  <2> QED BY <2>1, <2>3
<1>3. \A m, n \in rows : m.index = n.index => m = n
  BY RowsOfBucket
<1>4. f \in Injection(rows, others)
  BY <1>2, <1>3 DEF Injection, IsInjective
<1>5. index \in all
  BY <1>1, BucketBounds
<1>6. IsFiniteSet(all) /\ Cardinality(all) = BucketSize
  <2>1. StartOf(bucket) \in Int /\ StartOf(bucket + 1) - 1 \in Int
    BY <1>1, BucketSizeAssumption
  <2> QED BY <1>1, <2>1, FS_Interval, BucketSizeAssumption
<1>7. IsFiniteSet(others) /\ Cardinality(others) = BucketSize - 1
  <2> HIDE DEF all
  <2> QED BY <1>5, <1>6, FS_RemoveElement
<1>8. Cardinality(rows) <= Cardinality(others)
  <2> HIDE DEF rows, others, f
  <2> QED BY <1>4, <1>7, FS_Injection
<1> QED BY <1>7, <1>8, BucketSizeAssumption

(***************************************************************************)
(* Type correctness.  One lemma per component: whatever one of its steps   *)
(* does keeps its own variables and the tables typed.                      *)
(***************************************************************************)

LEMMA SameTables == TablesTypeOK /\ UNCHANGED tableVars => TablesTypeOK'
BY DEF TablesTypeOK, tableVars, IsMessageTable, Message

LEMMA ProducerTypes ==
    ASSUME TablesTypeOK, ProducerTypeOK, NEW p \in Producers,
           PutRequest(p) \/ ProducerProgress(p) \/ PutFails(p) \/ PutUnanswered(p)
    PROVE  TablesTypeOK' /\ ProducerTypeOK'
<1>1. CASE PutRequest(p)
  BY <1>1, SameTables DEF PutRequest, ProducerTypeOK, ProducerPc
<1>2. CASE ReadMonoton(p)
  BY <1>2, SameTables DEF ReadMonoton, ProducerTypeOK, ProducerPc, TablesTypeOK
<1>3. CASE IncrementMonoton(p)
  BY <1>3 DEF IncrementMonoton, MonotonAfterIncrement, TablesTypeOK, ProducerTypeOK, ProducerPc,
              IsMessageTable, Message
<1>4. CASE PutMessage(p) \/ PutUnanswered(p)
  <2>1. pIndex[p] \in Nat /\ pBlob[p] \in Payloads
    BY <1>4 DEF PutMessage, PutUnanswered, ProducerTypeOK
  <2>2. IsMessageTable(AfterPut(pIndex[p], pBlob[p])) /\ IsMessageTable(messages)
    BY <2>1, PutRows DEF TablesTypeOK
  <2>3. IsMessageTable(messages)'
    BY <1>4, <2>2 DEF PutMessage, PutUnanswered, IsMessageTable, Message
  <2>4. ProducerTypeOK'
    BY <1>4, <2>1 DEF PutMessage, PutUnanswered, RequestOver, ProducerTypeOK, ProducerPc
  <2> QED BY <1>4, <2>3, <2>4 DEF PutMessage, PutUnanswered, TablesTypeOK
<1>5. CASE PutFails(p)
  BY <1>5, SameTables DEF PutFails, RequestOver, ProducerTypeOK, ProducerPc
<1> QED BY <1>1, <1>2, <1>3, <1>4, <1>5 DEF ProducerProgress

LEMMA SnapshotType == ASSUME NEW m \in Message PROVE SnapshotOf(m) \in Snapshot
BY DEF SnapshotOf, Snapshot, Message

(* The row that First picks out of some rows of a bucket. *)
LEMMA FirstOfBucket ==
    ASSUME IsMessageTable(messages), NEW bucket,
           NEW rows, rows \subseteq GetMessages(bucket), rows # {}
    PROVE  First(rows) \in rows /\ First(rows) \in Message
<1>1. \A m \in rows : m \in Message /\ m.index \in Nat
  BY RowsOfBucket DEF Message
<1> QED BY <1>1, FirstIsOne

LEMMA InvisBucketType ==
    ASSUME NEW i \in Int
    PROVE  InvisBucketOf(i) \in Nat /\ StartOf(InvisBucketOf(i) + 1) \in Nat
<1>1. InvisBucketOf(i) \in Nat
  BY BucketBounds DEF InvisBucketOf
<1> QED BY <1>1, BucketSizeAssumption DEF StartOf

(* What a get request does with its own state. *)
LEMMA LocalMoves ==
    ASSUME ReaderTypeOK, NEW r \in Readers, UNCHANGED ackerVars, receipts' \subseteq PopReceipt,
           \/ \E pc \in ReaderPc : GoTo(r, pc)
           \/ \E pc \in ReaderPc, m \in Message : Remember(r, m, pc)
           \/ Answer(r)
           \/ TurnToBucket(r)
    PROVE  ReaderTypeOK'
<1> USE DEF ReaderTypeOK, ackerVars
<1>1. NoSnapshot \in Snapshot
  BY DEF NoSnapshot, Snapshot
<1>2. CASE \E pc \in ReaderPc : GoTo(r, pc)
  BY <1>2 DEF GoTo
<1>3. CASE \E pc \in ReaderPc, m \in Message : Remember(r, m, pc)
  BY <1>3, SnapshotType DEF Remember
<1>4. CASE Answer(r)
  BY <1>1, <1>4 DEF Answer, ReaderPc
<1>5. CASE TurnToBucket(r)
  BY <1>1, <1>5 DEF TurnToBucket, ReaderPc
<1> QED BY <1>2, <1>3, <1>4, <1>5

LEMMA ReaderTypes ==
    ASSUME TablesTypeOK, ReaderTypeOK, NEW r \in Readers,
           StartRead(r) \/ ReaderProgress(r) \/ ConsumeUnanswered(r) \/ ReadFails(r),
           UNCHANGED ackerVars
    PROVE  TablesTypeOK' /\ ReaderTypeOK'
<1> USE DEF ReaderPc
<1>1. CASE StartRead(r)
  BY <1>1, SameTables DEF StartRead, TablesTypeOK, ReaderTypeOK, ackerVars
<1>2. CASE VisitInvis(r)
  <2>1. \/ GoTo(r, "scanInvis")
        \/ rPtr[r] \in DOMAIN messages /\ Remember(r, messages[rPtr[r]], "consumeInvis")
        \/ TurnToBucket(r)
    BY <1>2 DEF VisitInvis
  <2>2. UNCHANGED <<receipts, tableVars>>
    BY <1>2 DEF VisitInvis
  <2>3. \A i \in DOMAIN messages : messages[i] \in Message
    BY DEF TablesTypeOK, IsMessageTable
  <2>4. receipts' \subseteq PopReceipt /\ TablesTypeOK'
    BY <2>2, SameTables DEF ReaderTypeOK
  <2> QED BY <2>1, <2>3, <2>4, LocalMoves
<1>3. CASE ScanInvis(r)
  <2> DEFINE bucket == InvisBucketOf(rPtr[r])
             candidates == OutForDelivery(bucket)
  <2>1. candidates # {} => First(candidates) \in Message
    BY FirstOfBucket DEF TablesTypeOK, OutForDelivery
  <2>2. rPtr[r] \in Int
    BY DEF ReaderTypeOK
  <2>3. StartOf(bucket + 1) \in Int
    BY <2>2, InvisBucketType
  <2>4. UNCHANGED <<receipts, tableVars>>
    BY <1>3 DEF ScanInvis
  <2>5. CASE \/ TurnToBucket(r)
             \/ candidates # {} /\ Remember(r, First(candidates), "moveBack")
    BY <2>1, <2>4, <2>5, LocalMoves, SameTables DEF ReaderTypeOK
  <2>6. CASE /\ rPc' = [rPc EXCEPT ![r] = "visit"]
             /\ rPtr' = [rPtr EXCEPT ![r] = StartOf(bucket + 1)]
             /\ UNCHANGED <<rBucket, rMessage>>
    BY <2>3, <2>4, <2>6, SameTables DEF ReaderTypeOK, ackerVars
  <2> QED BY <1>3, <2>5, <2>6 DEF ScanInvis
<1>4. CASE MoveInvisBack(r) \/ MoveInvisOn(r)
  <2>1. rMessage[r].index \in Int
    BY DEF ReaderTypeOK, Snapshot
  <2>2. invisPointer' \in Int
    BY <1>4, <2>1 DEF MoveInvisBack, MoveInvisOn, PointerAfterMove, TablesTypeOK
  <2>3. TablesTypeOK'
    BY <1>4, <2>2 DEF MoveInvisBack, MoveInvisOn, TablesTypeOK, IsMessageTable, Message
  <2>4. (GoTo(r, "moveOn") \/ TurnToBucket(r)) /\ UNCHANGED receipts
    BY <1>4 DEF MoveInvisBack, MoveInvisOn
  <2> QED BY <2>3, <2>4, LocalMoves DEF ReaderTypeOK
<1>5. CASE ReadBucketPointer(r)
  BY <1>5, SameTables DEF ReadBucketPointer, TablesTypeOK, ReaderTypeOK, ackerVars
<1>6. CASE ScanBucket(r)
  <2>1. Servable(rBucket[r]) # {} => First(Servable(rBucket[r])) \in Message
    BY FirstOfBucket DEF TablesTypeOK, Servable
  <2>2. \/ \E m \in Message : Remember(r, m, "consume")
        \/ GoTo(r, "tombstone")
        \/ GoTo(r, "monoton")
    BY <1>6, <2>1 DEF ScanBucket
  <2>3. UNCHANGED <<receipts, tableVars>>
    BY <1>6 DEF ScanBucket
  <2> QED BY <2>2, <2>3, LocalMoves, SameTables DEF ReaderTypeOK
<1>7. CASE ReadMonotonPast(r)
  <2>1. (GoTo(r, "tombstone") \/ Answer(r)) /\ UNCHANGED <<receipts, tableVars>>
    BY <1>7 DEF ReadMonotonPast
  <2> QED BY <2>1, LocalMoves, SameTables DEF ReaderTypeOK
<1>8. CASE TombstoneBucket(r)
  <2>1. rBucket[r] \in Nat
    BY DEF ReaderTypeOK
  <2>2. tombstones' \subseteq Nat
    BY <1>8, <2>1 DEF TombstoneBucket, TablesTypeOK
  <2>3. TablesTypeOK'
    BY <1>8, <2>2 DEF TombstoneBucket, TablesTypeOK, IsMessageTable, Message
  <2>4. GoTo(r, "advance") /\ UNCHANGED receipts
    BY <1>8 DEF TombstoneBucket
  <2> QED BY <2>3, <2>4, LocalMoves DEF ReaderTypeOK
<1>9. CASE AdvanceBucket(r)
  BY <1>9 DEF AdvanceBucket, PointerAfterMove, MoveResult, TablesTypeOK, IsMessageTable, Message,
              ReaderTypeOK, ackerVars
<1>10. CASE Consume(r) \/ ConsumeUnanswered(r)
  <2>1. rMessage[r].index \in Nat /\ rMessage[r].version \in Nat /\ rMessage[r].deliveryCount \in Nat
    BY DEF ReaderTypeOK, Snapshot
  <2>2. IsMessageTable(AfterConsume(rMessage[r]))
    BY <2>1, ConsumeRows DEF TablesTypeOK
  <2>3. TablesTypeOK'
    BY <1>10, <2>2 DEF Consume, ConsumeUnanswered, TablesTypeOK
  <2>4. ReceiptOf(rMessage[r]) \in PopReceipt
    BY <2>1 DEF ReceiptOf, PopReceipt
  <2>5. Answer(r) /\ receipts' \subseteq PopReceipt
    BY <1>10, <2>4 DEF Consume, ConsumeUnanswered, ReaderTypeOK
  <2> QED BY <2>3, <2>5, LocalMoves
<1>11. CASE ConsumeRefused(r)
  <2>1. UNCHANGED <<receipts, tableVars>>
    BY <1>11 DEF ConsumeRefused
  <2>2. CASE TurnToBucket(r)
    BY <2>1, <2>2, LocalMoves, SameTables DEF ReaderTypeOK
  <2>3. CASE /\ rPc' = [rPc EXCEPT ![r] = "scan"]
             /\ rMessage' = [rMessage EXCEPT ![r] = NoSnapshot]
             /\ UNCHANGED <<rPtr, rBucket>>
    BY <2>1, <2>3, SameTables DEF ReaderTypeOK, ackerVars, Snapshot, NoSnapshot
  <2> QED BY <1>11, <2>2, <2>3 DEF ConsumeRefused
<1>12. CASE ReadFails(r)
  BY <1>12, SameTables, LocalMoves DEF ReadFails, ReaderTypeOK
<1> QED BY <1>1, <1>2, <1>3, <1>4, <1>5, <1>6, <1>7, <1>8, <1>9, <1>10, <1>11, <1>12
        DEF ReaderProgress

LEMMA AckerTypes ==
    ASSUME TablesTypeOK, ReaderTypeOK, NEW a \in Ackers,
           BeginAck(a) \/ FinishAck(a) \/ AckFails(a),
           UNCHANGED readerVars
    PROVE  TablesTypeOK' /\ ReaderTypeOK'
<1> USE DEF ReaderTypeOK, readerVars
<1>1. CASE BeginAck(a)
  BY <1>1, SameTables DEF BeginAck
<1>2. CASE FinishAck(a)
  <2>1. aReceipt[a].version \in Nat
    BY DEF PopReceipt
  <2>2. IsMessageTable(AfterAck(aReceipt[a])) /\ IsMessageTable(messages)
    BY <2>1, AckRows DEF TablesTypeOK
  <2>3. IsMessageTable(messages)'
    BY <1>2, <2>2 DEF FinishAck, IsMessageTable, Message
  <2>4. TablesTypeOK'
    BY <1>2, <2>3 DEF FinishAck, TablesTypeOK
  <2>5. ReaderTypeOK'
    BY <1>2 DEF FinishAck, PopReceipt, NoReceipt
  <2> QED BY <2>4, <2>5
<1>3. CASE AckFails(a)
  BY <1>3, SameTables DEF AckFails, PopReceipt, NoReceipt
<1> QED BY <1>1, <1>2, <1>3

LEMMA WorkerTypes ==
    ASSUME TablesTypeOK, WorkerTypeOK, WorkersHaveWork, NEW w \in Workers,
           \/ Poll(w) \/ WorkerProgress(w) \/ EndWait(w) \/ Restart(w)
           \/ PassFails(w) \/ Stop(w)
    PROVE  TablesTypeOK' /\ WorkerTypeOK' /\ WorkersHaveWork'
<1> USE DEF WorkerTypeOK, WorkerPc, WorkersHaveWork
<1>0. wTodo[w] # {} => First(wTodo[w]) \in wTodo[w] /\ First(wTodo[w]) \in Message
  BY FirstIsOne DEF Message
<1>1. CASE Poll(w)
  BY <1>1, SameTables DEF Poll, TablesTypeOK
<1>2. CASE CheckTombstone(w)
  BY <1>2, SameTables DEF CheckTombstone, WorkerGoTo, EndPass
<1>3. CASE ListBucket(w)
  BY <1>3, SameTables DEF ListBucket, WorkerGoTo
<1>4. CASE SkipBucket(w)
  BY <1>4 DEF SkipBucket, PointerAfterMove, MoveResult, TablesTypeOK, IsMessageTable, Message
<1>5. CASE ReadBucket(w)
  <2>1. {m \in GetMessages(wBucket[w]) : ~m.isAcked /\ m.deliveryCount = 0} \in SUBSET Message
    BY RowsOfBucket DEF TablesTypeOK
  <2> QED BY <1>5, <2>1, SameTables DEF ReadBucket
<1>6. CASE FilterNext(w)
  BY <1>6, SameTables DEF FilterNext, WorkerGoTo
<1>7. CASE WorkerReadMonoton(w)
  BY <1>7, SameTables DEF WorkerReadMonoton, TablesTypeOK
<1>8. CASE WorkerIncrementMonoton(w)
  BY <1>8 DEF WorkerIncrementMonoton, WorkerGoTo, MonotonAfterIncrement, TablesTypeOK, IsMessageTable, Message
<1>9. CASE PutCopy(w)
  <2>1. wIndex[w] \in Nat /\ First(wTodo[w]).blob \in Payloads
    BY <1>0, <1>9 DEF PutCopy, Message
  <2>2. IsMessageTable(AfterPut(wIndex[w], First(wTodo[w]).blob))
    BY <2>1, PutRows DEF TablesTypeOK
  <2>3. TablesTypeOK'
    BY <1>9, <2>2 DEF PutCopy, TablesTypeOK
  <2>4. WorkerTypeOK' /\ WorkersHaveWork'
    BY <1>9 DEF PutCopy
  <2> QED BY <2>3, <2>4
<1>10. CASE AckOriginal(w)
  <2>1. First(wTodo[w]).version \in Nat
    BY <1>0, <1>10 DEF AckOriginal, Message
  <2>2. IsMessageTable(AfterAck(First(wTodo[w]))) /\ IsMessageTable(messages)
    BY <2>1, AckRows DEF TablesTypeOK
  <2>3. IsMessageTable(messages)'
    BY <1>10, <2>2 DEF AckOriginal, IsMessageTable, Message
  <2>4. TablesTypeOK'
    BY <1>10, <2>3 DEF AckOriginal, TablesTypeOK
  <2>5. WorkerTypeOK' /\ WorkersHaveWork'
    BY <1>10 DEF AckOriginal
  <2> QED BY <2>4, <2>5
<1>11. CASE AdvanceRepair(w)
  BY <1>11 DEF AdvanceRepair, EndPass, PointerAfterMove, TablesTypeOK, IsMessageTable, Message
<1>12. CASE EndWait(w)
  BY <1>12, SameTables DEF EndWait, WorkerGoTo, EndPass
<1>13. CASE Restart(w) \/ Stop(w)
  BY <1>13, SameTables DEF Restart, Stop
<1>14. CASE PassFails(w)
  BY <1>14, SameTables DEF PassFails, EndPass
<1> QED BY <1>1, <1>2, <1>3, <1>4, <1>5, <1>6, <1>7, <1>8, <1>9, <1>10, <1>11, <1>12, <1>13, <1>14
        DEF WorkerProgress

-----------------------------------------------------------------------------
(* A component whose variables a step leaves alone stays typed. *)

LEMMA SameProducers == ProducerTypeOK /\ UNCHANGED producerVars => ProducerTypeOK'
BY DEF ProducerTypeOK, producerVars

LEMMA SameReaders == ReaderTypeOK /\ UNCHANGED <<readerVars, ackerVars>> => ReaderTypeOK'
BY DEF ReaderTypeOK, readerVars, ackerVars

LEMMA SameWorkers ==
    WorkerTypeOK /\ WorkersHaveWork /\ UNCHANGED workerVars => WorkerTypeOK' /\ WorkersHaveWork'
BY DEF WorkerTypeOK, WorkersHaveWork, workerVars, Message

TypeInv == TypeOK /\ WorkersHaveWork

LEMMA InitTypes == Init => TypeInv
<1> SUFFICES ASSUME Init PROVE TypeInv
  OBVIOUS
<1>1. TablesTypeOK
  BY DEF Init, TablesInit, TablesTypeOK, IsMessageTable
<1>2. ProducerTypeOK
  BY DEF Init, ProducerInit, ProducerTypeOK, ProducerPc
<1>3. ReaderTypeOK
  BY DEF Init, ReaderInit, ReaderTypeOK, ReaderPc, Snapshot, NoSnapshot, PopReceipt, NoReceipt
<1>4. WorkerTypeOK /\ WorkersHaveWork
  BY DEF Init, WorkerInit, WorkerTypeOK, WorkerPc, WorkersHaveWork
<1>5. faults \in 0..MaxFaults
  BY BoundsAssumption DEF Init
<1> QED BY <1>1, <1>2, <1>3, <1>4, <1>5 DEF TypeInv, TypeOK

LEMMA StepTypes == TypeInv /\ [Next]_vars => TypeInv'
<1> SUFFICES ASSUME TypeInv, [Next]_vars PROVE TypeInv'
  OBVIOUS
<1> USE DEF TypeInv, TypeOK
<1>1. ASSUME NEW p \in Producers, NewPut(p) \/ PutStep(p) PROVE TypeInv'
  BY <1>1, ProducerTypes, SameReaders, SameWorkers DEF NewPut, PutStep
<1>2. ASSUME NEW r \in Readers, ReadStep(r) PROVE TypeInv'
  BY <1>2, ReaderTypes, SameProducers, SameWorkers DEF ReadStep
<1>3. ASSUME NEW a \in Ackers, AckStep(a) PROVE TypeInv'
  BY <1>3, AckerTypes, SameProducers, SameWorkers DEF AckStep
<1>4. ASSUME NEW w \in Workers, RepairStep(w) PROVE TypeInv'
  BY <1>4, WorkerTypes, SameProducers, SameReaders DEF RepairStep, WaitForTimeout
<1>5. ASSUME NEW i \in DOMAIN messages, BecomeVisible(i) PROVE TypeInv'
  <2>1. TablesTypeOK'
    BY <1>5, TimeoutRows DEF BecomeVisible, TablesTypeOK
  <2> QED BY <1>5, <2>1, SameProducers, SameReaders, SameWorkers DEF BecomeVisible
<1>6. CASE Fault
  <2>1. faults' \in 0..MaxFaults
    BY <1>6, BoundsAssumption DEF Fault
  <2>2. ASSUME NEW p \in Producers, PutFails(p) \/ PutUnanswered(p),
               UNCHANGED <<readerVars, ackerVars, workerVars>>
        PROVE  TypeInv'
    BY <2>1, <2>2, ProducerTypes, SameReaders, SameWorkers
  <2>3. ASSUME NEW r \in Readers, ReadFails(r) \/ ConsumeUnanswered(r),
               UNCHANGED <<producerVars, ackerVars, workerVars>>
        PROVE  TypeInv'
    BY <2>1, <2>3, ReaderTypes, SameProducers, SameWorkers
  <2>4. ASSUME NEW a \in Ackers, AckFails(a), UNCHANGED <<producerVars, readerVars, workerVars>>
        PROVE  TypeInv'
    BY <2>1, <2>4, AckerTypes, SameProducers, SameWorkers
  <2>5. ASSUME NEW w \in Workers, PassFails(w) \/ Stop(w),
               UNCHANGED <<producerVars, readerVars, ackerVars>>
        PROVE  TypeInv'
    BY <2>1, <2>5, WorkerTypes, SameProducers, SameReaders
  <2> QED BY <1>6, <2>2, <2>3, <2>4, <2>5 DEF Fault
<1>7. CASE UNCHANGED vars
  BY <1>7, SameTables, SameProducers, SameReaders, SameWorkers DEF vars
<1> QED BY <1>1, <1>2, <1>3, <1>4, <1>5, <1>6, <1>7 DEF Next

(* Every variable keeps its type, whatever the numbers of clients and      *)
(* workers, the size of a bucket and the bounds.                           *)
THEOREM TypeCorrect == Spec => []TypeOK
<1>1. TypeInv => TypeOK
  BY DEF TypeInv
<1> QED BY <1>1, InitTypes, StepTypes, PTL DEF Spec

(***************************************************************************)
(* Indexes.  Only a compare-and-set of the counter gives an index out, and *)
(* only the put that holds it uses it; every other step leaves the puts in *)
(* flight, the indexes in use and the counter alone (IndexFrame).          *)
(***************************************************************************)

LEMMA IndexesInNat == TypeInv => InFlight \cup DOMAIN messages \subseteq Nat
BY DEF TypeInv, TypeOK, TablesTypeOK, IsMessageTable, ProducerTypeOK, WorkerTypeOK,
       InFlight, ProducersPutting, WorkersPutting

LEMMA IndexFrame ==
    ASSUME IndexesHaveOneOwner,
           monoton' = monoton,
           DOMAIN messages' = DOMAIN messages,
           \A p \in Producers : pPc'[p] = "put" => pPc[p] = "put" /\ pIndex'[p] = pIndex[p],
           \A w \in Workers : wPc'[w] = "put" => wPc[w] = "put" /\ wIndex'[w] = wIndex[w]
    PROVE  IndexesHaveOneOwner'
BY DEF IndexesHaveOneOwner, InFlight, ProducersPutting, WorkersPutting

LEMMA ProducerIndexes ==
    ASSUME TypeInv, IndexesHaveOneOwner, NEW p \in Producers,
           PutRequest(p) \/ ProducerProgress(p) \/ PutFails(p) \/ PutUnanswered(p),
           UNCHANGED workerVars
    PROVE  IndexesHaveOneOwner'
<1> USE DEF TypeInv, TypeOK, TablesTypeOK, ProducerTypeOK, workerVars
<1>1. CASE PutRequest(p) \/ ReadMonoton(p) \/ PutFails(p)
  BY <1>1, IndexFrame DEF PutRequest, ReadMonoton, PutFails, RequestOver, tableVars
<1>2. CASE IncrementMonoton(p) /\ ~IncrementApplies(pIndex[p])
  BY <1>2, IndexFrame DEF IncrementMonoton, MonotonAfterIncrement
<1>3. CASE IncrementMonoton(p) /\ IncrementApplies(pIndex[p])
  <2>1. pIndex[p] = monoton /\ monoton' = monoton + 1 /\ pPc[p] # "put"
    BY <1>3 DEF IncrementMonoton, IncrementApplies, MonotonAfterIncrement
  <2>2. pPc' = [pPc EXCEPT ![p] = "put"] /\ UNCHANGED <<pIndex, messages>>
    BY <1>3 DEF IncrementMonoton
  <2>3. UNCHANGED WorkersPutting /\ ProducersPutting' = ProducersPutting \cup {p}
    BY <2>2 DEF ProducersPutting, WorkersPutting
  <2>4. InFlight' = InFlight \cup {monoton}
    BY <2>1, <2>2, <2>3 DEF InFlight
  <2>5. \A i \in InFlight \cup DOMAIN messages : i \in Nat /\ i < monoton
    BY IndexesInNat DEF IndexesHaveOneOwner
  <2>6. \A q \in ProducersPutting : pIndex[q] # monoton
    BY <2>5 DEF InFlight
  <2>7. \A w \in WorkersPutting : wIndex[w] # monoton
    BY <2>5 DEF InFlight
  <2>8. InFlight' \cap DOMAIN messages' = {} /\ \A i \in InFlight' \cup DOMAIN messages' : i < monoton'
    BY <2>1, <2>2, <2>4, <2>5 DEF IndexesHaveOneOwner
  <2> QED BY <2>1, <2>2, <2>3, <2>6, <2>7, <2>8 DEF IndexesHaveOneOwner
<1>4. CASE PutMessage(p) \/ PutUnanswered(p)
  <2>1. pIndex[p] \in Nat /\ pBlob[p] \in Payloads /\ pPc[p] = "put"
    BY <1>4 DEF PutMessage, PutUnanswered
  <2>2. DOMAIN messages' = DOMAIN messages \cup {pIndex[p]}
    BY <1>4, <2>1, PutRows DEF PutMessage, PutUnanswered, PutApplies
  <2>3. pPc' = [pPc EXCEPT ![p] = "idle"] /\ pIndex' = [pIndex EXCEPT ![p] = 0] /\ monoton' = monoton
    BY <1>4 DEF PutMessage, PutUnanswered, RequestOver
  <2> QED BY <2>1, <2>2, <2>3 DEF IndexesHaveOneOwner, InFlight, ProducersPutting, WorkersPutting
<1> QED BY <1>1, <1>2, <1>3, <1>4 DEF ProducerProgress

LEMMA ReaderIndexes ==
    ASSUME TypeInv, IndexesHaveOneOwner, NEW r \in Readers,
           StartRead(r) \/ ReaderProgress(r) \/ ConsumeUnanswered(r) \/ ReadFails(r),
           UNCHANGED <<producerVars, workerVars>>
    PROVE  IndexesHaveOneOwner'
<1>1. monoton' = monoton
  BY DEF ReaderProgress, StartRead, VisitInvis, ScanInvis, MoveInvisBack, MoveInvisOn,
         ReadBucketPointer, ScanBucket, ReadMonotonPast, TombstoneBucket, AdvanceBucket,
         Consume, ConsumeUnanswered, ConsumeRefused, ReadFails, tableVars
<1>2. messages' = messages \/ messages' = AfterConsume(rMessage[r])
  BY DEF ReaderProgress, StartRead, VisitInvis, ScanInvis, MoveInvisBack, MoveInvisOn,
         ReadBucketPointer, ScanBucket, ReadMonotonPast, TombstoneBucket, AdvanceBucket,
         Consume, ConsumeUnanswered, ConsumeRefused, ReadFails, tableVars
<1>3. DOMAIN messages' = DOMAIN messages
  BY <1>2 DEF AfterConsume
<1> QED BY <1>1, <1>3, IndexFrame DEF producerVars, workerVars

LEMMA AckerIndexes ==
    ASSUME IndexesHaveOneOwner, NEW a \in Ackers,
           BeginAck(a) \/ FinishAck(a) \/ AckFails(a),
           UNCHANGED <<producerVars, workerVars>>
    PROVE  IndexesHaveOneOwner'
<1>1. monoton' = monoton /\ DOMAIN messages' = DOMAIN messages
  BY DEF BeginAck, FinishAck, AckFails, AfterAck, tableVars
<1> QED BY <1>1, IndexFrame DEF producerVars, workerVars

LEMMA WorkerIndexes ==
    ASSUME TypeInv, IndexesHaveOneOwner, NEW w \in Workers,
           \/ Poll(w) \/ WorkerProgress(w) \/ EndWait(w) \/ Restart(w)
           \/ PassFails(w) \/ Stop(w),
           UNCHANGED producerVars
    PROVE  IndexesHaveOneOwner'
<1> USE DEF TypeInv, TypeOK, TablesTypeOK, WorkerTypeOK, producerVars
<1>1. CASE \/ Poll(w) \/ CheckTombstone(w) \/ ListBucket(w) \/ SkipBucket(w)
           \/ EndWait(w) \/ Restart(w) \/ PassFails(w) \/ Stop(w)
  BY <1>1, IndexFrame DEF Poll, CheckTombstone, ListBucket, SkipBucket, EndWait, Restart, PassFails, Stop,
                          WorkerGoTo, EndPass, tableVars
<1>2. CASE \/ ReadBucket(w) \/ FilterNext(w) \/ WorkerReadMonoton(w) \/ AdvanceRepair(w)
           \/ WorkerIncrementMonoton(w) /\ ~IncrementApplies(wIndex[w])
  BY <1>2, IndexFrame DEF ReadBucket, FilterNext, WorkerReadMonoton, AdvanceRepair,
                          WorkerIncrementMonoton, MonotonAfterIncrement, WorkerGoTo, EndPass, tableVars
<1>3. CASE WorkerIncrementMonoton(w) /\ IncrementApplies(wIndex[w])
  <2>1. wIndex[w] = monoton /\ monoton' = monoton + 1 /\ wPc[w] # "put"
    BY <1>3 DEF WorkerIncrementMonoton, IncrementApplies, MonotonAfterIncrement
  <2>2. wPc' = [wPc EXCEPT ![w] = "put"] /\ UNCHANGED <<wIndex, messages>>
    BY <1>3 DEF WorkerIncrementMonoton, WorkerGoTo
  <2>3. UNCHANGED ProducersPutting /\ WorkersPutting' = WorkersPutting \cup {w}
    BY <2>2 DEF ProducersPutting, WorkersPutting
  <2>4. InFlight' = InFlight \cup {monoton}
    BY <2>1, <2>2, <2>3 DEF InFlight
  <2>5. \A i \in InFlight \cup DOMAIN messages : i \in Nat /\ i < monoton
    BY IndexesInNat DEF IndexesHaveOneOwner
  <2>6. \A p \in ProducersPutting : pIndex[p] # monoton
    BY <2>5 DEF InFlight
  <2>7. \A v \in WorkersPutting : wIndex[v] # monoton
    BY <2>5 DEF InFlight
  <2>8. InFlight' \cap DOMAIN messages' = {} /\ \A i \in InFlight' \cup DOMAIN messages' : i < monoton'
    BY <2>1, <2>2, <2>4, <2>5 DEF IndexesHaveOneOwner
  <2> QED BY <2>1, <2>2, <2>3, <2>6, <2>7, <2>8 DEF IndexesHaveOneOwner
<1>4. CASE PutCopy(w)
  <2>1. First(wTodo[w]) \in Message
    BY <1>4, FirstIsOne DEF PutCopy, WorkersHaveWork, Message
  <2>2. wIndex[w] \in Nat /\ First(wTodo[w]).blob \in Payloads /\ wPc[w] = "put"
    BY <1>4, <2>1 DEF PutCopy, Message
  <2>3. DOMAIN messages' = DOMAIN messages \cup {wIndex[w]}
    BY <1>4, <2>2, PutRows DEF PutCopy
  <2>4. wPc' = [wPc EXCEPT ![w] = "ack"] /\ wIndex' = [wIndex EXCEPT ![w] = 0] /\ monoton' = monoton
    BY <1>4 DEF PutCopy
  <2> QED BY <2>2, <2>3, <2>4 DEF IndexesHaveOneOwner, InFlight, ProducersPutting, WorkersPutting
<1>5. CASE AckOriginal(w)
  <2>1. DOMAIN messages' = DOMAIN messages
    BY <1>5 DEF AckOriginal, AfterAck
  <2> QED BY <1>5, <2>1, IndexFrame DEF AckOriginal
<1> QED BY <1>1, <1>2, <1>3, <1>4, <1>5 DEF WorkerProgress

LEMMA StepIndexes == TypeInv /\ IndexesHaveOneOwner /\ [Next]_vars => IndexesHaveOneOwner'
<1> SUFFICES ASSUME TypeInv, IndexesHaveOneOwner, [Next]_vars PROVE IndexesHaveOneOwner'
  OBVIOUS
<1>1. ASSUME NEW p \in Producers, NewPut(p) \/ PutStep(p) PROVE IndexesHaveOneOwner'
  BY <1>1, ProducerIndexes DEF NewPut, PutStep
<1>2. ASSUME NEW r \in Readers, ReadStep(r) PROVE IndexesHaveOneOwner'
  BY <1>2, ReaderIndexes DEF ReadStep
<1>3. ASSUME NEW a \in Ackers, AckStep(a) PROVE IndexesHaveOneOwner'
  BY <1>3, AckerIndexes DEF AckStep
<1>4. ASSUME NEW w \in Workers, RepairStep(w) PROVE IndexesHaveOneOwner'
  BY <1>4, WorkerIndexes DEF RepairStep, WaitForTimeout
<1>5. ASSUME NEW i \in DOMAIN messages, BecomeVisible(i) PROVE IndexesHaveOneOwner'
  BY <1>5, IndexFrame DEF BecomeVisible, AfterTimeout, producerVars, workerVars
<1>6. CASE Fault
  BY <1>6, ProducerIndexes, ReaderIndexes, AckerIndexes, WorkerIndexes DEF Fault
<1>7. CASE UNCHANGED vars
  BY <1>7, IndexFrame DEF vars, tableVars, producerVars, workerVars
<1> QED BY <1>1, <1>2, <1>3, <1>4, <1>5, <1>6, <1>7 DEF Next

LEMMA InitIndexes == Init => IndexesHaveOneOwner
BY DEF Init, TablesInit, ProducerInit, WorkerInit,
       IndexesHaveOneOwner, InFlight, ProducersPutting, WorkersPutting

(* Concurrent requests and repair workers never get the same index, however *)
(* many there are and wherever they fail.                                   *)
THEOREM IndexesUnique == Spec => []IndexesHaveOneOwner
BY InitTypes, StepTypes, InitIndexes, StepIndexes, PTL DEF Spec

(***************************************************************************)
(* The counter and the repair pointer only grow, so what a put or a pass   *)
(* read of them is never ahead of them (ReadsNotAhead).                    *)
(***************************************************************************)

LEMMA ReadsFrame ==
    ASSUME TypeInv, ReadsNotAhead, monoton' \in Nat, monoton <= monoton',
           repairPointer' \in Nat, repairPointer <= repairPointer'
    PROVE  /\ UNCHANGED producerVars =>
                  \A p \in Producers : pPc'[p] = "increment" => pIndex'[p] <= monoton'
           /\ UNCHANGED workerVars =>
                  \A w \in Workers :
                      /\ wPc'[w] = "monCas" => wIndex'[w] <= monoton'
                      /\ wPc'[w] # "idle" => wBucket'[w] <= repairPointer'
BY DEF ReadsNotAhead, TypeInv, TypeOK, TablesTypeOK, ProducerTypeOK, WorkerTypeOK,
       producerVars, workerVars

LEMMA ProducerReads ==
    ASSUME TypeInv, ReadsNotAhead, NEW p \in Producers, UNCHANGED workerVars,
           PutRequest(p) \/ ProducerProgress(p) \/ PutFails(p) \/ PutUnanswered(p)
    PROVE  ReadsNotAhead'
<1> USE DEF TypeInv, TypeOK, TablesTypeOK, ProducerTypeOK
<1>1. UNCHANGED repairPointer /\ monoton' \in Nat /\ monoton <= monoton'
  BY DEF ProducerProgress, PutRequest, ReadMonoton, IncrementMonoton, PutMessage, PutFails,
         PutUnanswered, IncrementApplies, MonotonAfterIncrement, tableVars
<1>2. \A q \in Producers : pPc'[q] = "increment" => pIndex'[q] <= monoton'
  BY <1>1 DEF ReadsNotAhead, ProducerProgress, PutRequest, ReadMonoton, IncrementMonoton,
              PutMessage, PutFails, PutUnanswered, RequestOver
<1> QED BY <1>1, <1>2, ReadsFrame DEF ReadsNotAhead

LEMMA WorkerReads ==
    ASSUME TypeInv, ReadsNotAhead, NEW w \in Workers, UNCHANGED producerVars,
           \/ Poll(w) \/ WorkerProgress(w) \/ EndWait(w) \/ Restart(w)
           \/ PassFails(w) \/ Stop(w)
    PROVE  ReadsNotAhead'
<1> USE DEF TypeInv, TypeOK, TablesTypeOK, WorkerTypeOK
<1> DEFINE Behind(v) == /\ wPc'[v] = "monCas" => wIndex'[v] <= monoton'
                        /\ wPc'[v] # "idle" => wBucket'[v] <= repairPointer'
<1>1. CASE SkipBucket(w) \/ AdvanceRepair(w)
  <2>1. /\ UNCHANGED monoton
        /\ repairPointer' \in Nat /\ repairPointer <= repairPointer'
    BY <1>1 DEF SkipBucket, AdvanceRepair, AdvanceApplies, PointerAfterMove
  <2>2. \A v \in Workers : Behind(v)
    BY <1>1, <2>1 DEF ReadsNotAhead, SkipBucket, AdvanceRepair, EndPass, AdvanceApplies,
                      PointerAfterMove, MoveResult
  <2> QED BY <2>1, <2>2, ReadsFrame DEF ReadsNotAhead
<1>2. CASE \/ Poll(w) \/ CheckTombstone(w) \/ ListBucket(w) \/ EndWait(w) \/ Restart(w)
           \/ PassFails(w) \/ Stop(w) \/ ReadBucket(w) \/ FilterNext(w) \/ WorkerReadMonoton(w)
  <2>1. UNCHANGED <<monoton, repairPointer>>
    BY <1>2 DEF Poll, CheckTombstone, ListBucket, EndWait, Restart, PassFails, Stop, ReadBucket,
                FilterNext, WorkerReadMonoton, tableVars
  <2>2. \A v \in Workers : Behind(v)
    BY <1>2, <2>1 DEF ReadsNotAhead, Poll, CheckTombstone, ListBucket, EndWait, Restart, PassFails,
                Stop, ReadBucket, FilterNext, WorkerReadMonoton, WorkerGoTo, EndPass
  <2> QED BY <2>1, <2>2, ReadsFrame DEF ReadsNotAhead
<1>3. CASE WorkerIncrementMonoton(w) \/ PutCopy(w) \/ AckOriginal(w)
  <2>1. UNCHANGED repairPointer /\ monoton' \in Nat /\ monoton <= monoton'
    BY <1>3 DEF WorkerIncrementMonoton, PutCopy, AckOriginal, IncrementApplies, MonotonAfterIncrement
  <2>2. \A v \in Workers : Behind(v)
    BY <1>3, <2>1 DEF ReadsNotAhead, WorkerIncrementMonoton, PutCopy, AckOriginal, WorkerGoTo
  <2> QED BY <2>1, <2>2, ReadsFrame DEF ReadsNotAhead
<1> QED BY <1>1, <1>2, <1>3 DEF WorkerProgress

LEMMA StepReads == TypeInv /\ ReadsNotAhead /\ [Next]_vars => ReadsNotAhead'
<1> SUFFICES ASSUME TypeInv, ReadsNotAhead, [Next]_vars PROVE ReadsNotAhead'
  OBVIOUS
<1>1. ASSUME UNCHANGED <<monoton, repairPointer, producerVars, workerVars>> PROVE ReadsNotAhead'
  BY <1>1, ReadsFrame DEF TypeInv, TypeOK, TablesTypeOK, ReadsNotAhead
<1>2. ASSUME NEW r \in Readers, UNCHANGED <<producerVars, workerVars>>,
             StartRead(r) \/ ReaderProgress(r) \/ ConsumeUnanswered(r) \/ ReadFails(r)
      PROVE  ReadsNotAhead'
  <2>1. UNCHANGED <<monoton, repairPointer>>
    BY <1>2 DEF ReaderProgress, StartRead, VisitInvis, ScanInvis, MoveInvisBack, MoveInvisOn,
         ReadBucketPointer, ScanBucket, ReadMonotonPast, TombstoneBucket, AdvanceBucket, Consume,
         ConsumeUnanswered, ConsumeRefused, ReadFails, tableVars
  <2> QED BY <1>1, <1>2, <2>1
<1>3. ASSUME NEW a \in Ackers, BeginAck(a) \/ FinishAck(a) \/ AckFails(a),
             UNCHANGED <<producerVars, workerVars>>
      PROVE  ReadsNotAhead'
  BY <1>1, <1>3 DEF BeginAck, FinishAck, AckFails, tableVars
<1>4. CASE Fault
  BY <1>2, <1>3, <1>4, ProducerReads, WorkerReads DEF Fault
<1>5. CASE UNCHANGED vars \/ \E i \in DOMAIN messages : BecomeVisible(i)
  BY <1>1, <1>5 DEF vars, tableVars, BecomeVisible
<1> QED BY <1>2, <1>3, <1>4, <1>5, ProducerReads, WorkerReads
        DEF Next, NewPut, PutStep, ReadStep, AckStep, RepairStep, WaitForTimeout

LEMMA InitReads == Init => ReadsNotAhead
BY DEF Init, ProducerInit, WorkerInit, ReadsNotAhead

(***************************************************************************)
(* Buckets.  BucketsClosedInOrder is inductive together with what requests *)
(* and passes still know of the buckets they read earlier: a reader is     *)
(* never ahead of the stored pointer, it tombstones a bucket only after    *)
(* the counter has left it, and a pass that is past its check is in a      *)
(* tombstoned bucket.  All of this is kept by steps that only let the      *)
(* counter, the pointer and the tombstones grow (ReadersFrame,             *)
(* WorkersFrame).                                                          *)
(***************************************************************************)

ClosedInv ==
    /\ TypeInv
    /\ IndexesHaveOneOwner
    /\ BucketsClosedInOrder
    /\ ReadersBehindPointer
    /\ WorkersInClosedBuckets

LEMMA StartType == ASSUME NEW b \in Nat PROVE StartOf(b) \in Nat
BY BucketSizeAssumption DEF StartOf

LEMMA ReadersFrame ==
    ASSUME ClosedInv, UNCHANGED readerVars,
           monoton' \in Nat, monoton <= monoton',
           bucketPointer' = bucketPointer, tombstones \subseteq tombstones'
    PROVE  ReadersBehindPointer'
<1> USE DEF ClosedInv, TypeInv, TypeOK, TablesTypeOK, ReaderTypeOK, readerVars
<1>1. \A r \in Readers : StartOf(rBucket[r] + 1) \in Nat
  BY StartType
<1> QED BY <1>1 DEF ReadersBehindPointer

LEMMA WorkersFrame ==
    ASSUME ClosedInv, UNCHANGED workerVars, tombstones \subseteq tombstones'
    PROVE  WorkersInClosedBuckets'
BY DEF ClosedInv, WorkersInClosedBuckets, workerVars

LEMMA BucketsFrame ==
    ASSUME ClosedInv, monoton' \in Nat, monoton <= monoton',
           UNCHANGED <<tombstones, bucketPointer, repairPointer>>
    PROVE  BucketsClosedInOrder'
<1> USE DEF ClosedInv, TypeInv, TypeOK, TablesTypeOK
<1>1. \A b \in tombstones : StartOf(b + 1) \in Nat
  BY StartType
<1> QED BY <1>1 DEF BucketsClosedInOrder

LEMMA ProducerClosed ==
    ASSUME ClosedInv, NEW p \in Producers,
           PutRequest(p) \/ ProducerProgress(p) \/ PutFails(p) \/ PutUnanswered(p),
           UNCHANGED <<readerVars, workerVars>>
    PROVE  BucketsClosedInOrder' /\ ReadersBehindPointer' /\ WorkersInClosedBuckets'
<1>1. monoton \in Nat /\ pIndex[p] \in Nat
  BY DEF ClosedInv, TypeInv, TypeOK, TablesTypeOK, ProducerTypeOK
<1>2. monoton' \in Nat /\ monoton <= monoton'
  BY <1>1 DEF ProducerProgress, PutRequest, ReadMonoton, IncrementMonoton, PutMessage, PutFails,
              PutUnanswered, IncrementApplies, MonotonAfterIncrement, tableVars
<1>3. UNCHANGED <<tombstones, bucketPointer, repairPointer>>
  BY DEF ProducerProgress, PutRequest, ReadMonoton, IncrementMonoton, PutMessage, PutFails,
         PutUnanswered, tableVars
<1> QED BY <1>2, <1>3, BucketsFrame, ReadersFrame, WorkersFrame

LEMMA ReaderClosed ==
    ASSUME ClosedInv, NEW r \in Readers,
           StartRead(r) \/ ReaderProgress(r) \/ ConsumeUnanswered(r) \/ ReadFails(r),
           UNCHANGED workerVars
    PROVE  BucketsClosedInOrder' /\ ReadersBehindPointer' /\ WorkersInClosedBuckets'
<1> USE DEF ClosedInv, TypeInv, TypeOK, TablesTypeOK, ReaderTypeOK
<1>1. \A q \in Readers : rBucket[q] \in Nat /\ StartOf(rBucket[q] + 1) \in Nat
  BY StartType
<1>2. CASE \/ StartRead(r) \/ VisitInvis(r) \/ ScanInvis(r) \/ MoveInvisBack(r) \/ MoveInvisOn(r)
           \/ ReadBucketPointer(r) \/ Consume(r) \/ ConsumeUnanswered(r) \/ ConsumeRefused(r)
           \/ ReadFails(r)
  <2>1. UNCHANGED <<monoton, tombstones, bucketPointer, repairPointer>>
    BY <1>2 DEF StartRead, VisitInvis, ScanInvis, MoveInvisBack, MoveInvisOn, ReadBucketPointer,
                Consume, ConsumeUnanswered, ConsumeRefused, ReadFails, tableVars
  <2>2. ReadersBehindPointer'
    BY <1>2, <2>1 DEF StartRead, VisitInvis, ScanInvis, MoveInvisBack, MoveInvisOn,
                ReadBucketPointer, Consume, ConsumeUnanswered, ConsumeRefused, ReadFails,
                GoTo, Remember, TurnToBucket, Answer, ReadersBehindPointer
  <2> QED BY <2>1, <2>2, BucketsFrame, WorkersFrame
<1>3. CASE ScanBucket(r)
  <2>1. UNCHANGED <<monoton, tombstones, bucketPointer, repairPointer>>
    BY <1>3 DEF ScanBucket, tableVars
  <2>2. Cardinality(GetMessages(rBucket[r])) = BucketSize => StartOf(rBucket[r] + 1) <= monoton
    BY <1>1, FullBucket DEF IndexesHaveOneOwner
  <2>3. /\ rPc[r] = "scan" /\ UNCHANGED rBucket
        /\ \/ rPc' = [rPc EXCEPT ![r] = "consume"]
           \/ rPc' = [rPc EXCEPT ![r] = "monoton"]
           \/ /\ rPc' = [rPc EXCEPT ![r] = "tombstone"]
              /\ Cardinality(GetMessages(rBucket[r])) = BucketSize
    BY <1>3 DEF ScanBucket, Remember, GoTo
  <2>4. ReadersBehindPointer'
    BY <2>1, <2>2, <2>3 DEF ReadersBehindPointer
  <2> QED BY <2>1, <2>4, BucketsFrame, WorkersFrame
<1>4. CASE ReadMonotonPast(r)
  <2>1. UNCHANGED <<monoton, tombstones, bucketPointer, repairPointer>>
    BY <1>4 DEF ReadMonotonPast, tableVars
  <2>2. MonotonPastBucket(rBucket[r]) => StartOf(rBucket[r] + 1) <= monoton
    BY <1>1, PastBucket DEF MonotonPastBucket
  <2>3. ReadersBehindPointer'
    BY <1>4, <2>1, <2>2 DEF ReadMonotonPast, GoTo, Answer, ReadersBehindPointer
  <2> QED BY <2>1, <2>3, BucketsFrame, WorkersFrame
<1>5. CASE TombstoneBucket(r)
  <2>1. /\ tombstones' = tombstones \cup {rBucket[r]}
        /\ UNCHANGED <<monoton, bucketPointer, repairPointer>>
        /\ rPc[r] = "tombstone" /\ rPc' = [rPc EXCEPT ![r] = "advance"] /\ UNCHANGED rBucket
    BY <1>5 DEF TombstoneBucket, GoTo
  <2>2. rBucket[r] \in 0..bucketPointer /\ StartOf(rBucket[r] + 1) <= monoton
    BY <1>1, <2>1 DEF ReadersBehindPointer
  <2>3. BucketsClosedInOrder'
    <3>1. 0..(bucketPointer - 1) \subseteq tombstones' /\ 0..(repairPointer - 1) \subseteq tombstones'
      BY <2>1 DEF BucketsClosedInOrder
    <3>2. tombstones' \subseteq 0..bucketPointer
      BY <2>1, <2>2 DEF BucketsClosedInOrder
    <3>3. \A b \in tombstones' : StartOf(b + 1) <= monoton
      BY <2>1, <2>2 DEF BucketsClosedInOrder
    <3> QED BY <2>1, <3>1, <3>2, <3>3 DEF BucketsClosedInOrder
  <2>4. ReadersBehindPointer'
    BY <2>1 DEF ReadersBehindPointer
  <2> QED BY <2>1, <2>3, <2>4, WorkersFrame
<1>6. CASE AdvanceBucket(r)
  <2>1. /\ UNCHANGED <<monoton, tombstones, repairPointer>>
        /\ rPc[r] = "advance" /\ rPc' = [rPc EXCEPT ![r] = "scan"]
        /\ \/ /\ bucketPointer = rBucket[r]
              /\ bucketPointer' = bucketPointer + 1
              /\ rBucket' = [rBucket EXCEPT ![r] = @ + 1]
           \/ UNCHANGED <<bucketPointer, rBucket>>
    BY <1>6 DEF AdvanceBucket, PointerAfterMove, MoveResult
  <2>2. BucketsClosedInOrder'
    BY <2>1 DEF BucketsClosedInOrder, ReadersBehindPointer
  <2>3. ReadersBehindPointer'
    BY <1>1, <2>1 DEF ReadersBehindPointer
  <2> QED BY <2>1, <2>2, <2>3, WorkersFrame
<1> QED BY <1>2, <1>3, <1>4, <1>5, <1>6 DEF ReaderProgress

LEMMA WorkerClosed ==
    ASSUME ClosedInv, NEW w \in Workers,
           \/ Poll(w) \/ WorkerProgress(w) \/ EndWait(w) \/ Restart(w)
           \/ PassFails(w) \/ Stop(w),
           UNCHANGED readerVars
    PROVE  BucketsClosedInOrder' /\ ReadersBehindPointer' /\ WorkersInClosedBuckets'
<1> USE DEF ClosedInv, TypeInv, TypeOK, TablesTypeOK, WorkerTypeOK
<1>1. CASE SkipBucket(w) \/ AdvanceRepair(w)
  <2>1. /\ UNCHANGED <<monoton, tombstones, bucketPointer>>
        /\ wBucket[w] \in tombstones
        /\ \/ repairPointer = wBucket[w] /\ repairPointer' = repairPointer + 1
           \/ UNCHANGED repairPointer
    BY <1>1 DEF SkipBucket, AdvanceRepair, AdvanceApplies, PointerAfterMove, WorkersInClosedBuckets
  <2>2. BucketsClosedInOrder'
    BY <2>1 DEF BucketsClosedInOrder
  <2>3. WorkersInClosedBuckets'
    BY <1>1, <2>1 DEF SkipBucket, AdvanceRepair, EndPass, WorkersInClosedBuckets
  <2> QED BY <2>1, <2>2, <2>3, ReadersFrame
<1>2. CASE \/ Poll(w) \/ CheckTombstone(w) \/ ListBucket(w) \/ EndWait(w) \/ Restart(w)
           \/ PassFails(w) \/ Stop(w) \/ ReadBucket(w) \/ FilterNext(w) \/ WorkerReadMonoton(w)
  <2>1. UNCHANGED tableVars
    BY <1>2 DEF Poll, CheckTombstone, ListBucket, EndWait, Restart, PassFails, Stop, ReadBucket,
                FilterNext, WorkerReadMonoton
  <2>2. WorkersInClosedBuckets'
    BY <1>2, <2>1 DEF Poll, CheckTombstone, ListBucket, EndWait, Restart, PassFails, Stop, ReadBucket,
                FilterNext, WorkerReadMonoton, WorkerGoTo, EndPass, WorkersInClosedBuckets, tableVars
  <2> QED BY <2>1, <2>2, ReadersFrame, BucketsFrame DEF tableVars
<1>3. CASE WorkerIncrementMonoton(w) \/ PutCopy(w) \/ AckOriginal(w)
  <2>1. monoton' \in Nat /\ monoton <= monoton'
    BY <1>3 DEF WorkerIncrementMonoton, PutCopy, AckOriginal, IncrementApplies, MonotonAfterIncrement
  <2>2. UNCHANGED <<tombstones, bucketPointer, repairPointer>>
    BY <1>3 DEF WorkerIncrementMonoton, PutCopy, AckOriginal
  <2>3. WorkersInClosedBuckets'
    BY <1>3, <2>2 DEF WorkerIncrementMonoton, PutCopy, AckOriginal, WorkerGoTo, WorkersInClosedBuckets
  <2> QED BY <2>1, <2>2, <2>3, ReadersFrame, BucketsFrame
<1> QED BY <1>1, <1>2, <1>3 DEF WorkerProgress

LEMMA SameClosed ==
    ASSUME ClosedInv, UNCHANGED <<monoton, tombstones, bucketPointer, repairPointer, readerVars, workerVars>>
    PROVE  BucketsClosedInOrder' /\ ReadersBehindPointer' /\ WorkersInClosedBuckets'
BY ReadersFrame, WorkersFrame, BucketsFrame DEF ClosedInv, TypeInv, TypeOK, TablesTypeOK

LEMMA StepClosed == ClosedInv /\ [Next]_vars => ClosedInv'
<1> SUFFICES ASSUME ClosedInv, [Next]_vars
             PROVE  BucketsClosedInOrder' /\ ReadersBehindPointer' /\ WorkersInClosedBuckets'
  BY StepTypes, StepIndexes DEF ClosedInv
<1> DEFINE Goal == BucketsClosedInOrder' /\ ReadersBehindPointer' /\ WorkersInClosedBuckets'
<1>1. ASSUME NEW p \in Producers, NewPut(p) \/ PutStep(p) PROVE Goal
  BY <1>1, ProducerClosed DEF NewPut, PutStep
<1>2. ASSUME NEW r \in Readers, ReadStep(r) PROVE Goal
  BY <1>2, ReaderClosed DEF ReadStep
<1>3. ASSUME NEW a \in Ackers, BeginAck(a) \/ FinishAck(a) \/ AckFails(a),
             UNCHANGED <<readerVars, workerVars>>
      PROVE  Goal
  BY <1>3, SameClosed DEF BeginAck, FinishAck, AckFails, tableVars
<1>4. ASSUME NEW w \in Workers, RepairStep(w) PROVE Goal
  BY <1>4, WorkerClosed DEF RepairStep, WaitForTimeout
<1>5. ASSUME NEW i \in DOMAIN messages, BecomeVisible(i) PROVE Goal
  BY <1>5, SameClosed DEF BecomeVisible
<1>6. CASE Fault
  BY <1>3, <1>6, ProducerClosed, ReaderClosed, WorkerClosed DEF Fault
<1>7. CASE UNCHANGED vars
  BY <1>7, SameClosed DEF vars, tableVars
<1> QED BY <1>1, <1>2, <1>3, <1>4, <1>5, <1>6, <1>7 DEF Next, AckStep

LEMMA InitClosed == Init => ClosedInv
<1>1. Init => BucketsClosedInOrder /\ ReadersBehindPointer /\ WorkersInClosedBuckets
  BY DEF Init, TablesInit, ReaderInit, WorkerInit,
         BucketsClosedInOrder, ReadersBehindPointer, WorkersInClosedBuckets
<1> QED BY <1>1, InitTypes, InitIndexes DEF ClosedInv

(* Readers and repair workers pass only buckets that are closed, in order, *)
(* and that the counter has left.                                          *)
THEOREM ClosedInOrder == Spec => []BucketsClosedInOrder
<1>1. ClosedInv => BucketsClosedInOrder
  BY DEF ClosedInv
<1> QED BY <1>1, InitClosed, StepClosed, PTL DEF Spec
=============================================================================
