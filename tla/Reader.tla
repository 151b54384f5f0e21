------------------------------- MODULE Reader -------------------------------
(***************************************************************************)
(* ReaderImpl: get requests (nextMessage) and ack requests (ackMessage).   *)
(*                                                                         *)
(* A get request first tries to revive a message behind the reader: it     *)
(* looks at the row under the invisibility pointer, and from there at the  *)
(* buckets after it.  Otherwise it serves the first visible message of the *)
(* reader's bucket, closing buckets that have nothing left to serve.       *)
(* Each statement is a step of its own, so what a request has read may be  *)
(* out of date when it is used.  pc, by the statement that comes next:     *)
(*    visit         getMessage under the invisibility pointer              *)
(*    scanInvis     getMessages of the bucket of that pointer              *)
(*    moveBack      move the pointer, if that moves it backwards           *)
(*    moveOn        move the pointer, if it is still where it was          *)
(*    consumeInvis  consume the row that was found under the pointer       *)
(*    bucket        read the reader's bucket pointer                       *)
(*    scan          getMessages of that bucket                             *)
(*    monoton       read the counter, to see whether the bucket can close  *)
(*    tombstone     tombstone the bucket                                   *)
(*    advance       move the bucket pointer to the next bucket             *)
(*    consume       consume the message that was found                     *)
(***************************************************************************)
EXTENDS CassandraTables

CONSTANTS
    Readers,        \* get requests that can be in progress at the same time
    Ackers          \* ack requests that can be in progress at the same time

VARIABLES
    rPc,            \* the statement a get request runs next
    rPtr,           \* the invisibility pointer it works from
    rBucket,        \* the bucket it serves from
    rMessage,       \* what it remembers of the row it found
    receipts,       \* the pop receipts that clients hold
    aPc,            \* ack requests: "idle", or "ack" between read and update
    aReceipt        \* the version they matched

readerVars == <<rPc, rPtr, rBucket, rMessage, receipts>>
ackerVars == <<aPc, aReceipt>>

ReaderPc == {"idle", "visit", "scanInvis", "moveBack", "moveOn", "consumeInvis",
             "bucket", "scan", "monoton", "tombstone", "advance", "consume"}

Snapshot == [index: Nat, version: Nat, deliveryCount: Nat]
PopReceipt == [index: Nat, version: Nat]

ReaderTypeOK ==
    /\ rPc \in [Readers -> ReaderPc]
    /\ rPtr \in [Readers -> Int]
    /\ rBucket \in [Readers -> Nat]
    /\ rMessage \in [Readers -> Snapshot]
    /\ receipts \subseteq PopReceipt
    /\ aPc \in [Ackers -> {"idle", "ack"}]
    /\ aReceipt \in [Ackers -> PopReceipt]

NoSnapshot == [index |-> 0, version |-> 0, deliveryCount |-> 0]
NoReceipt == [index |-> 0, version |-> 0]

ReaderInit ==
    /\ rPc = [r \in Readers |-> "idle"]
    /\ rPtr = [r \in Readers |-> -1]
    /\ rBucket = [r \in Readers |-> 0]
    /\ rMessage = [r \in Readers |-> NoSnapshot]
    /\ receipts = {}
    /\ aPc = [a \in Ackers |-> "idle"]
    /\ aReceipt = [a \in Ackers |-> NoReceipt]

SnapshotOf(m) == [index |-> m.index, version |-> m.version, deliveryCount |-> m.deliveryCount]
ReceiptOf(s) == [index |-> s.index, version |-> s.version + 1]

-----------------------------------------------------------------------------
(* What a request does with its own state: go on with the next statement,  *)
(* remember a row and use it, turn to the reader's bucket, or answer.      *)

GoTo(r, pc) ==
    /\ rPc' = [rPc EXCEPT ![r] = pc]
    /\ UNCHANGED <<rPtr, rBucket, rMessage>>

Remember(r, m, pc) ==
    /\ rPc' = [rPc EXCEPT ![r] = pc]
    /\ rMessage' = [rMessage EXCEPT ![r] = SnapshotOf(m)]
    /\ UNCHANGED <<rPtr, rBucket>>

Answer(r) ==
    /\ rPc' = [rPc EXCEPT ![r] = "idle"]
    /\ rPtr' = [rPtr EXCEPT ![r] = -1]
    /\ rBucket' = [rBucket EXCEPT ![r] = 0]
    /\ rMessage' = [rMessage EXCEPT ![r] = NoSnapshot]

TurnToBucket(r) ==
    /\ rPc' = [rPc EXCEPT ![r] = "bucket"]
    /\ rPtr' = [rPtr EXCEPT ![r] = -1]
    /\ rMessage' = [rMessage EXCEPT ![r] = NoSnapshot]
    /\ UNCHANGED rBucket

-----------------------------------------------------------------------------
(* nextMessage, first part: the invisibility pointer.                      *)

StartRead(r) ==
    /\ rPc[r] = "idle"
    /\ rPc' = [rPc EXCEPT ![r] = "visit"]
    /\ rPtr' = [rPtr EXCEPT ![r] = invisPointer]
    /\ UNCHANGED <<rBucket, rMessage, receipts, tableVars>>

Revivable(m) == m.deliveryCount > 0 /\ m.visible /\ ~m.isAcked
PassedOver(m) == m.deliveryCount > 0 /\ m.isAcked

VisitInvis(r) ==
    LET found == rPtr[r] \in DOMAIN messages
        row == messages[rPtr[r]]
    IN  /\ rPc[r] = "visit"
        /\ \/ /\ found => PassedOver(row)
              /\ GoTo(r, "scanInvis")
           \/ /\ found
              /\ Revivable(row)
              /\ Remember(r, row, "consumeInvis")
           \/ /\ found
              /\ ~PassedOver(row)
              /\ ~Revivable(row)
              /\ TurnToBucket(r)
        /\ UNCHANGED <<receipts, tableVars>>

OutForDelivery(bucket) ==
    {m \in GetMessages(bucket) : ~m.isAcked /\ ~m.visible /\ m.deliveryCount > 0}

(* Mutant: the walk goes on over buckets that have no rows. *)
ScanEmptyInvis(r) ==
    LET bucket == InvisBucketOf(rPtr[r])
    IN  /\ rPc[r] = "scanInvis"
        /\ \/ /\ OutForDelivery(bucket) # {}
              /\ Remember(r, First(OutForDelivery(bucket)), "moveBack")
           \/ /\ OutForDelivery(bucket) = {}
              /\ rPc' = [rPc EXCEPT ![r] = "visit"]
              /\ rPtr' = [rPtr EXCEPT ![r] = StartOf(bucket + 1)]
              /\ UNCHANGED <<rBucket, rMessage>>
        /\ UNCHANGED <<receipts, tableVars>>

ScanInvis(r) ==
    LET bucket == InvisBucketOf(rPtr[r])
    IN  /\ rPc[r] = "scanInvis"
        /\ \/ /\ GetMessages(bucket) = {}
              /\ TurnToBucket(r)
           \/ /\ OutForDelivery(bucket) # {}
              /\ Remember(r, First(OutForDelivery(bucket)), "moveBack")
           \/ /\ GetMessages(bucket) # {}
              /\ OutForDelivery(bucket) = {}
              /\ rPc' = [rPc EXCEPT ![r] = "visit"]
              /\ rPtr' = [rPtr EXCEPT ![r] = StartOf(bucket + 1)]
              /\ UNCHANGED <<rBucket, rMessage>>
        /\ UNCHANGED <<receipts, tableVars>>

MoveBackApplies(destination) == invisPointer > destination

MoveInvisBack(r) ==
    LET destination == rMessage[r].index
        applied == MoveBackApplies(destination)
    IN  /\ rPc[r] = "moveBack"
        /\ invisPointer' = PointerAfterMove(invisPointer, destination, applied)
        /\ IF MoveResult(rPtr[r], destination, applied) = rPtr[r]
           THEN GoTo(r, "moveOn")
           ELSE TurnToBucket(r)
        /\ UNCHANGED <<receipts, monoton, messages, tombstones, bucketPointer, repairPointer>>

MoveOnApplies(original) == invisPointer = original

MoveInvisOn(r) ==
    /\ rPc[r] = "moveOn"
    /\ invisPointer' = PointerAfterMove(invisPointer, rMessage[r].index, MoveOnApplies(rPtr[r]))
    /\ TurnToBucket(r)
    /\ UNCHANGED <<receipts, monoton, messages, tombstones, bucketPointer, repairPointer>>

-----------------------------------------------------------------------------
(* nextMessage, second part: the reader's bucket (getAndMark).             *)

ReadBucketPointer(r) ==
    /\ rPc[r] = "bucket"
    /\ rPc' = [rPc EXCEPT ![r] = "scan"]
    /\ rBucket' = [rBucket EXCEPT ![r] = bucketPointer]
    /\ UNCHANGED <<rPtr, rMessage, receipts, tableVars>>

(* Mutant: a message is served although it was acked. *)
VisibleInBucket(bucket) == {m \in GetMessages(bucket) : m.visible}

Servable(bucket) == {m \in GetMessages(bucket) : ~m.isAcked /\ m.visible}

ScanBucket(r) ==
    LET bucket == rBucket[r]
        full == Cardinality(GetMessages(bucket)) = BucketSize
    IN  /\ rPc[r] = "scan"
        /\ IF Servable(bucket) # {}
           THEN Remember(r, First(Servable(bucket)), "consume")
           ELSE GoTo(r, IF full THEN "tombstone" ELSE "monoton")
        /\ UNCHANGED <<receipts, tableVars>>

(* Mutant: off by one. *)
MonotonInBucket(bucket) == BucketOf(monoton) >= bucket

MonotonPastBucket(bucket) == BucketOf(monoton) > bucket

ReadMonotonPast(r) ==
    /\ rPc[r] = "monoton"
    /\ IF MonotonPastBucket(rBucket[r]) THEN GoTo(r, "tombstone") ELSE Answer(r)
    /\ UNCHANGED <<receipts, tableVars>>

TombstoneBucket(r) ==
    /\ rPc[r] = "tombstone"
    /\ tombstones' = tombstones \cup {rBucket[r]}
    /\ GoTo(r, "advance")
    /\ UNCHANGED <<receipts, monoton, messages, bucketPointer, invisPointer, repairPointer>>

AdvanceBucket(r) ==
    LET applied == bucketPointer = rBucket[r]
    IN  /\ rPc[r] = "advance"
        /\ bucketPointer' = PointerAfterMove(bucketPointer, rBucket[r] + 1, applied)
        /\ rBucket' = [rBucket EXCEPT ![r] = MoveResult(@, @ + 1, applied)]
        /\ rPc' = [rPc EXCEPT ![r] = "scan"]
        /\ UNCHANGED <<rPtr, rMessage, receipts, monoton, messages, tombstones,
                       invisPointer, repairPointer>>

-----------------------------------------------------------------------------
(* Consuming the row that was found, in either part.                       *)

(* The row is the request's: the client gets the message and its receipt.  *)
Consume(r) ==
    /\ rPc[r] \in {"consume", "consumeInvis"}
    /\ ConsumeApplies(rMessage[r])
    /\ messages' = AfterConsume(rMessage[r])
    /\ receipts' = receipts \cup {ReceiptOf(rMessage[r])}
    /\ Answer(r)
    /\ UNCHANGED <<monoton, tombstones, bucketPointer, invisPointer, repairPointer>>

(* The update went through and the answer did not reach the client. *)
ConsumeUnanswered(r) ==
    /\ rPc[r] \in {"consume", "consumeInvis"}
    /\ ConsumeApplies(rMessage[r])
    /\ messages' = AfterConsume(rMessage[r])
    /\ Answer(r)
    /\ UNCHANGED <<receipts, monoton, tombstones, bucketPointer, invisPointer, repairPointer>>

(* Somebody else changed the row since it was read. *)
ConsumeRefused(r) ==
    /\ rPc[r] \in {"consume", "consumeInvis"}
    /\ ~ConsumeApplies(rMessage[r])
    /\ \/ /\ rPc[r] = "consume"
          /\ rPc' = [rPc EXCEPT ![r] = "scan"]
          /\ rMessage' = [rMessage EXCEPT ![r] = NoSnapshot]
          /\ UNCHANGED <<rPtr, rBucket>>
       \/ /\ rPc[r] = "consumeInvis"
          /\ TurnToBucket(r)
    /\ UNCHANGED <<receipts, tableVars>>

(* The request dies between two statements. *)
ReadFails(r) ==
    /\ rPc[r] # "idle"
    /\ Answer(r)
    /\ UNCHANGED <<receipts, tableVars>>

ReaderProgress(r) ==
    \/ VisitInvis(r) \/ ScanInvis(r) \/ MoveInvisBack(r) \/ MoveInvisOn(r)
    \/ ReadBucketPointer(r) \/ ScanBucket(r) \/ ReadMonotonPast(r)
    \/ TombstoneBucket(r) \/ AdvanceBucket(r)
    \/ Consume(r) \/ ConsumeRefused(r)

-----------------------------------------------------------------------------
(* ackMessage: read the row, compare, update if the version still holds.   *)
(* A receipt whose version does not match is refused and changes nothing.  *)

BeginAck(a) ==
    /\ aPc[a] = "idle"
    /\ \E receipt \in receipts :
        /\ messages[receipt.index].version = receipt.version
        /\ aReceipt' = [aReceipt EXCEPT ![a] = receipt]
    /\ aPc' = [aPc EXCEPT ![a] = "ack"]
    /\ UNCHANGED tableVars

FinishAck(a) ==
    /\ aPc[a] = "ack"
    /\ messages' = IF AckApplies(aReceipt[a]) THEN AfterAck(aReceipt[a]) ELSE messages
    /\ aPc' = [aPc EXCEPT ![a] = "idle"]
    /\ aReceipt' = [aReceipt EXCEPT ![a] = NoReceipt]
    /\ UNCHANGED <<monoton, tombstones, bucketPointer, invisPointer, repairPointer>>

AckFails(a) ==
    /\ aPc[a] = "ack"
    /\ aPc' = [aPc EXCEPT ![a] = "idle"]
    /\ aReceipt' = [aReceipt EXCEPT ![a] = NoReceipt]
    /\ UNCHANGED tableVars
=============================================================================
