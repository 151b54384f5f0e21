-------------------------- MODULE CassandraTables --------------------------
(***************************************************************************)
(* The Cassandra tables of one queue and the statements the repositories   *)
(* run on them.  Every statement is one session.execute(): a read, or a    *)
(* lightweight transaction (ifNotExists / onlyIf), which Cassandra makes   *)
(* atomic.  A conditional statement is a pair of operators: when it        *)
(* applies, and the value of the table after it.                           *)
(*                                                                         *)
(* Times are abstracted to what the code asks of them: whether             *)
(* next_visible_on is before the clock (Message.isVisible).  A row is      *)
(* written with a time that is not before "now", hence invisible, and the  *)
(* clock makes it visible at an arbitrary later moment.  The tag of a row  *)
(* never changes and is part of every receipt for it, so comparing tags    *)
(* adds nothing to comparing the index: tags are left out.                 *)
(***************************************************************************)
EXTENDS Integers, FiniteSets

CONSTANTS
    BucketSize,     \* QueueDefinition.bucketSize, fixed when the queue is created
    Payloads,       \* the blobs that clients put
    MaxIndex        \* bound: indexes are handed out below this one

ASSUME BucketSizeAssumption == BucketSize \in Nat \ {0}
ASSUME MaxIndexAssumption == MaxIndex \in Nat

VARIABLES
    monoton,        \* monoton.value: the next index to be handed out
    messages,       \* table message, the rows of messages: index -> Message
    tombstones,     \* table message, the rows of tombstones: a set of buckets
    bucketPointer,  \* table pointer, BUCKET_POINTER: the reader's bucket
    invisPointer,   \* table pointer, INVISIBILITY_POINTER: an index
    repairPointer   \* table pointer, REPAIR_BUCKET: the repair worker's bucket

tableVars == <<monoton, messages, tombstones, bucketPointer, invisPointer, repairPointer>>

Message == [index: Nat, blob: Payloads, version: Nat, deliveryCount: Nat,
            isAcked: BOOLEAN, visible: BOOLEAN]

IsMessageTable(table) ==
    /\ DOMAIN table \subseteq Nat
    /\ \A i \in DOMAIN table : table[i] \in Message /\ table[i].index = i

TablesTypeOK ==
    /\ monoton \in Nat
    /\ IsMessageTable(messages)
    /\ tombstones \subseteq Nat
    /\ bucketPointer \in Nat
    /\ invisPointer \in Int
    /\ repairPointer \in Nat

-----------------------------------------------------------------------------
(* A queue that createQueue has just set up. *)

TablesInit ==
    /\ monoton = 0
    /\ messages = [i \in {} |-> {}]
    /\ tombstones = {}
    /\ bucketPointer = 0
    /\ invisPointer = -1
    /\ repairPointer = 0

-----------------------------------------------------------------------------
(* Indexes, buckets and the rows of a bucket. *)

BucketOf(index) == index \div BucketSize

StartOf(bucket) == bucket * BucketSize

(* An invisibility pointer that is not yet on a message counts as bucket 0. *)
InvisBucketOf(index) == IF index <= 0 THEN 0 ELSE BucketOf(index)

GetMessages(bucket) == {messages[i] : i \in {j \in DOMAIN messages : BucketOf(j) = bucket}}

(* Rows of a partition come in clustering order, so findFirst and forEach  *)
(* take the lowest index.                                                  *)
First(rows) == CHOOSE m \in rows : \A n \in rows : m.index <= n.index

-----------------------------------------------------------------------------
(* MonotonicRepoImpl.incrementMonotonicValue: compare and set. *)

(* Mutant: the update does not require that the counter is as it was read. *)
IncrementUnconditional(current) == monoton >= current

IncrementApplies(current) == monoton = current

MonotonAfterIncrement(current) == IF IncrementApplies(current) THEN current + 1 ELSE monoton

-----------------------------------------------------------------------------
(* MessageRepositoryImpl: insert, consume, ack. *)

PutApplies(index) == index \notin DOMAIN messages

AfterPut(index, blob) ==
    LET row == [index |-> index, blob |-> blob, version |-> 1, deliveryCount |-> 0,
                isAcked |-> FALSE, visible |-> FALSE]
    IN  [i \in DOMAIN messages \cup {index} |-> IF i = index THEN row ELSE messages[i]]

(* Mutants: consumeMessage without its version condition, and without any. *)
ConsumeIgnoresVersion(m) == ~messages[m.index].isAcked
ConsumeUnconditional(m) == m.index \in DOMAIN messages

ConsumeApplies(m) == messages[m.index].version = m.version /\ ~messages[m.index].isAcked

AfterConsume(m) ==
    [messages EXCEPT ![m.index] = [@ EXCEPT !.version = m.version + 1,
                                            !.deliveryCount = m.deliveryCount + 1,
                                            !.visible = FALSE]]

(* Mutant: ackMessage relies on the version the caller compared before. *)
AckUnconditional(m) == m.index \in DOMAIN messages

AckApplies(m) == messages[m.index].version = m.version

AfterAck(m) ==
    [messages EXCEPT ![m.index] = [@ EXCEPT !.version = m.version + 1, !.isAcked = TRUE]]

(* The clock passes the next_visible_on of a row. *)
AfterTimeout(index) == [messages EXCEPT ![index].visible = TRUE]

-----------------------------------------------------------------------------
(* PointerRepositoryImpl.movePointer: where the pointer is after the       *)
(* statement, and what the caller is told.  A caller whose condition       *)
(* failed gets back the pointer it passed in.                              *)

PointerAfterMove(pointer, destination, applied) == IF applied THEN destination ELSE pointer

(* Mutant: the caller is told its own pointer, moved or not. *)
MoveResultStale(original, destination, applied) == original

MoveResult(original, destination, applied) == IF applied THEN destination ELSE original
=============================================================================
