----------------------------- MODULE AngelQueue -----------------------------
(***************************************************************************)
(* One queue of angelhair: clients that put, get and ack (through any node *)
(* of the service), the repair workers of the nodes, the clock, and the    *)
(* Cassandra tables they share.  They only meet in the tables; every step  *)
(* is one statement, and the steps interleave freely.                      *)
(***************************************************************************)
EXTENDS Producer, Reader, RepairWorker

CONSTANTS
    MaxDeliveries,          \* bound: a message delivered so often expires no more
    MaxFaults               \* bound: requests and passes that die, answers lost, workers stopped

ASSUME BoundsAssumption == MaxDeliveries \in Nat /\ MaxFaults \in Nat

VARIABLES
    faults          \* faults that have happened

vars == <<tableVars, producerVars, readerVars, ackerVars, workerVars, faults>>

TypeOK ==
    /\ TablesTypeOK
    /\ ProducerTypeOK
    /\ ReaderTypeOK
    /\ WorkerTypeOK
    /\ faults \in 0..MaxFaults

Init ==
    /\ TablesInit
    /\ ProducerInit
    /\ ReaderInit
    /\ WorkerInit
    /\ faults = 0

-----------------------------------------------------------------------------
(* Time.                                                                   *)

(* A moment passes the next_visible_on of a row. *)
BecomeVisible(i) ==
    /\ i \in DOMAIN messages
    /\ ~messages[i].visible
    /\ messages[i].deliveryCount < MaxDeliveries
    /\ messages' = AfterTimeout(i)
    /\ UNCHANGED <<monoton, tombstones, bucketPointer, invisPointer, repairPointer,
                   producerVars, readerVars, ackerVars, workerVars, faults>>

(* Indexes that a put holds and has not written yet. *)
ProducersPutting == {p \in Producers : pPc[p] = "put"}
WorkersPutting == {w \in Workers : wPc[w] = "put"}
InFlight == {pIndex[p] : p \in ProducersPutting} \cup {wIndex[w] : w \in WorkersPutting}

NoPutInFlight(bucket) == \A i \in InFlight : BucketOf(i) # bucket

Undelivered(i) == ~messages[i].isAcked /\ messages[i].deliveryCount = 0

(* Mutant: the worker takes the bucket as soon as it is closed. *)
SettledAtOnce(bucket) == bucket \in tombstones

(* The tombstone of the bucket is old enough (RepairTiming): the indexes   *)
(* of the bucket were taken before it, so what is shorter than the timeout *)
(* is over.                                                                *)
Settled(bucket) ==
    /\ TimeoutOutlastsWrites => NoPutInFlight(bucket)
    /\ TimeoutOutlastsDelays =>
           \A i \in DOMAIN messages :
               BucketOf(i) = bucket /\ Undelivered(i) => messages[i].visible

WaitForTimeout(w) == Settled(wBucket[w]) /\ EndWait(w)

-----------------------------------------------------------------------------
(* Requests and passes that die, in any state they can be in, and answers  *)
(* that do not arrive.                                                     *)
Fault ==
    /\ faults < MaxFaults
    /\ faults' = faults + 1
    /\ \/ \E p \in Producers : /\ PutFails(p) \/ PutUnanswered(p)
                               /\ UNCHANGED <<readerVars, ackerVars, workerVars>>
       \/ \E r \in Readers : /\ ReadFails(r) \/ ConsumeUnanswered(r)
                             /\ UNCHANGED <<producerVars, ackerVars, workerVars>>
       \/ \E a \in Ackers : AckFails(a) /\ UNCHANGED <<producerVars, readerVars, workerVars>>
       \/ \E w \in Workers : /\ PassFails(w) \/ Stop(w)
                             /\ UNCHANGED <<producerVars, readerVars, ackerVars>>

NewPut(p) == PutRequest(p) /\ UNCHANGED <<readerVars, ackerVars, workerVars, faults>>
PutStep(p) == ProducerProgress(p) /\ UNCHANGED <<readerVars, ackerVars, workerVars, faults>>

ReadStep(r) ==
    /\ StartRead(r) \/ ReaderProgress(r)
    /\ UNCHANGED <<producerVars, ackerVars, workerVars, faults>>

AckStep(a) ==
    /\ BeginAck(a) \/ FinishAck(a)
    /\ UNCHANGED <<producerVars, readerVars, workerVars, faults>>

RepairStep(w) ==
    /\ Poll(w) \/ WorkerProgress(w) \/ WaitForTimeout(w) \/ Restart(w)
    /\ UNCHANGED <<producerVars, readerVars, ackerVars, faults>>

Next ==
    \/ \E p \in Producers : NewPut(p) \/ PutStep(p)
    \/ \E r \in Readers : ReadStep(r)
    \/ \E a \in Ackers : AckStep(a)
    \/ \E w \in Workers : RepairStep(w)
    \/ \E i \in DOMAIN messages : BecomeVisible(i)
    \/ Fault

Spec == Init /\ [][Next]_vars

(* Requests that began go on, clients keep asking for messages, the        *)
(* scheduler keeps running the workers, and time passes.  No client has to *)
(* begin a put or an ack, and only MaxFaults faults happen.                *)
Fairness ==
    /\ \A p \in Producers : WF_vars(PutStep(p))
    /\ \A r \in Readers : WF_vars(ReadStep(r))
    /\ \A w \in Workers : WF_vars(RepairStep(w))
    /\ \A a \in Ackers : WF_vars(AckStep(a) /\ aPc[a] = "ack")
    /\ \A i \in 0..(MaxIndex - 1) : WF_vars(BecomeVisible(i))

FairSpec == Spec /\ Fairness

-----------------------------------------------------------------------------
(* Indexes.  An index has one owner: either one put in flight or one row.  *)
(* MonotonicRepoImpl: concurrent nextMonotonic calls never return the same *)
(* value, so a put never finds its index taken.                            *)
IndexesHaveOneOwner ==
    /\ InFlight \cap DOMAIN messages = {}
    /\ \A i \in InFlight \cup DOMAIN messages : i < monoton
    /\ \A p, q \in ProducersPutting : pIndex[p] = pIndex[q] => p = q
    /\ \A v, w \in WorkersPutting : wIndex[v] = wIndex[w] => v = w
    /\ \A p \in ProducersPutting, w \in WorkersPutting : pIndex[p] # wIndex[w]

(* Buckets are closed in order, and only when the counter is past them: no *)
(* put that begins later can land in a bucket that readers have left.      *)
(* Both pointers only ever pass closed buckets (ReaderImpl.getAndMark,     *)
(* RepairWorkerImpl.findFirstBucketToMonitor), although requests and       *)
(* passes act on pointers they read long before.                           *)
BucketsClosedInOrder ==
    /\ 0..(bucketPointer - 1) \subseteq tombstones
    /\ tombstones \subseteq 0..bucketPointer
    /\ 0..(repairPointer - 1) \subseteq tombstones
    /\ \A b \in tombstones : StartOf(b + 1) <= monoton

(* consumeMessage and ackMessage compare the version they read, hence no   *)
(* update is ever made on top of one that its maker has not seen: the      *)
(* version of a row counts all its updates.                                *)
VersionCountsUpdates ==
    \A i \in DOMAIN messages :
        messages[i].version = 1 + messages[i].deliveryCount + (IF messages[i].isAcked THEN 1 ELSE 0)

(* Two parts of IInv say where the code leaves the invisibility pointer,   *)
(* which is not where ReaderImpl and the README want it: see               *)
(* InvisPointerMovesOn below.  It is the initial -1 or at a message that   *)
(* was delivered (it is not parked at one that was not) ...                *)
InvisPointerAtDelivered ==
    invisPointer # -1 => invisPointer \in DOMAIN messages /\ messages[invisPointer].deliveryCount > 0

(* ... and never out of bucket 0: for a message found further on,          *)
(* ReaderImpl passes the start of a bucket as the original pointer, which  *)
(* the stored pointer neither equals nor exceeds.                          *)
InvisPointerInFirstBucket == invisPointer < BucketSize

(* RepairWorkerImpl: when the repair timeout is longer than delayed puts   *)
(* and initial invisibilities, no message that was never delivered is      *)
(* behind the repair pointer, where nobody looks any more.                 *)
NoUndeliveredLeftBehind ==
    TimeoutOutlastsWrites /\ TimeoutOutlastsDelays =>
        \A i \in DOMAIN messages : Undelivered(i) => BucketOf(i) >= repairPointer

(* Somebody got the message, or can still get it. *)
Alive(i) == messages[i].deliveryCount > 0 \/ ~messages[i].isAcked

(* At least once (README): a payload that was put is never lost: some row  *)
(* carries it that was delivered, or that can still be.  The repair worker *)
(* acks a message nobody got only when its copy is in.                     *)
AcceptedIsKept ==
    \A i \in DOMAIN messages :
        \E j \in DOMAIN messages : messages[j].blob = messages[i].blob /\ Alive(j)

-----------------------------------------------------------------------------
(* What requests and passes can rely on although they act on what they     *)
(* read earlier: the parts that make the invariants above inductive.       *)

ReadersBehindPointer ==
    \A r \in Readers :
        /\ rPc[r] \in {"scan", "monoton", "tombstone", "advance", "consume"} =>
               rBucket[r] <= bucketPointer
        /\ rPc[r] = "tombstone" => StartOf(rBucket[r] + 1) <= monoton
        /\ rPc[r] = "advance" => rBucket[r] \in tombstones

(* The counter and the repair pointer only grow: what a put or a pass read *)
(* of them is never ahead of them.                                         *)
ReadsNotAhead ==
    /\ \A p \in Producers : pPc[p] = "increment" => pIndex[p] <= monoton
    /\ \A w \in Workers :
          /\ wPc[w] = "monCas" => wIndex[w] <= monoton
          /\ wPc[w] # "idle" => wBucket[w] <= repairPointer

WorkersInClosedBuckets ==
    \A w \in Workers : wPc[w] \notin {"idle", "check"} => wBucket[w] \in tombstones

AfterWait == {"read", "filter", "monRead", "monCas", "put", "ack", "advance"}

WorkersHaveWork ==
    \A w \in Workers : wPc[w] \in {"monRead", "monCas", "put", "ack"} => wTodo[w] # {}

InvisMovesInBucket ==
    \A r \in Readers :
        rPc[r] \in {"moveBack", "moveOn"} =>
            LET destination == rMessage[r].index
            IN  /\ destination \in DOMAIN messages
                /\ messages[destination].deliveryCount > 0
                /\ BucketOf(destination) = InvisBucketOf(rPtr[r])

(* A request about to consume a row: if the version still holds, the rest  *)
(* of what it read holds as well.                                          *)
SnapshotsMatchVersions ==
    \A r \in Readers :
        rPc[r] \in {"consume", "consumeInvis"} =>
            LET snapshot == rMessage[r]
                row == messages[snapshot.index]
            IN  /\ snapshot.index \in DOMAIN messages
                /\ snapshot.version <= row.version
                /\ snapshot.version = row.version =>
                       row.visible /\ ~row.isAcked /\ row.deliveryCount = snapshot.deliveryCount

(* A receipt belongs to a delivery, hence to a row that is there: none     *)
(* fits a row that is acked already, or one nobody was given.              *)
ReceiptsOfDeliveries ==
    /\ \A receipt \in receipts :
          /\ receipt.index \in DOMAIN messages
          /\ receipt.version \in 2..(1 + messages[receipt.index].deliveryCount)
    /\ \A a \in Ackers : aPc[a] = "ack" => aReceipt[a] \in receipts

(* The worker's messages are as they were put. *)
WorkOnFirstVersions ==
    \A w \in Workers : \A m \in wTodo[w] :
        m.index \in DOMAIN messages /\ m.version = 1 /\ m.deliveryCount = 0

(* The inductive invariant of the proofs. *)
IInv ==
    /\ TypeOK
    /\ IndexesHaveOneOwner
    /\ BucketsClosedInOrder
    /\ VersionCountsUpdates
    /\ InvisPointerAtDelivered
    /\ InvisPointerInFirstBucket
    /\ ReadersBehindPointer
    /\ ReadsNotAhead
    /\ WorkersInClosedBuckets
    /\ WorkersHaveWork
    /\ InvisMovesInBucket
    /\ SnapshotsMatchVersions
    /\ ReceiptsOfDeliveries
    /\ WorkOnFirstVersions

(* Buckets the worker is past, or will not look at again, get no more      *)
(* rows: the bucket it skips had all its rows when it was counted, the     *)
(* bucket it has waited for is settled, those behind the pointer were      *)
(* either.                                                                 *)
NoLateRows ==
    /\ TimeoutOutlastsWrites => \A i \in InFlight : BucketOf(i) >= repairPointer
    /\ \A w \in Workers :
          \/ wPc[w] = "skip"
          \/ TimeoutOutlastsWrites /\ wPc[w] \in AfterWait
          => NoPutInFlight(wBucket[w])

SkippedIsAcked ==
    \A w \in Workers : wPc[w] = "skip" =>
        \A i \in DOMAIN messages : BucketOf(i) = wBucket[w] => messages[i].isAcked

(* What a pass has still to do covers what nobody was given, although it   *)
(* read the bucket before and drops what the clock had not reached.        *)
WorkIsComplete ==
    TimeoutOutlastsWrites /\ TimeoutOutlastsDelays =>
        \A w \in Workers : wPc[w] \in AfterWait =>
            \A i \in DOMAIN messages : BucketOf(i) = wBucket[w] /\ Undelivered(i) =>
                /\ messages[i].visible
                /\ wPc[w] # "read" => wPc[w] # "advance" /\ \E m \in wTodo[w] : m.index = i

(* The copy of a message goes behind the message, so that copies of copies *)
(* cannot vouch for each other in a circle when two workers ack them.      *)
CopyFollowsOriginal ==
    \A w \in Workers :
        LET original == First(wTodo[w])
        IN  /\ wPc[w] = "put" => wIndex[w] > original.index
            /\ wPc[w] = "ack" =>
                   \E j \in DOMAIN messages :
                       j > original.index /\ messages[j].blob = original.blob /\ Alive(j)

WorkOnRows == \A w \in Workers : \A m \in wTodo[w] : messages[m.index].blob = m.blob

(* What makes NoUndeliveredLeftBehind and AcceptedIsKept inductive. *)
RepairInv ==
    /\ NoUndeliveredLeftBehind
    /\ AcceptedIsKept
    /\ NoLateRows
    /\ SkippedIsAcked
    /\ WorkIsComplete
    /\ CopyFollowsOriginal
    /\ WorkOnRows

-----------------------------------------------------------------------------
(* A message is handed out only while it is visible and not acked: no two  *)
(* clients hold it at the same time, whatever readers have read before.    *)
DeliveredOnlyWhenVisible ==
    [][\A i \in DOMAIN messages :
          messages'[i].deliveryCount > messages[i].deliveryCount =>
              messages[i].visible /\ ~messages[i].isAcked]_vars

(* An ack is final: whoever read the row before, reader or repair worker,  *)
(* delivers it no more and does not bring it back.                         *)
AckIsFinal ==
    [][\A i \in DOMAIN messages :
          messages[i].isAcked => messages'[i].isAcked
                                 /\ messages'[i].deliveryCount = messages[i].deliveryCount]_vars

(* The pointers move forward one bucket at a time, and the worker never    *)
(* passes a bucket that still has a put in flight.                         *)
PointersMoveForward ==
    [][/\ bucketPointer' \in {bucketPointer, bucketPointer + 1}
       /\ repairPointer' \in {repairPointer, repairPointer + 1}
       /\ TimeoutOutlastsWrites /\ repairPointer' # repairPointer =>
              NoPutInFlight(repairPointer)]_vars

(* Whoever starts over was overtaken.  nextMonotonic, getAndMark and the   *)
(* repair pass repeat when an update of theirs is refused, as often as it  *)
(* takes, with no limit and no pause.  Each time the counter, the row or   *)
(* the pointer has moved on since they read it: an update of somebody else *)
(* got through, and none is refused without.                               *)
OnlyOvertakenStartOver ==
    [][/\ \A p \in Producers :
              pPc[p] = "increment" /\ pPc'[p] = "read" => pIndex[p] < monoton
       /\ \A r \in Readers :
              /\ \/ rPc[r] = "consume" /\ rPc'[r] = "scan"
                 \/ rPc[r] = "consumeInvis" /\ rPc'[r] = "bucket"
                 => rMessage[r].version < messages[rMessage[r].index].version
              /\ rPc[r] = "advance" /\ rPc'[r] = "scan" /\ UNCHANGED bucketPointer =>
                     rBucket[r] < bucketPointer
       /\ \A w \in Workers :
              /\ wPc[w] = "monCas" /\ wPc'[w] = "monRead" => wIndex[w] < monoton
              /\ wPc[w] = "skip" /\ wPc'[w] = "check" /\ UNCHANGED repairPointer =>
                     wBucket[w] < repairPointer]_vars

(* A get request walks over buckets, first from the invisibility pointer   *)
(* (tryGetNowVisibleMessage), then from the reader's (getAndMark).  It     *)
(* takes them one by one, and no further than the counter.                 *)
WalksEndAtCounter ==
    [][\A r \in Readers :
          /\ rPc[r] = "scanInvis" /\ rPc'[r] = "visit" =>
                 /\ InvisBucketOf(rPtr'[r]) = InvisBucketOf(rPtr[r]) + 1
                 /\ rPtr'[r] < monoton + BucketSize
          /\ rPc[r] = "advance" /\ rPc'[r] = "scan" =>
                 /\ rBucket'[r] \in {rBucket[r], rBucket[r] + 1}
                 /\ StartOf(rBucket'[r]) <= monoton]_vars

-----------------------------------------------------------------------------
(* A get request answers: neither the walk of the invisibility pointer nor *)
(* getAndMark goes on for ever.                                            *)
ReadReturns == \A r \in Readers : rPc[r] # "idle" ~> rPc[r] = "idle"

Accepted(blob) == \E i \in DOMAIN messages : messages[i].blob = blob
Delivered(blob) == \E i \in DOMAIN messages : messages[i].blob = blob /\ messages[i].deliveryCount > 0

(* Bound: a worker has a message to republish, and no index is left. *)
OutOfIndexes == monoton = MaxIndex /\ \E w \in Workers : wPc[w] = "monRead"

(* "We do guarantee messages will appear" (README): a payload that was put *)
(* is delivered, itself or in a copy, however late its row was and         *)
(* whatever died on the way.  Copies may be late as well and be copied     *)
(* again; only a worker that has run out of indexes is excused.            *)
EveryMessageIsDelivered ==
    \A blob \in Payloads : Accepted(blob) ~> Delivered(blob) \/ OutOfIndexes

(* The repair worker follows the reader: a closed bucket is repaired and   *)
(* passed, although passes die after the index, the copy or the ack, and   *)
(* workers are stopped while they republish.                               *)
RepairFollowsReader ==
    \A b \in {BucketOf(i) : i \in 0..(MaxIndex - 1)} :
        b \in tombstones ~> repairPointer > b \/ OutOfIndexes

-----------------------------------------------------------------------------
(* What the queue promises its clients.  A row is an entry of              *)
(* DeliveryContract; the version in a receipt is one more than the number  *)
(* of the delivery.                                                        *)
Contract ==
    INSTANCE DeliveryContract WITH
        Identities <- 0..(MaxIndex - 1),
        entries <- [i \in DOMAIN messages |->
                       [payload |-> messages[i].blob, deliveries |-> messages[i].deliveryCount,
                        ready |-> messages[i].visible, done |-> messages[i].isAcked]],
        given <- {[entry |-> receipt.index, number |-> receipt.version - 1] : receipt \in receipts}

(* Whatever interleaves, fails or is repaired, clients see a queue on      *)
(* which every operation happens at once: one holder at a time, acks by    *)
(* the last holder only, nothing given up before its copy is in.           *)
ImplementsContract == Contract!ContractSpec

-----------------------------------------------------------------------------
(* What the repository says and the code does not do.                      *)

(* PointerRepository: a move that is refused returns the stored pointer.   *)
AdvanceReturnsPointer ==
    [][\A r \in Readers : rPc[r] = "advance" /\ rPc'[r] = "scan" => rBucket'[r] = bucketPointer']_vars

(* README: a message that is not acked within its visibility timeout is    *)
(* handed out again - or acked at last, or the bound on deliveries met.    *)
DeliveriesUsedUp == \E i \in DOMAIN messages : messages[i].deliveryCount = MaxDeliveries

ExpiredIsRedelivered ==
    \A i \in 0..(MaxIndex - 1) :
        LET Expired == i \in DOMAIN messages /\ Revivable(messages[i])
        IN  Expired ~> (i \in DOMAIN messages /\ messages[i].isAcked) \/ DeliveriesUsedUp

(* README: the next invisible pointer is the first message neither acked   *)
(* nor visible; "if there isn't one in the current bucket, the             *)
(* invisibility pointer moves to the next bucket until it finds one".      *)
(* ReaderImpl draws it: all before 3 is acked, and the pointer, at 1,      *)
(* "moves to 3 and parks".  So when all before a message is acked and the  *)
(* message is out for delivery, a pointer behind it comes to it, or it is  *)
(* acked as well.                                                          *)
InvisPointerMovesOn ==
    \A i \in 1..(MaxIndex - 1) :
        LET Acked(j) == j \in DOMAIN messages /\ messages[j].isAcked
            Out == /\ i \in DOMAIN messages
                   /\ messages[i].deliveryCount > 0
                   /\ ~messages[i].visible
        IN  Out /\ (\A j \in 0..(i - 1) : Acked(j)) /\ invisPointer \in 0..(i - 1)
                ~> invisPointer = i \/ Acked(i)
=============================================================================
