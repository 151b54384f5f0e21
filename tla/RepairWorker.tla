----------------------------- MODULE RepairWorker ----------------------------
(***************************************************************************)
(* RepairWorkerImpl: one scheduled pass over the buckets the reader has    *)
(* closed.  The pass skips buckets that are full and acked, waits for the  *)
(* first other tombstoned bucket to be closed for good, republishes the    *)
(* messages of it that were never delivered, and moves its pointer on.     *)
(* Every node that serves the queue runs a worker (Workers).               *)
(* wPc, by what the pass does next:                                        *)
(*    check     tombstoneExists of the bucket                              *)
(*    list      getMessages, to see whether the bucket can be skipped      *)
(*    skip      move the pointer past the bucket, look at the next one     *)
(*    wait      sleep until the bucket's tombstone is old enough           *)
(*    read      getMessages, for those that were never delivered           *)
(*    filter    republish the first of them if it is visible, or drop it   *)
(*    monRead, monCas   nextMonotonic, for the copy of that message        *)
(*    put       put the copy of that message                               *)
(*    ack       ack the original                                           *)
(*    advance   move the pointer past the bucket, end of the pass          *)
(***************************************************************************)
EXTENDS CassandraTables, RepairTiming

CONSTANTS
    Workers         \* the repair workers of the queue

VARIABLES
    wPc,            \* what the pass does next
    wStarted,       \* isStarted
    wBucket,        \* the bucket the pass is at
    wTodo,          \* messages the stream has still to go through, as they were read
    wIndex          \* the counter value read, then the index of the copy

workerVars == <<wPc, wStarted, wBucket, wTodo, wIndex>>

WorkerPc == {"idle", "check", "list", "skip", "wait", "read", "filter",
             "monRead", "monCas", "put", "ack", "advance"}

WorkerTypeOK ==
    /\ wPc \in [Workers -> WorkerPc]
    /\ wStarted \in [Workers -> BOOLEAN]
    /\ wBucket \in [Workers -> Nat]
    /\ wTodo \in [Workers -> SUBSET Message]
    /\ wIndex \in [Workers -> Nat]

WorkerInit ==
    /\ wPc = [w \in Workers |-> "idle"]
    /\ wStarted = [w \in Workers |-> TRUE]
    /\ wBucket = [w \in Workers |-> 0]
    /\ wTodo = [w \in Workers |-> {}]
    /\ wIndex = [w \in Workers |-> 0]

WorkerGoTo(w, pc) ==
    /\ wPc' = [wPc EXCEPT ![w] = pc]
    /\ UNCHANGED <<wStarted, wBucket, wTodo, wIndex>>

(* The scheduled run is over; schedule() plans the next one. *)
EndPass(w) ==
    /\ wPc' = [wPc EXCEPT ![w] = "idle"]
    /\ wBucket' = [wBucket EXCEPT ![w] = 0]
    /\ wTodo' = [wTodo EXCEPT ![w] = {}]
    /\ wIndex' = [wIndex EXCEPT ![w] = 0]
    /\ UNCHANGED wStarted

-----------------------------------------------------------------------------
(* findFirstBucketToMonitor                                                *)

Poll(w) ==
    /\ wPc[w] = "idle"
    /\ wStarted[w]
    /\ wPc' = [wPc EXCEPT ![w] = "check"]
    /\ wBucket' = [wBucket EXCEPT ![w] = repairPointer]
    /\ UNCHANGED <<wStarted, wTodo, wIndex, tableVars>>

(* Mutant: the worker looks at the bucket, closed or not. *)
CheckNothing(w) ==
    /\ wPc[w] = "check"
    /\ IF wStarted[w] THEN WorkerGoTo(w, "list") ELSE EndPass(w)
    /\ UNCHANGED tableVars

CheckTombstone(w) ==
    /\ wPc[w] = "check"
    /\ IF wStarted[w] /\ wBucket[w] \in tombstones THEN WorkerGoTo(w, "list") ELSE EndPass(w)
    /\ UNCHANGED tableVars

(* Mutant: the rows that are there are taken for all rows of the bucket. *)
AllAcked(rows) == \A m \in rows : m.isAcked

FullAndAcked(rows) == Cardinality(rows) = BucketSize /\ \A m \in rows : m.isAcked

ListBucket(w) ==
    /\ wPc[w] = "list"
    /\ WorkerGoTo(w, IF FullAndAcked(GetMessages(wBucket[w])) THEN "skip" ELSE "wait")
    /\ UNCHANGED tableVars

(* advanceRepairBucketPointer: compare and set. *)
(* Mutants: an unconditional move, and an off-by-one in the condition. *)
AdvanceUnconditional(bucket) == bucket \in Nat
AdvanceBehind(bucket) == repairPointer > bucket

AdvanceApplies(bucket) == repairPointer = bucket

SkipBucket(w) ==
    LET applied == AdvanceApplies(wBucket[w])
    IN  /\ wPc[w] = "skip"
        /\ repairPointer' = PointerAfterMove(repairPointer, wBucket[w] + 1, applied)
        /\ wBucket' = [wBucket EXCEPT ![w] = MoveResult(@, @ + 1, applied)]
        /\ wPc' = [wPc EXCEPT ![w] = "check"]
        /\ UNCHANGED <<wStarted, wTodo, wIndex, monoton, messages, tombstones,
                       bucketPointer, invisPointer>>

-----------------------------------------------------------------------------
(* watchBucket.  When the wait ends depends on the clock: the composition  *)
(* says which states allow it.                                             *)

EndWait(w) ==
    /\ wPc[w] = "wait"
    /\ IF wStarted[w] THEN WorkerGoTo(w, "read") ELSE EndPass(w)
    /\ UNCHANGED tableVars

ReadBucket(w) ==
    /\ wPc[w] = "read"
    /\ wTodo' = [wTodo EXCEPT ![w] =
                    {m \in GetMessages(wBucket[w]) : ~m.isAcked /\ m.deliveryCount = 0}]
    /\ wPc' = [wPc EXCEPT ![w] = "filter"]
    /\ UNCHANGED <<wStarted, wBucket, wIndex, tableVars>>

(* The filter on acked and delivered messages depends on what was read     *)
(* only.  The clock is asked when the stream gets to the message: it has   *)
(* passed the time in m if m was visible when it was read, if the row is   *)
(* visible since, or if somebody found it visible and consumed it.         *)
(* Mutant: the filter inverted. *)
NotVisibleByNow(m) == ~m.visible /\ ~messages[m.index].visible

VisibleByNow(m) ==
    m.visible \/ messages[m.index].visible \/ messages[m.index].deliveryCount > m.deliveryCount

FilterNext(w) ==
    LET next == First(wTodo[w])
    IN  /\ wPc[w] = "filter"
        /\ \/ wTodo[w] = {} /\ WorkerGoTo(w, "advance")
           \/ wTodo[w] # {} /\ VisibleByNow(next) /\ WorkerGoTo(w, "monRead")
           \/ /\ wTodo[w] # {} /\ ~VisibleByNow(next)
              /\ wTodo' = [wTodo EXCEPT ![w] = @ \ {next}]
              /\ UNCHANGED <<wPc, wStarted, wBucket, wIndex>>
        /\ UNCHANGED tableVars

(* republishMessage of the first message that is left. *)
WorkerReadMonoton(w) ==
    /\ wPc[w] = "monRead"
    /\ monoton < MaxIndex
    /\ wIndex' = [wIndex EXCEPT ![w] = monoton]
    /\ wPc' = [wPc EXCEPT ![w] = "monCas"]
    /\ UNCHANGED <<wStarted, wBucket, wTodo, tableVars>>

WorkerIncrementMonoton(w) ==
    /\ wPc[w] = "monCas"
    /\ monoton' = MonotonAfterIncrement(wIndex[w])
    /\ WorkerGoTo(w, IF IncrementApplies(wIndex[w]) THEN "put" ELSE "monRead")
    /\ UNCHANGED <<messages, tombstones, bucketPointer, invisPointer, repairPointer>>

(* Mutant: a copy that was not written goes unnoticed. *)
PutCopyLost(w) ==
    /\ wPc[w] = "put"
    /\ wIndex' = [wIndex EXCEPT ![w] = 0]
    /\ wPc' = [wPc EXCEPT ![w] = "ack"]
    /\ UNCHANGED <<wStarted, wBucket, wTodo, tableVars>>

PutCopy(w) ==
    /\ wPc[w] = "put"
    /\ PutApplies(wIndex[w])
    /\ messages' = AfterPut(wIndex[w], First(wTodo[w]).blob)
    /\ wIndex' = [wIndex EXCEPT ![w] = 0]
    /\ wPc' = [wPc EXCEPT ![w] = "ack"]
    /\ UNCHANGED <<wStarted, wBucket, wTodo, monoton, tombstones,
                   bucketPointer, invisPointer, repairPointer>>

(* The answer of ackMessage is not looked at. *)
AckOriginal(w) ==
    LET original == First(wTodo[w])
    IN  /\ wPc[w] = "ack"
        /\ messages' = IF AckApplies(original) THEN AfterAck(original) ELSE messages
        /\ wTodo' = [wTodo EXCEPT ![w] = @ \ {original}]
        /\ wPc' = [wPc EXCEPT ![w] = "filter"]
        /\ UNCHANGED <<wStarted, wBucket, wIndex, monoton, tombstones,
                       bucketPointer, invisPointer, repairPointer>>

AdvanceRepair(w) ==
    /\ wPc[w] = "advance"
    /\ repairPointer' =
           PointerAfterMove(repairPointer, wBucket[w] + 1, AdvanceApplies(wBucket[w]))
    /\ EndPass(w)
    /\ UNCHANGED <<monoton, messages, tombstones, bucketPointer, invisPointer>>

-----------------------------------------------------------------------------
(* A statement throws (a put whose index is taken among them): process()   *)
(* logs it and schedules the next pass.                                    *)
PassFails(w) ==
    /\ wPc[w] # "idle"
    /\ EndPass(w)
    /\ UNCHANGED tableVars

(* stop() only lowers the flag: a pass that is republishing goes on. *)
Stop(w) ==
    /\ wStarted[w]
    /\ wStarted' = [wStarted EXCEPT ![w] = FALSE]
    /\ UNCHANGED <<wPc, wBucket, wTodo, wIndex, tableVars>>

(* The node is started again, with a new worker. *)
Restart(w) ==
    /\ ~wStarted[w]
    /\ wPc[w] = "idle"
    /\ wStarted' = [wStarted EXCEPT ![w] = TRUE]
    /\ UNCHANGED <<wPc, wBucket, wTodo, wIndex, tableVars>>

(* What a pass does when nothing fails, but for the wait. *)
WorkerProgress(w) ==
    \/ CheckTombstone(w) \/ ListBucket(w) \/ SkipBucket(w)
    \/ ReadBucket(w) \/ FilterNext(w)
    \/ WorkerReadMonoton(w) \/ WorkerIncrementMonoton(w) \/ PutCopy(w)
    \/ AckOriginal(w) \/ AdvanceRepair(w)
=============================================================================
