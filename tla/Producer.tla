------------------------------ MODULE Producer ------------------------------
(***************************************************************************)
(* Put requests (QueueResource.putMessage).  A request takes an index from *)
(* the monotonic repository - read the counter, compare and set it, start  *)
(* over when somebody else was faster - and only then inserts the message. *)
(* Between the two statements the index is handed out and the row missing: *)
(* the delayed write the repair worker exists for.                         *)
(***************************************************************************)
EXTENDS CassandraTables

CONSTANTS
    Producers       \* put requests that can be in progress at the same time

VARIABLES
    pPc,            \* what the request does next
    pIndex,         \* the counter value it read, then the index it owns
    pBlob,          \* the payload it carries
    unsent          \* payloads that clients have still to put

producerVars == <<pPc, pIndex, pBlob, unsent>>

NoBlob == "none"

ProducerPc == {"idle", "read", "increment", "put"}

ProducerTypeOK ==
    /\ pPc \in [Producers -> ProducerPc]
    /\ pIndex \in [Producers -> Nat]
    /\ pBlob \in [Producers -> Payloads \cup {NoBlob}]
    /\ \A p \in Producers : pPc[p] # "idle" => pBlob[p] \in Payloads
    /\ unsent \subseteq Payloads

ProducerInit ==
    /\ pPc = [p \in Producers |-> "idle"]
    /\ pIndex = [p \in Producers |-> 0]
    /\ pBlob = [p \in Producers |-> NoBlob]
    /\ unsent = Payloads

-----------------------------------------------------------------------------
PutRequest(p) ==
    /\ pPc[p] = "idle"
    /\ \E blob \in unsent :
        /\ pBlob' = [pBlob EXCEPT ![p] = blob]
        /\ unsent' = unsent \ {blob}
    /\ pPc' = [pPc EXCEPT ![p] = "read"]
    /\ UNCHANGED <<pIndex, tableVars>>

ReadMonoton(p) ==
    /\ pPc[p] = "read"
    /\ monoton < MaxIndex
    /\ pIndex' = [pIndex EXCEPT ![p] = monoton]
    /\ pPc' = [pPc EXCEPT ![p] = "increment"]
    /\ UNCHANGED <<pBlob, unsent, tableVars>>

IncrementMonoton(p) ==
    /\ pPc[p] = "increment"
    /\ monoton' = MonotonAfterIncrement(pIndex[p])
    /\ pPc' = [pPc EXCEPT ![p] = IF IncrementApplies(pIndex[p]) THEN "put" ELSE "read"]
    /\ UNCHANGED <<pIndex, pBlob, unsent, messages, tombstones,
                   bucketPointer, invisPointer, repairPointer>>

(* Mutant: a request that is over is tried again, without its payload. *)
RequestRetried(p) ==
    /\ pPc' = [pPc EXCEPT ![p] = "read"]
    /\ pBlob' = [pBlob EXCEPT ![p] = NoBlob]
    /\ UNCHANGED pIndex

RequestOver(p) ==
    /\ pPc' = [pPc EXCEPT ![p] = "idle"]
    /\ pIndex' = [pIndex EXCEPT ![p] = 0]
    /\ pBlob' = [pBlob EXCEPT ![p] = NoBlob]

(* 201 when the row went in, 500 (ExistingMonotonFoundException) otherwise. *)
PutMessage(p) ==
    /\ pPc[p] = "put"
    /\ messages' = IF PutApplies(pIndex[p]) THEN AfterPut(pIndex[p], pBlob[p]) ELSE messages
    /\ RequestOver(p)
    /\ UNCHANGED <<unsent, monoton, tombstones, bucketPointer, invisPointer, repairPointer>>

(* The request dies: the server stops, or a statement throws.  The client  *)
(* may put the payload again; an index that was taken stays without a row. *)
PutFails(p) ==
    /\ pPc[p] # "idle"
    /\ unsent' = unsent \cup {pBlob[p]}
    /\ RequestOver(p)
    /\ UNCHANGED tableVars

(* The row goes in and the client does not hear of it: it puts the payload *)
(* again, and the queue holds it twice.                                    *)
PutUnanswered(p) ==
    /\ pPc[p] = "put"
    /\ PutApplies(pIndex[p])
    /\ messages' = AfterPut(pIndex[p], pBlob[p])
    /\ unsent' = unsent \cup {pBlob[p]}
    /\ RequestOver(p)
    /\ UNCHANGED <<monoton, tombstones, bucketPointer, invisPointer, repairPointer>>

ProducerProgress(p) == ReadMonoton(p) \/ IncrementMonoton(p) \/ PutMessage(p)
=============================================================================
