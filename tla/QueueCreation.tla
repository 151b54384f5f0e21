---------------------------- MODULE QueueCreation ----------------------------
(***************************************************************************)
(* Creating queues (QueueRepositoryImpl.createQueue): five inserts, each   *)
(* "if not exists", the row of the queue itself last.  Requests to create  *)
(* the same queue race, with different bucket sizes, and die between two   *)
(* inserts; clients may ask again.  Other requests begin with the row of   *)
(* the queue and then run compare-and-set updates on its counter and its   *)
(* pointers (MonotonicRepoImpl, PointerRepositoryImpl), which only apply   *)
(* to rows that exist.                                                     *)
(***************************************************************************)
EXTENDS Integers

CONSTANTS
    Queues,         \* names of queues
    Sizes,          \* bucket sizes that clients ask for
    Creators,       \* create requests that can be in progress at the same time
    Users,          \* other requests that can be in progress at the same time
    MaxValue,       \* bound: counters and pointers stop here
    MaxFaults       \* bound: create requests that die

ASSUME QueuesAssumption == Queues # {}
ASSUME SizesAssumption == Sizes # {} /\ Sizes \subseteq Int
ASSUME CreationBoundsAssumption == MaxValue \in Nat /\ MaxFaults \in Nat

VARIABLES
    queue,          \* table queue: name -> bucket size
    cells,          \* tables monoton and pointer: <<name, cell>> -> value
    cPc,            \* the insert a create request runs next
    cQueue,         \* the queue it creates
    cSize,          \* the bucket size it was asked for
    uPc,            \* what another request does next
    uQueue,         \* the queue it found
    uSize,          \* the bucket size it found
    uCell,          \* the value it moves
    uValue,         \* that value as it was read
    faults          \* create requests that died

creatorVars == <<cPc, cQueue, cSize>>
userVars == <<uPc, uQueue, uSize, uCell, uValue>>
creationVars == <<queue, cells, creatorVars, userVars, faults>>

(* The values of a queue, in the order in which they are initialized. *)
Cells == {"monoton", "bucket", "invis", "repair"}

(* Mutant: the queue is announced before its pointers are there. *)
RecordFirst ==
    [monoton |-> "record", record |-> "bucket", bucket |-> "invis", invis |-> "repair", repair |-> "idle"]

Following ==
    [monoton |-> "bucket", bucket |-> "invis", invis |-> "repair", repair |-> "record", record |-> "idle"]

InitialValue == [cell \in Cells |-> IF cell = "invis" THEN -1 ELSE 0]

(* Values that requests move one by one, by compare and set. *)
Counted == {"monoton", "bucket", "repair"}

(* A new row, unless the key has one. *)
(* Mutant: a plain insert writes over the row that is there. *)
InsertOver(table, key, value) ==
    [k \in DOMAIN table \cup {key} |-> IF k = key THEN value ELSE table[k]]

InsertIfNotExists(table, key, value) ==
    [k \in DOMAIN table \cup {key} |-> IF k \in DOMAIN table THEN table[k] ELSE value]

(* getCurrent and getPointer make 0 of a row that is missing. *)
ValueOf(q, cell) == IF <<q, cell>> \in DOMAIN cells THEN cells[<<q, cell>>] ELSE 0

TypeOK ==
    /\ DOMAIN queue \subseteq Queues
    /\ queue \in [DOMAIN queue -> Sizes]
    /\ DOMAIN cells \subseteq Queues \X Cells
    /\ cells \in [DOMAIN cells -> Int]
    /\ cPc \in [Creators -> Cells \cup {"record", "idle"}]
    /\ cQueue \in [Creators -> Queues]
    /\ cSize \in [Creators -> Sizes]
    /\ uPc \in [Users -> {"idle", "read", "set"}]
    /\ uQueue \in [Users -> Queues]
    /\ uSize \in [Users -> Sizes]
    /\ uCell \in [Users -> Counted]
    /\ uValue \in [Users -> Int]
    /\ faults \in 0..MaxFaults

(* An idle request carries nothing: one value stands for it. *)
SomeQueue == CHOOSE q \in Queues : TRUE
SomeSize == CHOOSE s \in Sizes : TRUE

Init ==
    /\ queue = [q \in {} |-> 0]
    /\ cells = [key \in {} |-> 0]
    /\ cPc = [c \in Creators |-> "idle"]
    /\ cQueue = [c \in Creators |-> SomeQueue]
    /\ cSize = [c \in Creators |-> SomeSize]
    /\ uPc = [u \in Users |-> "idle"]
    /\ uQueue = [u \in Users |-> SomeQueue]
    /\ uSize = [u \in Users |-> SomeSize]
    /\ uCell = [u \in Users |-> "monoton"]
    /\ uValue = [u \in Users |-> 0]
    /\ faults = 0

-----------------------------------------------------------------------------
(* Create requests.                                                        *)

RequestCreate(c) ==
    /\ cPc[c] = "idle"
    /\ cPc' = [cPc EXCEPT ![c] = "monoton"]
    /\ \E q \in Queues, s \in Sizes :
        /\ cQueue' = [cQueue EXCEPT ![c] = q]
        /\ cSize' = [cSize EXCEPT ![c] = s]
    /\ UNCHANGED <<queue, cells, userVars, faults>>

CreateOver(c) ==
    /\ cPc' = [cPc EXCEPT ![c] = "idle"]
    /\ cQueue' = [cQueue EXCEPT ![c] = SomeQueue]
    /\ cSize' = [cSize EXCEPT ![c] = SomeSize]

(* The insert that the request ran is done. *)
CreateGoesOn(c) ==
    IF Following[cPc[c]] = "idle"
    THEN CreateOver(c)
    ELSE cPc' = [cPc EXCEPT ![c] = Following[@]] /\ UNCHANGED <<cQueue, cSize>>

(* initializeMonotonicValue, initializePointers *)
InitializeCell(c) ==
    /\ cPc[c] \in Cells
    /\ cells' = InsertIfNotExists(cells, <<cQueue[c], cPc[c]>>, InitialValue[cPc[c]])
    /\ CreateGoesOn(c)
    /\ UNCHANGED <<queue, userVars, faults>>

(* Mutant: the last request to finish decides on the bucket size. *)
OverwriteRecord(c) ==
    /\ cPc[c] = "record"
    /\ queue' = InsertOver(queue, cQueue[c], cSize[c])
    /\ CreateGoesOn(c)
    /\ UNCHANGED <<cells, userVars, faults>>

(* Whether the row was new is not looked at: the answer is 201 anyway. *)
InsertQueueRecord(c) ==
    /\ cPc[c] = "record"
    /\ queue' = InsertIfNotExists(queue, cQueue[c], cSize[c])
    /\ CreateGoesOn(c)
    /\ UNCHANGED <<cells, userVars, faults>>

(* A statement throws, or the node stops: 500, and nothing is undone. *)
CreateFails(c) ==
    /\ cPc[c] # "idle"
    /\ faults < MaxFaults
    /\ faults' = faults + 1
    /\ CreateOver(c)
    /\ UNCHANGED <<queue, cells, userVars>>

-----------------------------------------------------------------------------
(* Requests on a queue.                                                    *)

(* Mutant: nobody asks whether the queue exists. *)
FindAnyQueue(u) ==
    /\ uPc[u] = "idle"
    /\ uPc' = [uPc EXCEPT ![u] = "read"]
    /\ \E q \in Queues, cell \in Counted :
        /\ uQueue' = [uQueue EXCEPT ![u] = q]
        /\ uCell' = [uCell EXCEPT ![u] = cell]
    /\ UNCHANGED <<queue, cells, creatorVars, uSize, uValue, faults>>

(* getQueueDefinition; a request for a queue without a row gets a 404. *)
FindQueue(u) ==
    /\ uPc[u] = "idle"
    /\ uPc' = [uPc EXCEPT ![u] = "read"]
    /\ \E q \in DOMAIN queue, cell \in Counted :
        /\ uQueue' = [uQueue EXCEPT ![u] = q]
        /\ uSize' = [uSize EXCEPT ![u] = queue[q]]
        /\ uCell' = [uCell EXCEPT ![u] = cell]
    /\ UNCHANGED <<queue, cells, creatorVars, uValue, faults>>

ReadValue(u) ==
    LET value == ValueOf(uQueue[u], uCell[u])
    IN  /\ uPc[u] = "read"
        /\ value < MaxValue
        /\ uPc' = [uPc EXCEPT ![u] = "set"]
        /\ uValue' = [uValue EXCEPT ![u] = value]
        /\ UNCHANGED <<queue, cells, creatorVars, uQueue, uSize, uCell, faults>>

UseOver(u) ==
    /\ uPc' = [uPc EXCEPT ![u] = "idle"]
    /\ uQueue' = [uQueue EXCEPT ![u] = SomeQueue]
    /\ uSize' = [uSize EXCEPT ![u] = SomeSize]
    /\ uCell' = [uCell EXCEPT ![u] = "monoton"]
    /\ uValue' = [uValue EXCEPT ![u] = 0]

(* The update applies if the row is there with the value that was read.    *)
(* nextMonotonic tries again until it does; a pointer is tried once.       *)
SetValue(u) ==
    LET key == <<uQueue[u], uCell[u]>>
        applies == key \in DOMAIN cells /\ cells[key] = uValue[u]
    IN  /\ uPc[u] = "set"
        /\ cells' = IF applies THEN [cells EXCEPT ![key] = uValue[u] + 1] ELSE cells
        /\ IF applies \/ uCell[u] # "monoton"
           THEN UseOver(u)
           ELSE uPc' = [uPc EXCEPT ![u] = "read"] /\ UNCHANGED <<uQueue, uSize, uCell, uValue>>
        /\ UNCHANGED <<queue, creatorVars, faults>>

CreateStep(c) == InitializeCell(c) \/ InsertQueueRecord(c)
UseStep(u) == ReadValue(u) \/ SetValue(u)

Next ==
    \/ \E c \in Creators : RequestCreate(c) \/ CreateStep(c) \/ CreateFails(c)
    \/ \E u \in Users : FindQueue(u) \/ UseStep(u)

Spec == Init /\ [][Next]_creationVars

(* A request that began goes on, or dies. *)
FairSpec ==
    /\ Spec
    /\ \A c \in Creators : WF_creationVars(CreateStep(c))
    /\ \A u \in Users : WF_creationVars(UseStep(u))

-----------------------------------------------------------------------------
(* A queue that requests can find has its counter and its pointers, so     *)
(* that no update waits for a row that nobody will write, and nobody takes *)
(* a missing invisibility pointer for message 0.                           *)
ListedIsComplete == \A q \in DOMAIN queue : \A cell \in Cells : <<q, cell>> \in DOMAIN cells

(* All requests of a queue cut it into the same buckets, whenever they     *)
(* looked it up and whoever asked for another size.                        *)
OneBucketSize ==
    \A u \in Users : uPc[u] # "idle" => uQueue[u] \in DOMAIN queue /\ uSize[u] = queue[uQueue[u]]

(* What the creation can rely on: a request about to run a statement has   *)
(* run the ones before it, and nobody moves a value of a queue that        *)
(* requests cannot find yet.                                               *)
Before ==
    [idle |-> {}, monoton |-> {}, bucket |-> {"monoton"}, invis |-> {"monoton", "bucket"},
     repair |-> {"monoton", "bucket", "invis"}, record |-> Cells]

(* Nobody has read more than a value has come to. *)
ReadsNotAhead ==
    \A u \in Users : uPc[u] = "set" => uValue[u] <= cells[<<uQueue[u], uCell[u]>>]

CreationInv ==
    /\ TypeOK
    /\ ListedIsComplete
    /\ OneBucketSize
    /\ ReadsNotAhead
    /\ \A c \in Creators : \A cell \in Before[cPc[c]] : <<cQueue[c], cell>> \in DOMAIN cells
    /\ \A key \in DOMAIN cells : key[1] \notin DOMAIN queue => cells[key] = InitialValue[key[2]]

(* Creation as clients see it: at once and for good (QueueDirectory).      *)
values == [q \in DOMAIN queue |-> [cell \in Cells |-> ValueOf(q, cell)]]

Directory == INSTANCE QueueDirectory WITH size <- queue, values <- values

ImplementsDirectory == Directory!Spec

(* An update is refused only to a request whose value somebody else has    *)
(* moved since: nextMonotonic never asks again, and no pointer stays       *)
(* behind, because a row is missing or was created once more.              *)
OnlyOvertakenRefused ==
    [][\A u \in Users :
          LET key == <<uQueue[u], uCell[u]>>
          IN  uPc[u] = "set" /\ uPc'[u] # "set" /\ UNCHANGED cells =>
                  key \in DOMAIN cells /\ uValue[u] < cells[key]]_creationVars

(* A request on a queue ends, although nextMonotonic tries until its       *)
(* update applies: the row it waits for is there.                          *)
UseReturns ==
    \A u \in Users : uPc[u] # "idle" ~> (uPc[u] = "idle" \/ ValueOf(uQueue[u], uCell[u]) = MaxValue)
=============================================================================
