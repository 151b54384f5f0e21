------------------------- MODULE QueueCreationProofs -------------------------
EXTENDS QueueCreation, TLAPS

(***************************************************************************)
(* CreationInv is inductive, and with it every step of the five inserts    *)
(* and of the requests in between is a step of QueueDirectory or none.     *)
(***************************************************************************)

LEMMA SomeOfEach == SomeQueue \in Queues /\ SomeSize \in Sizes
BY QueuesAssumption, SizesAssumption DEF SomeQueue, SomeSize

LEMMA InitialTypes == \A cell \in Cells : InitialValue[cell] \in Int
BY DEF InitialValue

(* The part of the invariant that speaks of create requests. *)
StatementsInOrder ==
    \A c \in Creators : \A cell \in Before[cPc[c]] : <<cQueue[c], cell>> \in DOMAIN cells

(* The part that speaks of queues no request can find yet. *)
UnlistedUntouched ==
    \A key \in DOMAIN cells : key[1] \notin DOMAIN queue => cells[key] = InitialValue[key[2]]

LEMMA PartsOfInv ==
    CreationInv <=> /\ TypeOK /\ ListedIsComplete /\ OneBucketSize
                    /\ ReadsNotAhead /\ StatementsInOrder /\ UnlistedUntouched
BY DEF CreationInv, StatementsInOrder, UnlistedUntouched

(* The statements that are run once the next one has its turn. *)
LEMMA FollowingStatements ==
    ASSUME NEW pc \in Cells \cup {"record"}
    PROVE  /\ Following[pc] \in Cells \cup {"record", "idle"}
           /\ pc \in Cells => Before[Following[pc]] = Before[pc] \cup {pc}
           /\ pc = "record" => Before[Following[pc]] = {}
           /\ Before[pc] \subseteq Cells
BY DEF Following, Before, Cells

LEMMA InitCreation == Init => CreationInv
BY SomeOfEach, CreationBoundsAssumption
   DEF Init, CreationInv, TypeOK, ListedIsComplete, OneBucketSize, ReadsNotAhead, Before, Cells, Counted

(* A request that is about to set a value finds the row of it. *)
LEMMA SetsFindRows ==
    ASSUME CreationInv
    PROVE  \A u \in Users : uPc[u] # "idle" => <<uQueue[u], uCell[u]>> \in DOMAIN cells
BY DEF CreationInv, TypeOK, ListedIsComplete, OneBucketSize, Counted, Cells

LEMMA RequestCreateInv ==
    ASSUME CreationInv, NEW c \in Creators, RequestCreate(c)
    PROVE  CreationInv'
<1> USE PartsOfInv
<1>1. TypeOK'
  BY DEF RequestCreate, TypeOK, Cells, userVars
<1>2. ListedIsComplete' /\ OneBucketSize' /\ ReadsNotAhead' /\ UnlistedUntouched'
  BY DEF RequestCreate, ListedIsComplete, OneBucketSize, ReadsNotAhead, UnlistedUntouched, userVars
<1>3. Before["monoton"] = {}
  BY DEF Before
<1>4. StatementsInOrder'
  BY <1>3 DEF RequestCreate, StatementsInOrder, TypeOK
<1> QED BY <1>1, <1>2, <1>4 DEF CreationInv, StatementsInOrder, UnlistedUntouched

(* The request itself after an insert, and what is said of it. *)
LEMMA GoesOn ==
    ASSUME TypeOK, NEW c \in Creators, cPc[c] \in Cells \cup {"record"}, CreateGoesOn(c)
    PROVE  /\ cPc' \in [Creators -> Cells \cup {"record", "idle"}]
           /\ cQueue' \in [Creators -> Queues]
           /\ cSize' \in [Creators -> Sizes]
           /\ \A d \in Creators \ {c} : cPc'[d] = cPc[d] /\ cQueue'[d] = cQueue[d]
           /\ cPc'[c] = Following[cPc[c]]
           /\ cPc'[c] # "idle" => cQueue'[c] = cQueue[c]
<1>1. Following[cPc[c]] \in Cells \cup {"record", "idle"}
  BY FollowingStatements
<1> QED BY <1>1, SomeOfEach DEF CreateGoesOn, CreateOver, TypeOK

LEMMA InitializeCellInv ==
    ASSUME CreationInv, NEW c \in Creators, InitializeCell(c)
    PROVE  CreationInv'
<1> DEFINE key == <<cQueue[c], cPc[c]>>
<1> USE PartsOfInv
<1>1. cPc[c] \in Cells /\ cQueue[c] \in Queues /\ key \in Queues \X Cells
  BY DEF InitializeCell, TypeOK
<1>2. /\ DOMAIN cells' = DOMAIN cells \cup {key}
      /\ \A k \in DOMAIN cells : cells'[k] = cells[k]
      /\ cells' = [k \in DOMAIN cells' |-> cells'[k]]
      /\ key \notin DOMAIN cells => cells'[key] = InitialValue[cPc[c]]
  <2> DEFINE row == InitialValue[cPc[c]]
  <2>1. cells' = InsertIfNotExists(cells, key, row)
    BY DEF InitializeCell
  <2> HIDE DEF key, row
  <2>2. /\ DOMAIN cells' = DOMAIN cells \cup {key}
        /\ \A k \in DOMAIN cells : cells'[k] = cells[k]
        /\ cells' = [k \in DOMAIN cells' |-> cells'[k]]
        /\ key \notin DOMAIN cells => cells'[key] = row
    BY <2>1 DEF InsertIfNotExists
  <2> QED BY <2>2 DEF row
<1>3. /\ cPc' \in [Creators -> Cells \cup {"record", "idle"}]
      /\ cQueue' \in [Creators -> Queues]
      /\ cSize' \in [Creators -> Sizes]
      /\ \A d \in Creators \ {c} : cPc'[d] = cPc[d] /\ cQueue'[d] = cQueue[d]
      /\ cPc'[c] = Following[cPc[c]]
      /\ cPc'[c] # "idle" => cQueue'[c] = cQueue[c]
  BY <1>1, GoesOn DEF InitializeCell
<1>4. UNCHANGED <<queue, userVars, faults>>
  BY DEF InitializeCell
<1>5. TypeOK'
  BY <1>1, <1>2, <1>3, <1>4, InitialTypes DEF TypeOK, userVars
<1>6. ListedIsComplete' /\ OneBucketSize' /\ ReadsNotAhead'
  <2>1. \A u \in Users : uPc[u] = "set" => <<uQueue[u], uCell[u]>> \in DOMAIN cells
    BY SetsFindRows
  <2> QED BY <1>2, <1>4, <2>1 DEF ListedIsComplete, OneBucketSize, ReadsNotAhead, userVars
<1>7. UnlistedUntouched'
  BY <1>1, <1>2, <1>4 DEF UnlistedUntouched
<1>8. ASSUME NEW d \in Creators, NEW cell \in Before[cPc'[d]]
      PROVE  <<cQueue'[d], cell>> \in DOMAIN cells'
  <2>1. CASE d # c
    BY <1>2, <1>3, <1>8, <2>1 DEF StatementsInOrder
  <2>2. CASE d = c
    <3>1. Before[cPc'[c]] = Before[cPc[c]] \cup {cPc[c]}
      BY <1>1, <1>3, FollowingStatements
    <3>2. cPc'[c] # "idle"
      BY <1>8, <2>2 DEF Before
    <3> QED BY <1>2, <1>3, <1>8, <2>2, <3>1, <3>2 DEF StatementsInOrder
  <2> QED BY <2>1, <2>2
<1>9. StatementsInOrder'
  BY <1>8 DEF StatementsInOrder, Before
<1> QED BY <1>5, <1>6, <1>7, <1>9 DEF CreationInv, StatementsInOrder, UnlistedUntouched

LEMMA InsertQueueRecordInv ==
    ASSUME CreationInv, NEW c \in Creators, InsertQueueRecord(c)
    PROVE  CreationInv'
<1> USE PartsOfInv
<1>1. cPc[c] = "record" /\ cQueue[c] \in Queues /\ cSize[c] \in Sizes
  BY DEF InsertQueueRecord, TypeOK
<1>2. /\ DOMAIN queue' = DOMAIN queue \cup {cQueue[c]}
      /\ \A q \in DOMAIN queue : queue'[q] = queue[q]
      /\ queue' = [q \in DOMAIN queue' |-> queue'[q]]
      /\ cQueue[c] \notin DOMAIN queue => queue'[cQueue[c]] = cSize[c]
  <2> DEFINE name == cQueue[c]
             row == cSize[c]
  <2>1. queue' = InsertIfNotExists(queue, name, row)
    BY DEF InsertQueueRecord
  <2> HIDE DEF name, row
  <2>2. /\ DOMAIN queue' = DOMAIN queue \cup {name}
        /\ \A q \in DOMAIN queue : queue'[q] = queue[q]
        /\ queue' = [q \in DOMAIN queue' |-> queue'[q]]
        /\ name \notin DOMAIN queue => queue'[name] = row
    BY <2>1 DEF InsertIfNotExists
  <2> QED BY <2>2 DEF name, row
<1>3. /\ cPc' \in [Creators -> Cells \cup {"record", "idle"}]
      /\ cQueue' \in [Creators -> Queues]
      /\ cSize' \in [Creators -> Sizes]
      /\ \A d \in Creators \ {c} : cPc'[d] = cPc[d] /\ cQueue'[d] = cQueue[d]
      /\ cPc'[c] = Following[cPc[c]]
  BY <1>1, GoesOn DEF InsertQueueRecord
<1>4. UNCHANGED <<cells, userVars, faults>>
  BY DEF InsertQueueRecord
<1>5. TypeOK'
  BY <1>1, <1>2, <1>3, <1>4 DEF TypeOK, userVars
<1>6. Before[cPc[c]] = Cells
  BY <1>1 DEF Before, Cells
<1>7. ListedIsComplete'
  BY <1>2, <1>4, <1>6 DEF ListedIsComplete, StatementsInOrder
<1>8. OneBucketSize' /\ ReadsNotAhead' /\ UnlistedUntouched'
  BY <1>2, <1>4 DEF OneBucketSize, ReadsNotAhead, UnlistedUntouched, userVars
<1>9. Before[cPc'[c]] = {}
  BY <1>1, <1>3, FollowingStatements
<1>10. StatementsInOrder'
  BY <1>3, <1>4, <1>9 DEF StatementsInOrder, Before
<1> QED BY <1>5, <1>7, <1>8, <1>10 DEF CreationInv, StatementsInOrder, UnlistedUntouched

LEMMA CreateFailsInv ==
    ASSUME CreationInv, NEW c \in Creators, CreateFails(c)
    PROVE  CreationInv'
<1> USE PartsOfInv
<1>1. TypeOK'
  BY SomeOfEach, CreationBoundsAssumption DEF CreateFails, CreateOver, TypeOK, userVars
<1>2. ListedIsComplete' /\ OneBucketSize' /\ ReadsNotAhead' /\ UnlistedUntouched'
  BY DEF CreateFails, ListedIsComplete, OneBucketSize, ReadsNotAhead, UnlistedUntouched, userVars
<1>3. Before["idle"] = {}
  BY DEF Before
<1>4. StatementsInOrder'
  BY <1>3 DEF CreateFails, CreateOver, StatementsInOrder, TypeOK
<1> QED BY <1>1, <1>2, <1>4 DEF CreationInv, StatementsInOrder, UnlistedUntouched

(* A request about to set a value it found a queue for. *)
LEMMA UserInv ==
    ASSUME CreationInv, NEW u \in Users, FindQueue(u) \/ ReadValue(u) \/ SetValue(u)
    PROVE  CreationInv'
<1> USE PartsOfInv
<1>0. UNCHANGED <<queue, creatorVars, faults>>
  BY DEF FindQueue, ReadValue, SetValue
<1>1. CASE FindQueue(u)
  <2>1. TypeOK'
    BY <1>0, <1>1 DEF FindQueue, TypeOK, creatorVars
  <2>2. OneBucketSize'
    BY <1>1 DEF FindQueue, OneBucketSize, TypeOK
  <2>3. ListedIsComplete' /\ UnlistedUntouched' /\ StatementsInOrder'
    BY <1>0, <1>1 DEF FindQueue, ListedIsComplete, UnlistedUntouched, StatementsInOrder, creatorVars
  <2>4. ReadsNotAhead'
    BY <1>1 DEF FindQueue, ReadsNotAhead, TypeOK
  <2> QED BY <2>1, <2>2, <2>3, <2>4 DEF CreationInv, StatementsInOrder, UnlistedUntouched
<1>2. CASE ReadValue(u)
  <2>1. ValueOf(uQueue[u], uCell[u]) \in Int
    BY DEF ValueOf, TypeOK
  <2>2. TypeOK'
    BY <1>0, <1>2, <2>1 DEF ReadValue, TypeOK, creatorVars
  <2>3. OneBucketSize'
    BY <1>2 DEF ReadValue, OneBucketSize, TypeOK
  <2>4. ListedIsComplete' /\ UnlistedUntouched' /\ StatementsInOrder'
    BY <1>0, <1>2 DEF ReadValue, ListedIsComplete, UnlistedUntouched, StatementsInOrder, creatorVars
  <2>5. ReadsNotAhead'
    <3>1. /\ UNCHANGED <<cells, uQueue, uCell>>
          /\ uValue'[u] = cells[<<uQueue[u], uCell[u]>>]
          /\ \A v \in Users \ {u} : uPc'[v] = uPc[v] /\ uValue'[v] = uValue[v]
      BY <1>2, SetsFindRows DEF ReadValue, ValueOf, TypeOK
    <3>2. uValue'[u] \in Int
      BY <2>2 DEF TypeOK
    <3> QED BY <3>1, <3>2 DEF ReadsNotAhead
  <2> QED BY <2>2, <2>3, <2>4, <2>5 DEF CreationInv, StatementsInOrder, UnlistedUntouched
<1>3. CASE SetValue(u)
  <2> DEFINE key == <<uQueue[u], uCell[u]>>
  <2>1. key[1] = uQueue[u] /\ uQueue[u] \in DOMAIN queue /\ uValue[u] \in Int
    BY <1>3 DEF SetValue, OneBucketSize, TypeOK
  <2>2. cells' = [cells EXCEPT ![key] = uValue[u] + 1] \/ UNCHANGED cells
    BY <1>3 DEF SetValue
  <2>3. /\ DOMAIN cells' = DOMAIN cells
        /\ cells' \in [DOMAIN cells' -> Int]
        /\ \A k \in DOMAIN cells : k # key => cells'[k] = cells[k]
    BY <2>1, <2>2 DEF TypeOK
  <2>4. UseOver(u) \/ (uPc' = [uPc EXCEPT ![u] = "read"] /\ UNCHANGED <<uQueue, uSize, uCell, uValue>>)
    BY <1>3 DEF SetValue
  <2>5. TypeOK'
    <3>1. /\ uPc' \in [Users -> {"idle", "read", "set"}]
          /\ uQueue' \in [Users -> Queues]
          /\ uSize' \in [Users -> Sizes]
          /\ uCell' \in [Users -> Counted]
          /\ uValue' \in [Users -> Int]
      BY <2>4, SomeOfEach DEF UseOver, TypeOK, Counted
    <3> QED BY <1>0, <2>3, <3>1 DEF TypeOK, creatorVars
  <2>6. OneBucketSize'
    BY <1>0, <1>3, <2>4 DEF SetValue, UseOver, OneBucketSize, TypeOK
  <2>7. ListedIsComplete' /\ UnlistedUntouched' /\ StatementsInOrder'
    BY <1>0, <2>1, <2>3 DEF ListedIsComplete, UnlistedUntouched, StatementsInOrder, creatorVars
  <2>8. ReadsNotAhead'
    <3>1. \A k \in DOMAIN cells : cells[k] \in Int /\ cells'[k] \in Int /\ cells[k] <= cells'[k]
      <4> HIDE DEF key
      <4>1. cells' = cells \/ (cells' = [cells EXCEPT ![key] = cells[key] + 1])
        BY <1>3 DEF SetValue, key
      <4> QED BY <2>3, <4>1 DEF TypeOK
    <3>2. uPc'[u] # "set"
      BY <2>4 DEF UseOver, TypeOK
    <3>3. \A v \in Users \ {u} :
              uPc'[v] = uPc[v] /\ uQueue'[v] = uQueue[v] /\ uCell'[v] = uCell[v] /\ uValue'[v] = uValue[v]
      BY <2>4 DEF UseOver, TypeOK
    <3>4. ASSUME NEW v \in Users \ {u}, uPc[v] = "set"
          PROVE  uValue[v] <= cells'[<<uQueue[v], uCell[v]>>]
      <4>1. <<uQueue[v], uCell[v]>> \in DOMAIN cells /\ uValue[v] \in Int
        BY <3>4, SetsFindRows DEF TypeOK
      <4> QED BY <3>1, <3>4, <4>1 DEF ReadsNotAhead
    <3> QED BY <3>2, <3>3, <3>4 DEF ReadsNotAhead
  <2> QED BY <2>5, <2>6, <2>7, <2>8 DEF CreationInv, StatementsInOrder, UnlistedUntouched
<1> QED BY <1>1, <1>2, <1>3

LEMMA StepCreation == CreationInv /\ [Next]_creationVars => CreationInv'
<1> SUFFICES ASSUME CreationInv, [Next]_creationVars PROVE CreationInv'
  OBVIOUS
<1>1. CASE UNCHANGED creationVars
  BY <1>1 DEF creationVars, creatorVars, userVars, CreationInv, TypeOK, ListedIsComplete,
              OneBucketSize, ReadsNotAhead, Before
<1> QED BY <1>1, RequestCreateInv, InitializeCellInv, InsertQueueRecordInv, CreateFailsInv, UserInv
        DEF Next, CreateStep, UseStep

(* What creations rely on, and that a queue requests can find is complete. *)
THEOREM CreationInvariant == Spec => []CreationInv
BY InitCreation, StepCreation, PTL DEF Spec

(* A queue that can be found has all its values, whatever creations of it  *)
(* raced or died.                                                          *)
THEOREM ListedComplete == Spec => []ListedIsComplete
<1>1. CreationInv => ListedIsComplete
  BY DEF CreationInv
<1> QED BY <1>1, InitCreation, StepCreation, PTL DEF Spec

(* All requests of a queue use the bucket size its creation fixed.         *)
THEOREM SameBucketSize == Spec => []OneBucketSize
<1>1. CreationInv => OneBucketSize
  BY DEF CreationInv
<1> QED BY <1>1, InitCreation, StepCreation, PTL DEF Spec

LEMMA RefusedWasOvertaken ==
    ASSUME CreationInv, [Next]_creationVars, NEW u \in Users,
           uPc[u] = "set", uPc'[u] # "set", UNCHANGED cells
    PROVE  <<uQueue[u], uCell[u]>> \in DOMAIN cells /\ uValue[u] < cells[<<uQueue[u], uCell[u]>>]
<1> DEFINE key == <<uQueue[u], uCell[u]>>
<1>1. key \in DOMAIN cells /\ uValue[u] \in Int /\ cells[key] \in Int /\ uValue[u] <= cells[key]
  BY SetsFindRows DEF CreationInv, ReadsNotAhead, TypeOK
<1>2. uPc \in [Users -> {"idle", "read", "set"}]
  BY DEF CreationInv, TypeOK
<1>3. PICK v \in Users : FindQueue(v) \/ ReadValue(v) \/ SetValue(v)
  BY DEF Next, CreateStep, UseStep, RequestCreate, InitializeCell, InsertQueueRecord, CreateFails,
         creationVars, userVars
<1>4. SetValue(u)
  BY <1>2, <1>3 DEF FindQueue, ReadValue, SetValue, UseOver
<1>5. cells[key] # uValue[u]
  <2>1. SUFFICES ASSUME cells[key] = uValue[u] PROVE cells'[key] # cells[key]
    OBVIOUS
  <2>2. cells' = [cells EXCEPT ![key] = uValue[u] + 1]
    BY <1>1, <1>4, <2>1 DEF SetValue
  <2> QED BY <1>1, <2>1, <2>2
<1> QED BY <1>1, <1>5

(* An update that is refused lost to another one: the row was there, with  *)
(* a larger value, however creations of the queue overlap with its use.    *)
THEOREM RefusedOvertaken == Spec => OnlyOvertakenRefused
<1> DEFINE Overtaken ==
        \A u \in Users :
          LET key == <<uQueue[u], uCell[u]>>
          IN  uPc[u] = "set" /\ uPc'[u] # "set" /\ UNCHANGED cells =>
                  key \in DOMAIN cells /\ uValue[u] < cells[key]
<1>1. CreationInv /\ [Next]_creationVars => [Overtaken]_creationVars
  BY RefusedWasOvertaken
<1> QED BY <1>1, InitCreation, StepCreation, PTL DEF Spec, OnlyOvertakenRefused
-----------------------------------------------------------------------------
(* The refinement of QueueDirectory.                                       *)

LEMMA SameNames == Directory!Cells = Cells /\ Directory!InitialValue = InitialValue
BY DEF Directory!Cells, Cells, Directory!InitialValue, InitialValue

LEMMA StartsEmpty == Init => Directory!Init
BY DEF Init, Directory!Init, values

(* Nothing that clients see changes when the rows of listed queues stay.   *)
LEMMA SeenUnchanged ==
    ASSUME UNCHANGED queue,
           \A q \in DOMAIN queue : \A cell \in Cells : ValueOf(q, cell)' = ValueOf(q, cell)
    PROVE  UNCHANGED <<queue, values>>
BY DEF values

LEMMA InitializeCellUnseen ==
    ASSUME CreationInv, NEW c \in Creators, InitializeCell(c)
    PROVE  UNCHANGED <<queue, values>>
<1> DEFINE key == <<cQueue[c], cPc[c]>>
           row == InitialValue[cPc[c]]
<1>1. cells' = InsertIfNotExists(cells, key, row) /\ UNCHANGED queue
  BY DEF InitializeCell
<1> HIDE DEF key, row
<1>2. DOMAIN cells \subseteq DOMAIN cells' /\ \A k \in DOMAIN cells : cells'[k] = cells[k]
  BY <1>1 DEF InsertIfNotExists
<1>3. ListedIsComplete
  BY DEF CreationInv
<1>4. ASSUME NEW q \in DOMAIN queue, NEW cell \in Cells
      PROVE  ValueOf(q, cell)' = ValueOf(q, cell)
  BY <1>2, <1>3 DEF ListedIsComplete, ValueOf
<1> QED BY <1>1, <1>4, SeenUnchanged

LEMMA InsertQueueRecordCreates ==
    ASSUME CreationInv, NEW c \in Creators, InsertQueueRecord(c)
    PROVE  [Directory!Next]_<<queue, values>>
<1> DEFINE q == cQueue[c]
           s == cSize[c]
<1>1. queue' = InsertIfNotExists(queue, q, s) /\ UNCHANGED cells
  BY DEF InsertQueueRecord
<1>2. q \in Queues /\ s \in Sizes /\ queue \in [DOMAIN queue -> Sizes]
  BY DEF CreationInv, TypeOK
<1>3. \A cell \in Cells : <<q, cell>> \in DOMAIN cells
  BY DEF CreationInv, InsertQueueRecord, Before, Cells
<1>4. \A key \in DOMAIN cells : key[1] \notin DOMAIN queue => cells[key] = InitialValue[key[2]]
  BY DEF CreationInv
<1> HIDE DEF q, s
<1>5. CASE q \in DOMAIN queue
  <2>1. queue' = queue
    BY <1>1, <1>2, <1>5 DEF InsertIfNotExists
  <2> QED BY <1>1, <2>1, SeenUnchanged DEF ValueOf
<1>6. CASE q \notin DOMAIN queue
  <2>1. queue' = Directory!Add(queue, q, s)
    <3>1. queue' = [k \in DOMAIN queue \cup {q} |-> IF k \in DOMAIN queue THEN queue[k] ELSE s]
      BY <1>1 DEF InsertIfNotExists
    <3> QED BY <3>1, <1>6 DEF Directory!Add
  <2>2. [cell \in Cells |-> ValueOf(q, cell)] = InitialValue
    <3>1. \A cell \in Cells : ValueOf(q, cell) = InitialValue[cell]
      BY <1>3, <1>4, <1>6 DEF ValueOf
    <3> QED BY <3>1 DEF InitialValue
  <2>3. values' = Directory!Add(values, q, InitialValue)
    <3>1. values' = [k \in DOMAIN queue \cup {q} |-> [cell \in Cells |-> ValueOf(k, cell)]]
      BY <1>1 DEF values, ValueOf, InsertIfNotExists
    <3>2. DOMAIN values = DOMAIN queue
          /\ \A k \in DOMAIN queue : values[k] = [cell \in Cells |-> ValueOf(k, cell)]
      BY DEF values
    <3> QED BY <3>1, <3>2, <2>2, <1>6 DEF Directory!Add
  <2>4. Directory!Create(q, s)
    BY <1>6, <2>1, <2>3, SameNames DEF Directory!Create
  <2> QED BY <1>2, <2>4 DEF Directory!Next
<1> QED BY <1>5, <1>6

LEMMA SetValueAdvances ==
    ASSUME CreationInv, NEW u \in Users, SetValue(u)
    PROVE  [Directory!Next]_<<queue, values>>
<1>0. uQueue[u] \in DOMAIN queue /\ uQueue[u] \in Queues /\ uCell[u] \in Cells
  BY DEF CreationInv, OneBucketSize, TypeOK, SetValue, Counted, Cells
<1>1. PICK q \in Queues, cell \in Cells : q = uQueue[u] /\ cell = uCell[u]
  BY <1>0
<1> DEFINE applies == <<q, cell>> \in DOMAIN cells /\ cells[<<q, cell>>] = uValue[u]
<1>2. cells' = IF applies THEN [cells EXCEPT ![<<q, cell>>] = uValue[u] + 1] ELSE cells
  BY <1>1 DEF SetValue
<1>3. q \in DOMAIN queue /\ UNCHANGED queue
  BY <1>0, <1>1 DEF SetValue
<1>4. CASE ~applies
  <2>1. cells' = cells
    BY <1>2, <1>4
  <2> QED BY <1>3, <2>1, SeenUnchanged DEF ValueOf
<1>5. CASE applies
  <2>1. /\ DOMAIN cells' = DOMAIN cells
        /\ cells'[<<q, cell>>] = cells[<<q, cell>>] + 1
        /\ \A k \in DOMAIN cells : k # <<q, cell>> => cells'[k] = cells[k]
    BY <1>2, <1>5 DEF CreationInv, TypeOK
  <2>2. ValueOf(q, cell)' = ValueOf(q, cell) + 1
    BY <2>1, <1>5 DEF ValueOf
  <2>3. \A k \in DOMAIN queue, d \in Cells :
            <<k, d>> # <<q, cell>> => ValueOf(k, d)' = ValueOf(k, d)
    BY <2>1 DEF ValueOf
  <2>4. values' = [values EXCEPT ![q][cell] = @ + 1]
    BY <1>3, <2>2, <2>3 DEF values
  <2>5. Directory!Advance(q, cell)
    BY <1>3, <2>4 DEF Directory!Advance
  <2> QED BY <2>5, SameNames DEF Directory!Next
<1> QED BY <1>4, <1>5

LEMMA StepsAreSeen == CreationInv /\ [Next]_creationVars => [Directory!Next]_<<queue, values>>
<1> SUFFICES ASSUME CreationInv, [Next]_creationVars PROVE [Directory!Next]_<<queue, values>>
  OBVIOUS
<1>1. CASE UNCHANGED <<queue, cells>>
  BY <1>1, SeenUnchanged DEF ValueOf
<1>2. ASSUME NEW c \in Creators, RequestCreate(c) \/ CreateFails(c)
      PROVE  UNCHANGED <<queue, cells>>
  BY <1>2 DEF RequestCreate, CreateFails
<1>3. ASSUME NEW u \in Users, FindQueue(u) \/ ReadValue(u)
      PROVE  UNCHANGED <<queue, cells>>
  BY <1>3 DEF FindQueue, ReadValue
<1>4. UNCHANGED creationVars => UNCHANGED <<queue, cells>>
  BY DEF creationVars
<1> QED BY <1>1, <1>2, <1>3, <1>4, InitializeCellUnseen, InsertQueueRecordCreates, SetValueAdvances
        DEF Next, CreateStep, UseStep

(* Whatever creations race or die, clients see each queue appear at once,  *)
(* complete, with one bucket size for good, and its values count up.       *)
THEOREM CreationRefines == Spec => ImplementsDirectory
BY InitCreation, StepCreation, StartsEmpty, StepsAreSeen, PTL
   DEF Spec, ImplementsDirectory, Directory!Spec
=============================================================================
