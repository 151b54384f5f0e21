--------------------------- MODULE QueueDirectory ---------------------------
(***************************************************************************)
(* What clients of the service may believe about the creation of queues:   *)
(* a queue appears at once, with one bucket size for good and every value  *)
(* it needs, and from then on its values move forward one by one.  No      *)
(* second creation, failed, late or with another size, changes a queue     *)
(* that exists.                                                            *)
(***************************************************************************)
EXTENDS Integers

CONSTANTS
    Queues,         \* names of queues
    Sizes           \* bucket sizes that clients ask for

VARIABLES
    size,           \* the bucket size of each queue that exists
    values          \* its counter and its pointers

Cells == {"monoton", "bucket", "invis", "repair"}

InitialValue == [cell \in Cells |-> IF cell = "invis" THEN -1 ELSE 0]

Init == size = [q \in {} |-> 0] /\ values = [q \in {} |-> InitialValue]

Add(table, q, entry) == [k \in DOMAIN table \cup {q} |-> IF k = q THEN entry ELSE table[k]]

Create(q, s) ==
    /\ q \notin DOMAIN size
    /\ size' = Add(size, q, s)
    /\ values' = Add(values, q, InitialValue)

Advance(q, cell) ==
    /\ q \in DOMAIN size
    /\ values' = [values EXCEPT ![q][cell] = @ + 1]
    /\ UNCHANGED size

Next ==
    \E q \in Queues :
        \/ \E s \in Sizes : Create(q, s)
        \/ \E cell \in Cells : Advance(q, cell)

Spec == Init /\ [][Next]_<<size, values>>
=============================================================================
