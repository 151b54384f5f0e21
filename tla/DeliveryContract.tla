-------------------------- MODULE DeliveryContract --------------------------
(***************************************************************************)
(* What the queue promises its clients (src/README.md), with nothing of    *)
(* how it keeps it: no counter, no buckets, no pointers, no versions, and  *)
(* every operation at once.                                                *)
(*                                                                         *)
(* An accepted payload is an entry.  An entry is handed out to one client  *)
(* at a time, who may acknowledge it until the next client gets it.  An    *)
(* entry nobody was given may be withdrawn once another entry carries the  *)
(* payload, so that delivery is at least once.                             *)
(***************************************************************************)
EXTENDS Integers

CONSTANTS
    Payloads,       \* what clients put
    Identities      \* what tells one entry from another

VARIABLES
    entries,        \* identity -> Entry
    given           \* the deliveries clients were told of: the n-th of an entry

contractVars == <<entries, given>>

Entry == [payload: Payloads, deliveries: Nat, ready: BOOLEAN, done: BOOLEAN]
Delivery == [entry: Identities, number: Nat \ {0}]

ContractTypeOK ==
    /\ DOMAIN entries \subseteq Identities
    /\ \A id \in DOMAIN entries : entries[id] \in Entry
    /\ given \subseteq Delivery

ContractInit ==
    /\ entries = [id \in {} |-> {}]
    /\ given = {}

(* Somebody has it, or can still get it. *)
Alive(entry) == entry.deliveries > 0 \/ ~entry.done

-----------------------------------------------------------------------------
(* A client's payload, or a copy of one, enters the queue. *)
Accept(id, payload) ==
    /\ id \notin DOMAIN entries
    /\ entries' = [i \in DOMAIN entries \cup {id} |->
                      IF i = id
                      THEN [payload |-> payload, deliveries |-> 0, ready |-> FALSE, done |-> FALSE]
                      ELSE entries[i]]
    /\ UNCHANGED given

(* The entry may be handed out: for the first time, or once more. *)
BecomeReady(id) ==
    /\ ~entries[id].ready
    /\ entries' = [entries EXCEPT ![id].ready = TRUE]
    /\ UNCHANGED given

(* The entry is handed out; the client may not hear of it. *)
Deliver(id) ==
    LET number == entries[id].deliveries + 1
    IN  /\ entries[id].ready
        /\ ~entries[id].done
        /\ entries' = [entries EXCEPT ![id].deliveries = number, ![id].ready = FALSE]
        /\ given' \in {given, given \cup {[entry |-> id, number |-> number]}}

(* Only the client who got it last can acknowledge it. *)
Acknowledge(id) ==
    /\ [entry |-> id, number |-> entries[id].deliveries] \in given
    /\ ~entries[id].done
    /\ entries' = [entries EXCEPT ![id].done = TRUE]
    /\ UNCHANGED given

Withdraw(id) ==
    /\ entries[id].deliveries = 0
    /\ ~entries[id].done
    /\ \E other \in DOMAIN entries \ {id} :
          entries[other].payload = entries[id].payload /\ Alive(entries[other])
    /\ entries' = [entries EXCEPT ![id].done = TRUE]
    /\ UNCHANGED given

ContractNext ==
    \/ \E id \in Identities, payload \in Payloads : Accept(id, payload)
    \/ \E id \in DOMAIN entries :
          BecomeReady(id) \/ Deliver(id) \/ Acknowledge(id) \/ Withdraw(id)

ContractSpec == ContractInit /\ [][ContractNext]_contractVars

=============================================================================
