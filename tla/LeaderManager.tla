--------------------------- MODULE LeaderManager ----------------------------
(***************************************************************************)
(* Repair workers on the elected node only (LeaderBasedRepairWorker).  The *)
(* service does not bind this manager yet.  It starts and stops workers    *)
(* when the node's role changes: on the thread of the RAFT protocol, which *)
(* calls roleChanged, and on the thread of the service, which calls start  *)
(* and stop.                                                               *)
(***************************************************************************)
EXTENDS RepairPool

CONSTANTS
    Queues,         \* the queues that exist
    MaxChanges,     \* bound: changes of the node's role
    MaxWorkers      \* bound: workers made for a queue

VARIABLES
    role,           \* the role RAFT gives the node
    listening,      \* RAFT calls roleChanged
    sPc,            \* what the thread of the service does next
    call,           \* the loop each thread is in
    todo,           \* the queues that loop has yet to come to
    changes

restOfNode == <<role, listening, sPc, call, todo, changes>>
leaderVars == <<poolVars, restOfNode>>

Threads == {"service", "raft"}

(* RAFT: a follower that hears of no leader runs for election.  It wins,   *)
(* or somebody else does, and who leads may be replaced.                   *)
Roles == {"follower", "candidate", "leader"}
RoleAfter == [follower |-> {"candidate"},
              candidate |-> {"leader", "follower"},
              leader |-> {"follower"}]

isLeader == role = "leader"

TypeOK ==
    /\ PoolTypeOK
    /\ DOMAIN workers \subseteq Queues \X (1..MaxWorkers)
    /\ role \in Roles
    /\ listening \in BOOLEAN
    /\ sPc \in {"off", "listens", "on", "deaf", "stopped"}
    /\ call \in [Threads -> {"none", "startAll", "stopAll"}]
    /\ todo \in [Threads -> SUBSET Queues]
    /\ changes \in 0..MaxChanges

Init ==
    /\ PoolInit
    /\ role \in Roles
    /\ listening = FALSE
    /\ sPc = "off"
    /\ call = [t \in Threads |-> "none"]
    /\ todo = [t \in Threads |-> {}]
    /\ changes = 0

(* roleChanged: the queues are listed, and the loop begins.  Any role but  *)
(* that of the leader stops all, that of a candidate among them.           *)
RoleChanged(t, newRole) ==
    /\ call' = [call EXCEPT ![t] = IF newRole = "leader" THEN "startAll" ELSE "stopAll"]
    /\ todo' = [todo EXCEPT ![t] = Queues]

(* An election begins, is won or lost, and the listener is told, if there  *)
(* is one.                                                                 *)
ChangeRole ==
    /\ changes < MaxChanges
    /\ changes' = changes + 1
    /\ call["raft"] = "none"
    /\ role' \in RoleAfter[role]
    /\ IF listening THEN RoleChanged("raft", role') ELSE UNCHANGED <<call, todo>>
    /\ UNCHANGED <<poolVars, listening, sPc>>

(* start: first the listener ... *)
AddRoleListener ==
    /\ sPc = "off"
    /\ sPc' = "listens"
    /\ listening' = TRUE
    /\ UNCHANGED <<poolVars, role, call, todo, changes>>

(* ... then the role the node may have had before. *)
StartIfLeader ==
    /\ sPc = "listens"
    /\ sPc' = "on"
    /\ IF isLeader THEN RoleChanged("service", "leader") ELSE UNCHANGED <<call, todo>>
    /\ UNCHANGED <<poolVars, role, listening, changes>>

RemoveRoleListener ==
    /\ sPc = "on"
    /\ call["service"] = "none"
    /\ sPc' = "deaf"
    /\ listening' = FALSE
    /\ UNCHANGED <<poolVars, role, call, todo, changes>>

StopIfLeader ==
    /\ sPc = "deaf"
    /\ sPc' = "stopped"
    /\ IF isLeader THEN RoleChanged("service", "follower") ELSE UNCHANGED <<call, todo>>
    /\ UNCHANGED <<poolVars, role, listening, changes>>

GoThrough(t, q) ==
    /\ todo' = [todo EXCEPT ![t] = @ \ {q}]
    /\ call' = [call EXCEPT ![t] = IF todo[t] = {q} THEN "none" ELSE @]

Made(q) == {k \in 1..MaxWorkers : <<q, k>> \in DOMAIN workers}

(* startAll: the factory makes a worker, and it puts its task in the pool. *)
StartNext(t, q) ==
    LET worker == <<q, Cardinality(Made(q)) + 1>>
    IN  /\ call[t] = "startAll"
        /\ poolOpen
        /\ Cardinality(Made(q)) < MaxWorkers
        /\ workers' = [w \in DOMAIN workers \cup {worker} |->
                          IF w = worker THEN Started(NewWorker) ELSE workers[w]]
        /\ GoThrough(t, q)
        /\ UNCHANGED <<poolOpen, role, listening, sPc, changes>>

(* The pool rejects the task: startAll and roleChanged throw. *)
StartRejected(t) ==
    /\ call[t] = "startAll"
    /\ ~poolOpen
    /\ call' = [call EXCEPT ![t] = "none"]
    /\ todo' = [todo EXCEPT ![t] = {}]
    /\ UNCHANGED <<poolVars, role, listening, sPc, changes>>

(* stopAll: the worker that is stopped is a new one as well, so all that   *)
(* is left of its stop is that the pool is shut down.                      *)
StopNext(t, q) ==
    /\ call[t] = "stopAll"
    /\ poolOpen' = FALSE
    /\ GoThrough(t, q)
    /\ UNCHANGED <<workers, role, listening, sPc, changes>>

RunPool == PoolStep /\ UNCHANGED restOfNode

CallStep(t) == StartRejected(t) \/ \E q \in todo[t] : StartNext(t, q) \/ StopNext(t, q)

ServiceStep == AddRoleListener \/ StartIfLeader \/ StopIfLeader

Next ==
    \/ ChangeRole
    \/ ServiceStep
    \/ RemoveRoleListener
    \/ \E t \in Threads : CallStep(t)
    \/ RunPool

Spec == Init /\ [][Next]_leaderVars

-----------------------------------------------------------------------------
(* A node that has lost the election, and has dealt with the loss, begins  *)
(* to republish nothing.                                                   *)
DeposedIsQuiet ==
    [][\A w \in DOMAIN workers :
          (~isLeader /\ call["raft"] = "none" /\ call["service"] = "none" /\ sPc = "on"
              /\ workers[w].task # "republishing")
              => workers'[w].task # "republishing"]_leaderVars
=============================================================================
