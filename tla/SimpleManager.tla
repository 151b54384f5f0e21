--------------------------- MODULE SimpleManager ----------------------------
(***************************************************************************)
(* Starting and stopping the repair workers of a node, as the service does *)
(* (SimpleRepairWorkerManager, called by Startup): one worker per queue    *)
(* that exists when the node starts, started and stopped one after the     *)
(* other while their passes run, and queues created meanwhile.             *)
(***************************************************************************)
EXTENDS RepairPool

CONSTANTS
    Queues,         \* names of queues
    MaxRestarts     \* bound: restarts of the node, after a stop or a crash

ASSUME RestartsAssumption == MaxRestarts \in Nat

VARIABLES
    queues,         \* table queue: the queues that exist
    mPc,            \* what the manager does
    todo,           \* the workers it has yet to start or to stop
    restarts

restOfManager == <<queues, mPc, todo, restarts>>
managerVars == <<poolVars, restOfManager>>

TypeOK ==
    /\ PoolTypeOK
    /\ DOMAIN workers \subseteq queues
    /\ queues \subseteq Queues
    /\ mPc \in {"off", "starting", "on", "stopping", "stopped"}
    /\ todo \subseteq DOMAIN workers
    /\ restarts \in 0..MaxRestarts

Init ==
    /\ PoolInit
    /\ queues = {}
    /\ mPc = "off"
    /\ todo = {}
    /\ restarts = 0

CreateQueue(q) ==
    /\ q \notin queues
    /\ queues' = queues \cup {q}
    /\ UNCHANGED <<poolVars, mPc, todo, restarts>>

(* start: the list of workers *)
Start ==
    /\ mPc = "off"
    /\ workers' = [q \in queues |-> NewWorker]
    /\ todo' = queues
    /\ mPc' = IF queues = {} THEN "on" ELSE "starting"
    /\ UNCHANGED <<poolOpen, queues, restarts>>

GoThrough(q, over) ==
    /\ todo' = todo \ {q}
    /\ mPc' = IF todo = {q} THEN over ELSE mPc

StartWorker(q) ==
    /\ mPc = "starting"
    /\ workers' = [workers EXCEPT ![q] = Started(@)]
    /\ GoThrough(q, "on")
    /\ UNCHANGED <<poolOpen, queues, restarts>>

Stop ==
    /\ mPc = "on"
    /\ todo' = DOMAIN workers
    /\ mPc' = IF DOMAIN workers = {} THEN "stopped" ELSE "stopping"
    /\ UNCHANGED <<poolVars, queues, restarts>>

(* Mutant: the manager stops workers it has just asked the factory for, as *)
(* LeaderBasedRepairWorker does.                                           *)
StopFreshWorker(q) ==
    /\ mPc = "stopping"
    /\ poolOpen' = FALSE
    /\ GoThrough(q, "stopped")
    /\ UNCHANGED <<workers, queues, restarts>>

(* Every worker shuts down the executor it shares with the others. *)
StopWorker(q) ==
    /\ mPc = "stopping"
    /\ workers' = [workers EXCEPT ![q] = Stopped(@)]
    /\ poolOpen' = FALSE
    /\ GoThrough(q, "stopped")
    /\ UNCHANGED <<queues, restarts>>

(* Mutant: the list of the manager before outlives the restart. *)
RestartHalfway ==
    /\ mPc # "off"
    /\ restarts < MaxRestarts
    /\ restarts' = restarts + 1
    /\ poolOpen' = TRUE
    /\ workers' = [q \in {} |-> NewWorker]
    /\ mPc' = "off"
    /\ UNCHANGED <<queues, todo>>

(* The process ends, stopped or not, and is started again. *)
Restart ==
    /\ mPc # "off"
    /\ restarts < MaxRestarts
    /\ restarts' = restarts + 1
    /\ poolOpen' = TRUE
    /\ workers' = [q \in {} |-> NewWorker]
    /\ mPc' = "off"
    /\ todo' = {}
    /\ UNCHANGED queues

RunPool == PoolStep /\ UNCHANGED restOfManager
BeginPassOf(q) == q \in DOMAIN workers /\ BeginPass(q) /\ UNCHANGED restOfManager
PassOf(q) == q \in DOMAIN workers /\ PassStep(q) /\ UNCHANGED restOfManager

ManagerStep == Start \/ \E q \in todo : StartWorker(q) \/ StopWorker(q)

Next ==
    \/ \E q \in Queues : CreateQueue(q)
    \/ ManagerStep
    \/ Stop
    \/ Restart
    \/ RunPool

Spec == Init /\ [][Next]_managerVars

(* The manager runs on, passes end, and no task is left in the pool while  *)
(* others come and go: the executor takes them in the order in which they  *)
(* are due.                                                                *)
FairSpec ==
    /\ Spec
    /\ WF_managerVars(ManagerStep)
    /\ \A q \in Queues :
        /\ WF_managerVars(PassOf(q))
        /\ SF_managerVars(BeginPassOf(q))

-----------------------------------------------------------------------------
(* Once stop has returned no pass begins to republish: every worker that   *)
(* may still be waiting has been told.                                     *)
QuietAfterStop ==
    [][\A w \in DOMAIN workers :
          mPc = "stopped" /\ workers[w].task # "republishing" /\ w \in DOMAIN workers'
              => workers'[w].task # "republishing"]_managerVars


(* While the service is up, every queue that exists is repaired, as the    *)
(* documentation says.  The code leaves out queues created after start.    *)
EveryQueueIsRepaired ==
    \A q \in Queues :
        (q \in queues /\ mPc = "on")
            ~> (mPc # "on" \/ (q \in DOMAIN workers /\ workers[q].task \in Passing))
=============================================================================
