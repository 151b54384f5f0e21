----------------------------- MODULE RepairPool -----------------------------
(***************************************************************************)
(* The repair workers of a node and the executor they share                *)
(* (RepairWorkerImpl.start, stop, schedule, process; the pool comes from   *)
(* RepairWorkerModule).  A worker runs as a task that puts itself back     *)
(* into the pool after every pass.  What a pass does to the tables is in   *)
(* RepairWorker; here a pass is what it asks of its flag and of the pool.  *)
(***************************************************************************)
EXTENDS Integers, FiniteSets

CONSTANT
    PoolSize        \* threads of the executor

ASSUME PoolSizeAssumption == PoolSize \in Nat \ {0}

VARIABLES
    poolOpen,       \* the executor has not been shut down
    workers         \* the workers of the node, by a name

poolVars == <<poolOpen, workers>>

Passing == {"looking", "waiting", "republishing"}

NewWorker == [isStarted |-> FALSE, task |-> "none"]

IsWorkerTable(table) ==
    table \in [DOMAIN table -> [isStarted : BOOLEAN, task : Passing \cup {"none", "delayed"}]]

PoolTypeOK == poolOpen \in BOOLEAN /\ IsWorkerTable(workers)

PoolInit == poolOpen = TRUE /\ workers = [w \in {} |-> NewWorker]

(* Mutant: nobody asks whether the pool was shut down. *)
AlwaysScheduled(worker) == [worker EXCEPT !.task = "delayed"]

(* schedule: a pool that was shut down takes no new task. *)
Scheduled(worker) == [worker EXCEPT !.task = IF poolOpen THEN "delayed" ELSE "none"]

Started(worker) == Scheduled([worker EXCEPT !.isStarted = TRUE])

Stopped(worker) == [worker EXCEPT !.isStarted = FALSE]

Busy == {w \in DOMAIN workers : workers[w].task \in Passing}

SetTask(w, task) == workers' = [workers EXCEPT ![w] = [@ EXCEPT !.task = task]]

(* The finally of process. *)
EndPass(w) == workers' = [workers EXCEPT ![w] = Scheduled(@)]

-----------------------------------------------------------------------------
(* A delayed task is due and a thread is free.  Tasks that are in the pool *)
(* when it is shut down are still run.                                     *)
BeginPass(w) ==
    /\ workers[w].task = "delayed"
    /\ Cardinality(Busy) < PoolSize
    /\ SetTask(w, "looking")
    /\ UNCHANGED poolOpen

(* findFirstBucketToMonitor: a stopped worker finds nothing. *)
FindBucket(w) ==
    /\ workers[w].task = "looking"
    /\ \/ EndPass(w)
       \/ workers[w].isStarted /\ SetTask(w, "waiting")
    /\ UNCHANGED poolOpen

(* watchBucket after waitForTimeout *)
EndWait(w) ==
    /\ workers[w].task = "waiting"
    /\ IF workers[w].isStarted THEN SetTask(w, "republishing") ELSE EndPass(w)
    /\ UNCHANGED poolOpen

(* advance, or an exception that process logs *)
EndRepublishing(w) ==
    /\ workers[w].task = "republishing"
    /\ EndPass(w)
    /\ UNCHANGED poolOpen

(* Mutant: an exception ends the task. *)
FailedForGood(w) ==
    /\ workers[w].task = "looking"
    /\ SetTask(w, "none")
    /\ UNCHANGED poolOpen

(* The tables cannot be read. *)
PassFails(w) ==
    /\ workers[w].task = "looking"
    /\ EndPass(w)
    /\ UNCHANGED poolOpen

PassStep(w) == FindBucket(w) \/ EndWait(w) \/ EndRepublishing(w) \/ PassFails(w)

PoolStep == \E w \in DOMAIN workers : BeginPass(w) \/ PassStep(w)

-----------------------------------------------------------------------------
(* A worker that was started stays in the pool, whatever its passes meet:  *)
(* its queue is polled until the pool is shut down.                        *)
StartedWorkersPoll == poolOpen => \A w \in DOMAIN workers : workers[w].isStarted => workers[w].task # "none"

(* A pool that was shut down runs empty, so that its threads end and the   *)
(* process with them.                                                      *)
ShutPoolDrains == ~poolOpen ~> (poolOpen \/ \A w \in DOMAIN workers : workers[w].task = "none")

(* How far a task is from the end of its pass. *)
StepsLeft == [delayed |-> 4, looking |-> 3, waiting |-> 2, republishing |-> 1, none |-> 0]

(* After the shutdown the passes that were due are gone through once: no   *)
(* worker and no task is added, and no pass starts over, although every    *)
(* pass ends with the order for the next one.                              *)
ShutPoolWindsDown ==
    [][~poolOpen /\ ~poolOpen' =>
          /\ DOMAIN workers' = DOMAIN workers
          /\ \A w \in DOMAIN workers : StepsLeft[workers'[w].task] <= StepsLeft[workers[w].task]]_poolVars
=============================================================================
