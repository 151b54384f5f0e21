------------------------ MODULE SimpleManagerProofs -------------------------
EXTENDS SimpleManager, RepairPoolProofs

(***************************************************************************)
(* What stop() can promise: the workers the manager has gone through have  *)
(* been told, and a pass asks its flag before it republishes.              *)
(***************************************************************************)

(* Workers that the manager has passed while it stops them are stopped.    *)
ToldToStop ==
    /\ mPc = "stopping" => \A w \in DOMAIN workers \ todo : ~workers[w].isStarted
    /\ mPc = "stopped" => \A w \in DOMAIN workers : ~workers[w].isStarted

(* Only stop shuts the pool down, so that no worker is started with a pool *)
(* that takes no task.                                                     *)
OpenUntilStop == mPc \in {"off", "starting", "on"} => poolOpen

(* The invariant of the theorems below. *)
PoolInv ==
    /\ TypeOK
    /\ StartedWorkersPoll
    /\ ToldToStop
    /\ OpenUntilStop

LEMMA InitPool == Init => PoolInv
BY RestartsAssumption
   DEF Init, PoolInit, PoolInv, TypeOK, PoolTypeOK, IsWorkerTable, StartedWorkersPoll, ToldToStop, OpenUntilStop

LEMMA RunPoolInv == PoolInv /\ RunPool => PoolInv'
<1> SUFFICES ASSUME PoolInv, RunPool PROVE PoolInv'
  OBVIOUS
<1>1. PICK w \in DOMAIN workers : BeginPass(w) \/ PassStep(w)
  BY DEF RunPool, PoolStep
<1>2. UNCHANGED restOfManager /\ PoolTypeOK
  BY DEF RunPool, PoolInv, TypeOK
<1> QED BY <1>1, <1>2, PassEffect
        DEF restOfManager, PoolInv, TypeOK, PoolTypeOK, StartedWorkersPoll, ToldToStop, OpenUntilStop

LEMMA ManagerInv == PoolInv /\ ManagerStep => PoolInv'
<1> SUFFICES ASSUME PoolInv, ManagerStep PROVE PoolInv'
  OBVIOUS
<1> USE DEF PoolInv, TypeOK, PoolTypeOK, IsWorkerTable, StartedWorkersPoll, ToldToStop, OpenUntilStop
<1>1. CASE Start
  BY <1>1 DEF Start, NewWorker
<1>2. ASSUME NEW q \in todo, StartWorker(q) PROVE PoolInv'
  BY <1>2 DEF StartWorker, GoThrough, Started, Scheduled
<1>3. ASSUME NEW q \in todo, StopWorker(q) PROVE PoolInv'
  BY <1>3 DEF StopWorker, GoThrough, Stopped
<1> QED BY <1>1, <1>2, <1>3 DEF ManagerStep

LEMMA StepPool == PoolInv /\ [Next]_managerVars => PoolInv'
<1> SUFFICES ASSUME PoolInv, [Next]_managerVars PROVE PoolInv'
  OBVIOUS
<1>1. ASSUME NEW q \in Queues, CreateQueue(q) PROVE PoolInv'
  BY <1>1 DEF CreateQueue, poolVars, PoolInv, TypeOK, PoolTypeOK, StartedWorkersPoll, ToldToStop, OpenUntilStop
<1>2. CASE Stop
  BY <1>2 DEF Stop, poolVars, PoolInv, TypeOK, PoolTypeOK, StartedWorkersPoll, ToldToStop, OpenUntilStop
<1>3. CASE Restart
  BY <1>3, RestartsAssumption
     DEF Restart, PoolInv, TypeOK, PoolTypeOK, IsWorkerTable, StartedWorkersPoll, ToldToStop, OpenUntilStop
<1>4. CASE UNCHANGED managerVars
  BY <1>4 DEF managerVars, restOfManager, poolVars, PoolInv, TypeOK, PoolTypeOK, StartedWorkersPoll, ToldToStop, OpenUntilStop
<1> QED BY <1>1, <1>2, <1>3, <1>4, RunPoolInv, ManagerInv DEF Next

(* The manager goes through workers it has, of queues that exist: what it  *)
(* had left to do when the node went down is forgotten with the workers.   *)
THEOREM ManagerTypes == Spec => []TypeOK
<1>1. PoolInv => TypeOK
  BY DEF PoolInv
<1> QED BY <1>1, InitPool, StepPool, PTL DEF Spec

(* However passes fail and queues come, a started worker stays in the pool *)
(* until it is shut down.                                                  *)
THEOREM WorkersPoll == Spec => []StartedWorkersPoll
<1>1. PoolInv => StartedWorkersPoll
  BY DEF PoolInv
<1> QED BY <1>1, InitPool, StepPool, PTL DEF Spec

(* No pass begins to republish once stop has returned, on any node with    *)
(* any number of queues and threads.                                       *)
THEOREM StopIsQuiet == Spec => QuietAfterStop
<1> DEFINE quiet == \A w \in DOMAIN workers :
                        mPc = "stopped" /\ workers[w].task # "republishing" /\ w \in DOMAIN workers'
                            => workers'[w].task # "republishing"
<1>1. PoolInv /\ [Next]_managerVars => [quiet]_managerVars
  <2> SUFFICES ASSUME PoolInv, Next,
                      NEW w \in DOMAIN workers, mPc = "stopped",
                      workers[w].task # "republishing", w \in DOMAIN workers'
               PROVE  workers'[w].task # "republishing"
    OBVIOUS
  <2>1. ~workers[w].isStarted /\ PoolTypeOK
    BY DEF PoolInv, TypeOK, ToldToStop
  <2>2. CASE UNCHANGED workers
    BY <2>2
  <2>3. ~Start /\ ~Stop /\ \A q \in todo : ~StartWorker(q) /\ ~StopWorker(q)
    BY DEF Start, Stop, StartWorker, StopWorker
  <2>4. CASE Restart
    BY <2>4 DEF Restart
  <2>5. CASE RunPool
    BY <2>1, <2>5, PassEffect DEF RunPool, PoolStep
  <2>6. \A q \in Queues : CreateQueue(q) => UNCHANGED workers
    BY DEF CreateQueue, poolVars
  <2> QED BY <2>2, <2>3, <2>4, <2>5, <2>6 DEF Next, ManagerStep
<1> QED BY <1>1, InitPool, StepPool, PTL DEF Spec, QuietAfterStop

(* Once shut, the pool of a node only finishes what was due, each pass at  *)
(* most once: what is left of ShutPoolDrains without fairness.             *)
THEOREM ShutPoolOnlyFinishes == Spec => ShutPoolWindsDown
<1> DEFINE windsDown ==
        ~poolOpen /\ ~poolOpen' =>
            /\ DOMAIN workers' = DOMAIN workers
            /\ \A w \in DOMAIN workers : StepsLeft[workers'[w].task] <= StepsLeft[workers[w].task]
<1>1. PoolInv /\ [Next]_managerVars => [windsDown]_poolVars
  <2> SUFFICES ASSUME PoolInv, Next, ~poolOpen, ~poolOpen'
               PROVE  windsDown
    BY DEF managerVars, poolVars
  <2>1. mPc \in {"stopping", "stopped"} /\ PoolTypeOK /\ StartedWorkersPoll
    BY DEF PoolInv, TypeOK, OpenUntilStop
  <2>2. \A w \in DOMAIN workers : StepsLeft[workers[w].task] \in Nat
    BY <2>1 DEF PoolTypeOK, IsWorkerTable, StepsLeft, Passing
  <2>3. ~Start /\ ~Stop /\ ~Restart /\ \A q \in todo : ~StartWorker(q)
    BY <2>1 DEF Start, Stop, Restart, StartWorker
  <2>4. ASSUME NEW q \in todo, StopWorker(q) PROVE windsDown
    <3>1. /\ DOMAIN workers' = DOMAIN workers
          /\ \A w \in DOMAIN workers : workers'[w].task = workers[w].task
      BY <2>1, <2>4 DEF StopWorker, Stopped, PoolTypeOK, IsWorkerTable
    <3> QED BY <3>1, <2>2
  <2>5. CASE RunPool
    BY <2>1, <2>5, PoolStepEffect DEF RunPool
  <2>6. \A q \in Queues : CreateQueue(q) => windsDown
    BY <2>2 DEF CreateQueue, poolVars
  <2> QED BY <2>3, <2>4, <2>5, <2>6 DEF Next, ManagerStep
<1> QED BY <1>1, InitPool, StepPool, PTL DEF Spec, ShutPoolWindsDown
=============================================================================
