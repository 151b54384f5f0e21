------------------------- MODULE LeaderManagerProofs -------------------------
(***************************************************************************)
(* What holds of the workers of an elected node, although two threads      *)
(* start and stop them: nobody who was started is told to stop (so that    *)
(* the run deposed_leader finds what it finds), and all that a loss of the *)
(* role does to them is to shut the pool, for good.                        *)
(***************************************************************************)
EXTENDS LeaderManager, RepairPoolProofs

(* Started workers are never told: stopAll tells new ones. *)
NobodyIsTold == \A w \in DOMAIN workers : workers[w].isStarted

LeaderInv ==
    /\ PoolTypeOK
    /\ StartedWorkersPoll
    /\ NobodyIsTold

LEMMA InitLeader == Init => LeaderInv
BY DEF Init, PoolInit, LeaderInv, PoolTypeOK, IsWorkerTable, StartedWorkersPoll, NobodyIsTold

(* startAll makes one worker, with a task, and keeps the others. *)
LEMMA StartNextInv ==
    ASSUME LeaderInv, NEW t \in Threads, NEW q \in todo[t], StartNext(t, q)
    PROVE  LeaderInv' /\ poolOpen
<1> DEFINE worker == <<q, Cardinality(Made(q)) + 1>>
           made == Started(NewWorker)
<1>1. poolOpen /\ UNCHANGED poolOpen
  BY DEF StartNext
<1>2. /\ made \in [isStarted : BOOLEAN, task : Passing \cup {"none", "delayed"}]
      /\ made.isStarted
      /\ made.task # "none"
  BY <1>1 DEF Started, Scheduled, NewWorker
<1>3. workers' = [w \in DOMAIN workers \cup {worker} |-> IF w = worker THEN made ELSE workers[w]]
  BY DEF StartNext
<1> HIDE DEF worker, made
<1>4. /\ DOMAIN workers' = DOMAIN workers \cup {worker}
      /\ \A w \in DOMAIN workers' : workers'[w] = made \/ (w \in DOMAIN workers /\ workers'[w] = workers[w])
      /\ workers' = [w \in DOMAIN workers' |-> workers'[w]]
  BY <1>3
<1>5. PoolTypeOK'
  <2>1. \A w \in DOMAIN workers' :
            workers'[w] \in [isStarted : BOOLEAN, task : Passing \cup {"none", "delayed"}]
    BY <1>2, <1>4 DEF LeaderInv, PoolTypeOK, IsWorkerTable
  <2>2. poolOpen' \in BOOLEAN
    BY <1>1 DEF LeaderInv, PoolTypeOK
  <2> QED BY <1>4, <2>1, <2>2 DEF PoolTypeOK, IsWorkerTable
<1>6. StartedWorkersPoll' /\ NobodyIsTold'
  BY <1>1, <1>2, <1>4 DEF LeaderInv, StartedWorkersPoll, NobodyIsTold
<1> QED BY <1>1, <1>5, <1>6 DEF LeaderInv

(* The other steps of the two threads keep the table of workers. *)
LEMMA OtherSteps ==
    ASSUME ChangeRole \/ ServiceStep \/ RemoveRoleListener
           \/ \E t \in Threads : StartRejected(t) \/ \E q \in todo[t] : StopNext(t, q)
    PROVE  UNCHANGED workers /\ (UNCHANGED poolOpen \/ poolOpen' = FALSE)
BY DEF ChangeRole, ServiceStep, AddRoleListener, StartIfLeader, StopIfLeader, RemoveRoleListener,
       StartRejected, StopNext, poolVars

LEMMA RunPoolLeader == LeaderInv /\ RunPool => LeaderInv'
<1> SUFFICES ASSUME LeaderInv, RunPool PROVE LeaderInv'
  OBVIOUS
<1>1. PICK w \in DOMAIN workers : BeginPass(w) \/ PassStep(w)
  BY DEF RunPool, PoolStep
<1>2. NobodyIsTold'
  BY <1>1, PassEffect DEF LeaderInv, NobodyIsTold
<1> QED BY <1>2, PoolStepEffect DEF RunPool, LeaderInv

LEMMA StepLeader == LeaderInv /\ [Next]_leaderVars => LeaderInv'
<1> SUFFICES ASSUME LeaderInv, [Next]_leaderVars PROVE LeaderInv'
  OBVIOUS
<1>1. CASE UNCHANGED workers /\ (UNCHANGED poolOpen \/ poolOpen' = FALSE)
  <2>1. poolOpen' \in BOOLEAN /\ (poolOpen' => poolOpen)
    <3>1. poolOpen \in BOOLEAN
      BY DEF LeaderInv, PoolTypeOK
    <3>2. CASE UNCHANGED poolOpen
      BY <3>1, <3>2
    <3>3. CASE poolOpen' = FALSE
      BY <3>3
    <3> QED BY <1>1, <3>2, <3>3
  <2>2. IsWorkerTable(workers)' /\ NobodyIsTold'
    BY <1>1 DEF LeaderInv, PoolTypeOK, IsWorkerTable, NobodyIsTold
  <2>3. StartedWorkersPoll'
    BY <1>1, <2>1 DEF LeaderInv, StartedWorkersPoll
  <2> QED BY <2>1, <2>2, <2>3 DEF LeaderInv, PoolTypeOK
<1>2. UNCHANGED leaderVars => UNCHANGED poolVars
  BY DEF leaderVars
<1> QED BY <1>1, <1>2, StartNextInv, OtherSteps, RunPoolLeader DEF Next, CallStep, poolVars

(* However roles change while the service starts and stops, a worker that  *)
(* was started stays in the pool until the pool is shut down.              *)
THEOREM LeaderWorkersPoll == Spec => []StartedWorkersPoll
<1>1. LeaderInv => StartedWorkersPoll
  BY DEF LeaderInv
<1> QED BY <1>1, InitLeader, StepLeader, PTL DEF Spec

(* None of them is ever told to stop, deposed or not.                      *)
THEOREM LeaderTellsNobody == Spec => []NobodyIsTold
<1>1. LeaderInv => NobodyIsTold
  BY DEF LeaderInv
<1> QED BY <1>1, InitLeader, StepLeader, PTL DEF Spec

(* A node that was deposed once with its listener on, or ran for election, *)
(* has repaired its last bucket but for the passes that were due: its pool *)
(* is shut for good, and no later election makes a worker.                 *)
THEOREM DeposedForGood == Spec => ShutPoolWindsDown /\ [][~poolOpen => ~poolOpen']_leaderVars
<1> DEFINE windsDown ==
        ~poolOpen /\ ~poolOpen' =>
            /\ DOMAIN workers' = DOMAIN workers
            /\ \A w \in DOMAIN workers : StepsLeft[workers'[w].task] <= StepsLeft[workers[w].task]
<1>1. LeaderInv /\ [Next]_leaderVars => [windsDown]_poolVars /\ [~poolOpen => ~poolOpen']_leaderVars
  <2> SUFFICES ASSUME LeaderInv, Next, ~poolOpen
               PROVE  ~poolOpen' /\ windsDown
    BY DEF leaderVars, poolVars
  <2>1. \A w \in DOMAIN workers : StepsLeft[workers[w].task] \in Nat
    BY DEF LeaderInv, PoolTypeOK, IsWorkerTable, StepsLeft, Passing
  <2>2. CASE UNCHANGED workers /\ (UNCHANGED poolOpen \/ poolOpen' = FALSE)
    BY <2>1, <2>2
  <2>3. CASE RunPool
    BY <2>3, PoolStepEffect DEF RunPool, LeaderInv
  <2> QED BY <2>2, <2>3, StartNextInv, OtherSteps DEF Next, CallStep
<1> QED BY <1>1, InitLeader, StepLeader, PTL DEF Spec, ShutPoolWindsDown
=============================================================================
