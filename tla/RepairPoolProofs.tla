-------------------------- MODULE RepairPoolProofs ---------------------------
(***************************************************************************)
(* What the proofs about both managers need of the pool: the effect of a   *)
(* pass on the table of workers.                                           *)
(***************************************************************************)
EXTENDS RepairPool, TLAPS

(* What a pass does to its worker, and that it leaves the others alone.    *)
LEMMA PassEffect ==
    ASSUME PoolTypeOK, NEW w \in DOMAIN workers, BeginPass(w) \/ PassStep(w)
    PROVE  /\ UNCHANGED poolOpen
           /\ IsWorkerTable(workers')
           /\ DOMAIN workers' = DOMAIN workers
           /\ \A v \in DOMAIN workers : workers'[v].isStarted = workers[v].isStarted
           /\ \A v \in DOMAIN workers : v # w => workers'[v] = workers[v]
           /\ poolOpen => workers'[w].task # "none"
           /\ workers'[w].task = "republishing" => workers[w].isStarted
           /\ ~poolOpen => StepsLeft[workers'[w].task] < StepsLeft[workers[w].task]
<1> DEFINE tasks == Passing \cup {"none", "delayed"}
<1>1. \A t \in tasks : SetTask(w, t) =>
          /\ IsWorkerTable(workers')
          /\ DOMAIN workers' = DOMAIN workers
          /\ \A v \in DOMAIN workers : workers'[v].isStarted = workers[v].isStarted
          /\ \A v \in DOMAIN workers : v # w => workers'[v] = workers[v]
          /\ workers'[w].task = t
  BY DEF SetTask, PoolTypeOK, IsWorkerTable
<1>2. EndPass(w) => SetTask(w, IF poolOpen THEN "delayed" ELSE "none")
  BY DEF EndPass, SetTask, Scheduled
<1>3. CASE BeginPass(w)
  BY <1>1, <1>3 DEF BeginPass, Passing, StepsLeft
<1>4. CASE PassStep(w)
  BY <1>1, <1>2, <1>4 DEF PassStep, FindBucket, EndWait, EndRepublishing, PassFails, Passing, StepsLeft
<1> QED BY <1>3, <1>4

(* A step of the pool keeps its types and the workers that poll, and winds *)
(* it down once it is shut.                                                *)
LEMMA PoolStepEffect ==
    ASSUME PoolTypeOK, StartedWorkersPoll, PoolStep
    PROVE  /\ PoolTypeOK' /\ StartedWorkersPoll'
           /\ UNCHANGED poolOpen
           /\ DOMAIN workers' = DOMAIN workers
           /\ ~poolOpen => \A v \in DOMAIN workers : StepsLeft[workers'[v].task] <= StepsLeft[workers[v].task]
<1>1. PICK w \in DOMAIN workers : BeginPass(w) \/ PassStep(w)
  BY DEF PoolStep
<1>2. \A v \in DOMAIN workers : workers[v].task \in DOMAIN StepsLeft /\ workers'[v].task \in DOMAIN StepsLeft
  BY <1>1, PassEffect DEF PoolTypeOK, IsWorkerTable, StepsLeft, Passing
<1>3. \A t \in DOMAIN StepsLeft : StepsLeft[t] \in Nat
  BY DEF StepsLeft
<1>4. PoolTypeOK' /\ StartedWorkersPoll'
  BY <1>1, PassEffect DEF PoolTypeOK, StartedWorkersPoll
<1> QED BY <1>1, <1>2, <1>3, <1>4, PassEffect
=============================================================================
