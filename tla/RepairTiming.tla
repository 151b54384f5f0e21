---------------------------- MODULE RepairTiming ----------------------------
(***************************************************************************)
(* The wait of the repair worker (RepairWorkerImpl.waitForTimeout) in      *)
(* milliseconds.  The worker compares the time in the tombstone, written   *)
(* by the clock of the node that closed the bucket, with its own clock,    *)
(* drops the fraction of a second, and sleeps for whole seconds.           *)
(***************************************************************************)
EXTENDS Integers

CONSTANTS
    RepairTimeout,  \* BucketConfiguration.repairWorkerTimeout
    LongestWrite,   \* bound: from taking an index to the row being there
    LongestDelay,   \* bound: the initial invisibility of a message
    ClockSkew       \* bound: the difference between the clocks of two nodes

ASSUME TimingAssumption ==
    RepairTimeout \in Nat /\ LongestWrite \in Nat /\ LongestDelay \in Nat /\ ClockSkew \in Nat

-----------------------------------------------------------------------------
Second == 1000

SecondsBetween(from, to) ==
    IF from <= to THEN (to - from) \div Second ELSE -((from - to) \div Second)

SleepFor(now, tombstonedAt) ==
    LET seconds == SecondsBetween(now, tombstonedAt + RepairTimeout)
    IN  IF seconds > 0 THEN seconds * Second ELSE 0

(* The earliest moment, on the clock of the worker, at which it reads the bucket. *)
ReadsAt(now, tombstonedAt) == now + SleepFor(now, tombstonedAt)

-----------------------------------------------------------------------------
(* What the worker can count on: what began before the tombstone and takes *)
(* no longer than this is over when the bucket is read.                    *)
Outlasts(duration) == duration + ClockSkew + Second <= RepairTimeout

(* No put is still on its way into the bucket. *)
TimeoutOutlastsWrites == Outlasts(LongestWrite)

(* No message of it waits for its initial invisibility, which the clock of *)
(* a third node began to count when the row was written.                   *)
TimeoutOutlastsDelays == Outlasts(LongestWrite + LongestDelay + ClockSkew)
=============================================================================
