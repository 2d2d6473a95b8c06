-------------------------- MODULE WorkerLifecycle --------------------------
(***************************************************************************)
(* The goroutines of one Worker (pkg/bullmq/worker_impl.go, worker.go):    *)
(* the main loop of Start, one processJob goroutine per job, a caller of   *)
(* Stop, and whoever cancels the context given to Start.  They meet in     *)
(* activeSemaphore (a channel used as a counter), the WaitGroup wg,        *)
(* shutdownChan and the context, which every Redis command of the worker   *)
(* is sent with: under a cancelled context a command fails unsent.         *)
(*                                                                         *)
(* What Redis knows of a job is reduced to where its id is; Worker.tla     *)
(* has the commands one by one, and their other failures.  The processor   *)
(* gets no context, so a cancellation does not end it.                     *)
(***************************************************************************)
EXTENDS Naturals, FiniteSets

CONSTANTS
  Jobs,         \* jobs in the queue, each picked up at most once
  Concurrency   \* capacity of activeSemaphore

ASSUME LifecycleAssumption == IsFiniteSet(Jobs) /\ Concurrency \in Nat

VARIABLES
  main,        \* the goroutine that called Start
  picked,      \* jobID of its pickupJob, a set of at most one
  run,         \* the processJob goroutine of a job
  place,       \* the key the id is in, "nowhere" between two keys
  sem,         \* len(activeSemaphore)
  wg,          \* counter of the WaitGroup
  stop,        \* the caller of Stop
  cancelled,   \* the context of Start is cancelled
  late         \* jobs taken from the queue since Stop or the cancellation

vars == <<main, picked, run, place, sem, wg, stop, cancelled, late>>

TypeOK ==
  /\ main \in {"new", "loop", "pop", "lock", "activate", "spawn", "giveback",
               "drain", "returned", "timedout"}
  /\ picked \subseteq Jobs
  /\ run \in [Jobs -> {"none", "load", "work", "leave", "record", "release", "done", "gone"}]
  /\ place \in [Jobs -> {"queued", "nowhere", "active", "recorded"}]
  /\ sem \in Nat /\ wg \in Nat /\ late \in Nat
  /\ stop \in {"idle", "waiting", "returned"}
  /\ cancelled \in BOOLEAN

Init ==
  /\ main = "new"
  /\ picked = {}
  /\ run = [j \in Jobs |-> "none"]
  /\ place = [j \in Jobs |-> "queued"]
  /\ sem = 0 /\ wg = 0 /\ late = 0
  /\ stop = "idle"
  /\ cancelled = FALSE

Stopping == cancelled \/ stop # "idle"

-----------------------------------------------------------------------------
\* The main loop.

Start ==
  /\ main = "new"
  /\ main' = "loop"
  /\ UNCHANGED <<picked, run, place, sem, wg, stop, cancelled, late>>

\* The outer select takes a case that is ready before the default.
SeeShutdown ==
  /\ main = "loop" /\ Stopping
  /\ main' = "drain"
  /\ UNCHANGED <<picked, run, place, sem, wg, stop, cancelled, late>>

\* Mutation: capacity is looked at before the shutdown.
AcquireFirst ==
  /\ main = "loop"
  /\ sem < Concurrency
  /\ sem' = sem + 1
  /\ main' = "pop"
  /\ UNCHANGED <<picked, run, place, wg, stop, cancelled, late>>

\* The inner select; without capacity the loop sleeps and comes back.
Acquire ==
  /\ main = "loop" /\ ~Stopping
  /\ sem < Concurrency
  /\ sem' = sem + 1
  /\ main' = "pop"
  /\ UNCHANGED <<picked, run, place, wg, stop, cancelled, late>>

\* pickupJob up to the pop: the queue may be paused or empty.
Pop ==
  /\ main = "pop"
  /\ \/ /\ main' = "giveback"
        /\ UNCHANGED <<picked, place, late>>
     \/ /\ ~cancelled
        /\ \E j \in Jobs : /\ place[j] = "queued"
                           /\ place' = [place EXCEPT ![j] = "nowhere"]
                           /\ picked' = {j}
        /\ late' = IF Stopping THEN late + 1 ELSE late
        /\ main' = "lock"
  /\ UNCHANGED <<run, sem, wg, stop, cancelled>>

\* SETEX.  When it fails the popped id is forgotten.
Lock ==
  /\ main = "lock"
  /\ \/ ~cancelled /\ main' = "activate" /\ UNCHANGED picked
     \/ cancelled /\ main' = "giveback" /\ picked' = {}
  /\ UNCHANGED <<run, place, sem, wg, stop, cancelled, late>>

\* LPUSH active.
Activate ==
  /\ main = "activate"
  /\ \/ /\ ~cancelled
        /\ main' = "spawn"
        /\ place' = [j \in Jobs |-> IF j \in picked THEN "active" ELSE place[j]]
        /\ UNCHANGED picked
     \/ /\ cancelled
        /\ main' = "giveback"
        /\ picked' = {}
        /\ UNCHANGED place
  /\ UNCHANGED <<run, sem, wg, stop, cancelled, late>>

\* Mutation: the WaitGroup is not told.
SpawnUncounted ==
  /\ main = "spawn"
  /\ run' = [j \in Jobs |-> IF j \in picked THEN "load" ELSE run[j]]
  /\ picked' = {}
  /\ main' = "loop"
  /\ UNCHANGED <<place, sem, wg, stop, cancelled, late>>

\* wg.Add(1); go processJob.
Spawn ==
  /\ main = "spawn"
  /\ run' = [j \in Jobs |-> IF j \in picked THEN "load" ELSE run[j]]
  /\ wg' = wg + 1
  /\ picked' = {}
  /\ main' = "loop"
  /\ UNCHANGED <<place, sem, stop, cancelled, late>>

\* Mutation: the failed pickup is counted off the WaitGroup too.
GiveBackDone ==
  /\ main = "giveback"
  /\ sem > 0
  /\ sem' = sem - 1
  /\ wg' = wg - 1
  /\ main' = "loop"
  /\ UNCHANGED <<picked, run, place, stop, cancelled, late>>

\* The release after a failed pickup.
GiveBack ==
  /\ main = "giveback"
  /\ sem > 0
  /\ sem' = sem - 1
  /\ main' = "loop"
  /\ UNCHANGED <<picked, run, place, wg, stop, cancelled, late>>

\* gracefulShutdown: the WaitGroup or the timer, whichever comes first.
Drained ==
  /\ main = "drain" /\ wg = 0
  /\ main' = "returned"
  /\ UNCHANGED <<picked, run, place, sem, wg, stop, cancelled, late>>

\* Mutation: the timer waits for the WaitGroup.
TimeOutDrained ==
  /\ main = "drain" /\ wg = 0
  /\ main' = "timedout"
  /\ UNCHANGED <<picked, run, place, sem, wg, stop, cancelled, late>>

TimeOut ==
  /\ main = "drain"
  /\ main' = "timedout"
  /\ UNCHANGED <<picked, run, place, sem, wg, stop, cancelled, late>>

MainStep == \/ Start \/ SeeShutdown \/ Acquire \/ Pop \/ Lock \/ Activate
            \/ Spawn \/ GiveBack \/ Drained \/ TimeOut

-----------------------------------------------------------------------------
\* processJob.

RunGoes(j, label) == run' = [run EXCEPT ![j] = label]

\* Mutation: the early return keeps the semaphore.
LoadLeaks(j) ==
  /\ run[j] = "load"
  /\ RunGoes(j, IF cancelled THEN "done" ELSE "work")
  /\ UNCHANGED <<main, picked, place, sem, wg, stop, cancelled, late>>

Load(j) ==
  /\ run[j] = "load"
  /\ RunGoes(j, IF cancelled THEN "release" ELSE "work")
  /\ UNCHANGED <<main, picked, place, sem, wg, stop, cancelled, late>>

Process(j) ==
  /\ run[j] = "work"
  /\ RunGoes(j, "leave")
  /\ UNCHANGED <<main, picked, place, sem, wg, stop, cancelled, late>>

\* LREM active, the first command of Complete, moveToFailed and retryJob.
Leave(j) ==
  /\ run[j] = "leave"
  /\ RunGoes(j, IF cancelled THEN "release" ELSE "record")
  /\ place' = [place EXCEPT ![j] = IF cancelled THEN @ ELSE "nowhere"]
  /\ UNCHANGED <<main, picked, sem, wg, stop, cancelled, late>>

\* ZADD to completed, failed or delayed, or DEL.
Record(j) ==
  /\ run[j] = "record"
  /\ RunGoes(j, "release")
  /\ place' = [place EXCEPT ![j] = IF cancelled THEN @ ELSE "recorded"]
  /\ UNCHANGED <<main, picked, sem, wg, stop, cancelled, late>>

\* The deferred functions, last one first: release the semaphore, then wg.Done.
Release(j) ==
  /\ run[j] = "release"
  /\ sem > 0
  /\ sem' = sem - 1
  /\ RunGoes(j, "done")
  /\ UNCHANGED <<main, picked, place, wg, stop, cancelled, late>>

\* Mutation: wg.Done is forgotten.
DoneUncounted(j) ==
  /\ run[j] = "done"
  /\ RunGoes(j, "gone")
  /\ UNCHANGED <<main, picked, place, sem, wg, stop, cancelled, late>>

Done(j) ==
  /\ run[j] = "done"
  /\ wg' = wg - 1
  /\ RunGoes(j, "gone")
  /\ UNCHANGED <<main, picked, place, sem, stop, cancelled, late>>

RunStep(j) == Load(j) \/ Process(j) \/ Leave(j) \/ Record(j) \/ Release(j) \/ Done(j)

-----------------------------------------------------------------------------
\* Stop closes shutdownChan and waits; a second call would panic and is not made.
CallStop ==
  /\ stop = "idle"
  /\ stop' = "waiting"
  /\ UNCHANGED <<main, picked, run, place, sem, wg, cancelled, late>>

StopReturns ==
  /\ stop = "waiting" /\ wg = 0
  /\ stop' = "returned"
  /\ UNCHANGED <<main, picked, run, place, sem, wg, cancelled, late>>

Cancel ==
  /\ ~cancelled
  /\ cancelled' = TRUE
  /\ UNCHANGED <<main, picked, run, place, sem, wg, stop, late>>

Next == MainStep \/ (\E j \in Jobs : RunStep(j)) \/ CallStop \/ StopReturns \/ Cancel

Spec == Init /\ [][Next]_vars

\* Goroutines are scheduled and a timer fires; a processor need not return, and nobody has
\* to stop the worker.
Fairness ==
  /\ WF_vars(MainStep)
  /\ WF_vars(StopReturns)
  /\ \A j \in Jobs : WF_vars(Load(j) \/ Leave(j) \/ Record(j) \/ Release(j) \/ Done(j))

FairSpec == Spec /\ Fairness

-----------------------------------------------------------------------------
(* Properties *)

\* The places taken in the semaphore are those of the pickup in progress and of the
\* goroutines that have not released theirs: a place is neither leaked by one of the ways
\* pickupJob and processJob end, nor given back twice, which would block the releaser.
MainHolds == main \in {"pop", "lock", "activate", "spawn", "giveback"}
Holders == { j \in Jobs : run[j] \in {"load", "work", "leave", "record", "release"} }
SlotsAccounted ==
  /\ sem = Cardinality(Holders) + (IF MainHolds THEN 1 ELSE 0)
  /\ sem <= Concurrency

\* Start returns without an error only when no goroutine of a job is left, and no job was
\* begun and not recorded, unless the cancelled context kept its commands from being sent.
Settled(j) == place[j] \in {"queued", "recorded"}
ReturnedSettled ==
  main = "returned" => /\ \A j \in Jobs : run[j] \in {"none", "gone"}
                       /\ ~cancelled => \A j \in Jobs : Settled(j)

\* After Stop or the cancellation the worker takes at most one more job.
LastPickup == late <= 1

\* Start returns once it is told to, whatever the processors do.
StartReturns == main # "new" /\ Stopping ~> main \in {"returned", "timedout"}

\* If every processor returns, so does Stop.
StopEnds ==
  (\A j \in Jobs : run[j] = "work" ~> run[j] # "work")
    => (stop = "waiting" ~> stop = "returned")

\* spec.md:469: "Graceful shutdown completes active jobs or requeues them".
ShutdownCompletes == main = "returned" => \A j \in Jobs : Settled(j)
=============================================================================
