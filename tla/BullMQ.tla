------------------------------- MODULE BullMQ -------------------------------
(***************************************************************************)
(* One queue with its producers, workers and stalled-job checkers, sharing *)
(* nothing but the keys in Redis.  Adds to the components the events no    *)
(* component chooses: a lock's TTL runs out, a worker process dies and     *)
(* comes back, a command fails.                                            *)
(***************************************************************************)
EXTENDS Producer, Worker, StalledChecker

CONSTANTS
  LocksOutliveHolder,  \* TRUE: heartbeats never let the lock of a running job lapse
  Limits,              \* how often each kind of `spent` may happen
  Unlimited

Kinds == {"crash", "fault", "scan", "pause"}

ASSUME BullMQAssumption ==
  /\ LocksOutliveHolder \in BOOLEAN
  /\ Limits \in [Kinds -> Nat \cup {Unlimited}]
  /\ Unlimited \notin Nat

\* History variables: no action of the system reads them, except `spent` for its bounds.
VARIABLES
  atRisk,    \* ids whose only holder died, or whose deciding command failed
  overrun,   \* jobs each worker popped since the queue was paused
  spent      \* events so far, of those with a limit

history == <<atRisk, overrun, spent>>
vars == <<keys, add, slotVars, checkerVars, history>>

TypeOK ==
  /\ KeysTypeOK /\ ProducerTypeOK /\ WorkerTypeOK /\ CheckerTypeOK
  /\ atRisk \subseteq Jobs
  /\ overrun \in [Workers -> Nat]
  /\ spent \in [Kinds -> Nat]

Init ==
  /\ KeysInit /\ ProducerInit /\ WorkerInit /\ CheckerInit
  /\ atRisk = {}
  /\ overrun = [w \in Workers |-> 0]
  /\ spent = [k \in Kinds |-> 0]

Spend(kind) ==
  \/ Limits[kind] = Unlimited /\ UNCHANGED spent
  \/ /\ Limits[kind] # Unlimited
     /\ spent[kind] < Limits[kind]
     /\ spent' = [spent EXCEPT ![kind] = @ + 1]

-----------------------------------------------------------------------------
\* An id in one of these places of a slot or a checker may be in no key at all.
SlotHolds(s, j) ==
  job[s] = j /\ pc[s] \in {"setex", "activate", "returnvalue", "remove", "completed",
                           "failrelease", "failed", "faildel", "delay"}
CheckerHolds(w, j) == cjob[w] = j /\ chk[w] \in {"zadd", "lpush"}

HeldBy(w) == { j \in Jobs : \/ \E s \in Slots : WorkerOf[s] = w /\ SlotHolds(s, j)
                            \/ CheckerHolds(w, j) }

Add(j) ==
  /\ StoreJobHash(j) \/ EnqueueJob(j)
  /\ UNCHANGED <<slotVars, checkerVars, history>>

PauseQueue ==
  /\ Spend("pause")
  /\ Pause
  /\ UNCHANGED <<slotVars, checkerVars, atRisk, overrun>>

ResumeQueue ==
  /\ Resume
  /\ overrun' = [w \in Workers |-> 0]
  /\ UNCHANGED <<slotVars, checkerVars, atRisk, spent>>

Work(s) ==
  /\ SlotStep(s)
  /\ overrun' = [overrun EXCEPT ![WorkerOf[s]] =
                   IF paused /\ pc[s] # "setex" /\ pc'[s] = "setex" THEN @ + 1 ELSE @]
  /\ UNCHANGED <<add, checkerVars, atRisk, spent>>

StartScan(w) ==
  /\ Spend("scan")
  /\ Scan(w)
  /\ UNCHANGED <<add, slotVars, atRisk, overrun>>

Check(w) ==
  /\ CheckerStep(w)
  /\ UNCHANGED <<add, slotVars, history>>

\* The TTL set by SETEX runs out (no, or too few, heartbeats since).
LockExpires(j) ==
  /\ lock[j] # NoLock
  /\ LocksOutliveHolder => job[lock[j]] # j
  /\ DelLock(j)
  /\ UNCHANGED <<pending, active, finished, hashes, paused, add, slotVars, checkerVars, history>>

\* The process of w dies with its slots and its checker, and is started again.
Crash(w) ==
  /\ Spend("crash")
  /\ atRisk' = atRisk \cup HeldBy(w)
  /\ pc' = [s \in Slots |-> IF WorkerOf[s] = w THEN "idle" ELSE pc[s]]
  /\ job' = [s \in Slots |-> IF WorkerOf[s] = w THEN NoJob ELSE job[s]]
  /\ tries' = [s \in Slots |-> IF WorkerOf[s] = w THEN 0 ELSE tries[s]]
  /\ cfg' = [s \in Slots |-> IF WorkerOf[s] = w THEN ZeroOptions ELSE cfg[s]]
  /\ GoOn(w, Nobody)
  /\ UNCHANGED <<keys, add, overrun>>

\* A command fails.  The ids that are lost by that are those of the failing LPUSH, ZADD or
\* DEL that was to decide where the job goes, and the id in a lost reply of a pop.
AddFails(j) ==
  /\ Spend("fault")
  /\ EnqueueFails(j)
  /\ UNCHANGED <<slotVars, checkerVars, atRisk, overrun>>

WorkFails(s) ==
  /\ Spend("fault")
  /\ \/ /\ PopReplyLost(s)
        /\ atRisk' = atRisk \cup (prioritized \ prioritized')
                            \cup (IF wait' # wait THEN {WaitTail} ELSE {})
     \/ /\ CommandFails(s)
        /\ atRisk' = atRisk \cup { j \in Jobs : /\ SlotHolds(s, j)
                                                /\ pc[s] \notin {"returnvalue", "failrelease"} }
  /\ UNCHANGED <<add, checkerVars, overrun>>

CheckFails(w) ==
  /\ Spend("fault")
  /\ CheckerCommandFails(w)
  /\ atRisk' = atRisk \cup { j \in Jobs : CheckerHolds(w, j) }
  /\ UNCHANGED <<add, slotVars, overrun>>

Next ==
  \/ \E j \in Jobs : Add(j) \/ LockExpires(j) \/ AddFails(j)
  \/ PauseQueue \/ ResumeQueue
  \/ \E s \in Slots : Work(s) \/ WorkFails(s)
  \/ \E w \in Workers : StartScan(w) \/ Check(w) \/ Crash(w) \/ CheckFails(w)

Spec == Init /\ [][Next]_vars

\* The scheduler runs every goroutine, the processor returns, a TTL that nothing renews
\* runs out, the ticker of the checker goes on.  Producers and failures owe nothing.
Fairness ==
  /\ \A s \in Slots : WF_vars(Work(s))
  /\ \A w \in Workers : WF_vars(StartScan(w)) /\ WF_vars(Check(w))
  /\ \A j \in Jobs : WF_vars(LockExpires(j))

FairSpec == Spec /\ Fairness

-----------------------------------------------------------------------------
(* Properties *)

Recorded(j) == \/ InWait(j) \/ j \in prioritized \/ j \in delayed
               \/ active[j] > 0 \/ j \in completed \/ j \in failed

\* A job that Add reported as queued is in one of the six lists or sets, or a live slot or
\* checker is between the two commands that move it, until its hash is deleted: whatever the
\* order of workers, checkers and lapsing locks, and however often it was queued again.
\* Only a crash or a failing command inside such a window (`atRisk`) may lose it.
Kept(j) == \/ Recorded(j)
           \/ \E s \in Slots : SlotHolds(s, j)
           \/ \E w \in Workers : CheckerHolds(w, j)
Conserved(j) == add[j] = "added" /\ "job" \in hash[j] /\ j \notin atRisk => Kept(j)
JobConserved == \A j \in Jobs : Conserved(j)

\* No two slots run the processor on the same job.
Exclusive ==
  \A s, t \in Slots : s # t /\ pc[s] = "work" /\ pc[t] = "work" => job[s] # job[t]

\* While the processor runs, the job is in `active` and its lock is this slot's own, so
\* that a scan of any checker leaves it alone.
LockCoversWork ==
  \A s \in Slots : pc[s] = "work" => lock[job[s]] = s /\ active[job[s]] = 1

\* A paused queue hands at most one more job to each worker: the one its main loop was
\* popping when Pause came.
PauseOverrun == \A w \in Workers : overrun[w] <= 1

\* While a job has its hash, its retry counter never passes its Attempts option, or the 2
\* that a recovery by the stalled checker writes: in Redis and in the memory of every slot
\* that holds the job.  (What a stray HSET leaves of a deleted hash has a counter and no
\* options: the next run of such a job is its last, whatever the counter.)
Bound(o) == IF o.attempts > 2 THEN o.attempts ELSE 2
Counted(j) ==
  "job" \in hash[j] => /\ attemptsMade[j] <= Bound(opts[j])
                       /\ \A s \in Slots : job[s] = j => tries[s] <= Bound(opts[j])
AttemptsBounded == \A j \in Jobs : Counted(j)

\* Every job that was queued gets to the end of a processor run, or is lost in one of the
\* windows of `atRisk`: it comes to rest in completed, failed or delayed, or is deleted.
AtRest(j) == j \in completed \cup failed \cup delayed \cup atRisk \/ hash[j] = {}
Settles == \A j \in Jobs : add[j] = "added" ~> AtRest(j)

\* The queue keeps the promises of JobCustody: each command is one step of it, or none.  A
\* keeper is a slot or the checker of a worker, and what it has in hand is the id between
\* the command that took it from a key and the one that decides where it goes.
Keepers == ({"slot"} \X Slots) \cup ({"checker"} \X Workers)
SlotHand(s)    == IF SlotHolds(s, job[s]) THEN job[s] ELSE NoJob
CheckerHand(w) == IF CheckerHolds(w, cjob[w]) THEN cjob[w] ELSE NoJob
InHand(k)      == IF k[1] = "slot" THEN SlotHand(k[2]) ELSE CheckerHand(k[2])
PhaseOf(j) == IF add[j] # "added" THEN "new" ELSE IF "job" \in hash[j] THEN "owed" ELSE "gone"
Custody == INSTANCE JobCustody WITH
             Nothing <- NoJob, lost <- atRisk,
             phase <- [j \in Jobs |-> PhaseOf(j)],
             stored <- { j \in Jobs : Recorded(j) },
             hands <- [k \in Keepers |-> InHand(k)]
CustodyKept == Custody!Spec
=============================================================================
