------------------------------- MODULE Worker -------------------------------
(***************************************************************************)
(* The job loop of Worker (pkg/bullmq/worker_impl.go) and the Completer    *)
(* (pkg/bullmq/completer.go).  A slot is one place of activeSemaphore: it  *)
(* runs pickupJob in the worker's main loop, then processJob in its own    *)
(* goroutine, and sends its Redis commands one at a time.  pc[s] names the *)
(* command, or the processor call, that slot s is about to do.             *)
(*                                                                         *)
(* A lock token (UUID v4 per pickup) is the slot itself: a slot makes its  *)
(* next pickup only after it is done with the previous one.  The heartbeat *)
(* keeps no state here: it is what LockExpires of BullMQ.tla assumes.      *)
(***************************************************************************)
EXTENDS RedisKeys

CONSTANT WorkerOf     \* the worker a slot belongs to

ASSUME WorkerAssumption == WorkerOf \in [Slots -> Workers]

VARIABLES
  pc,      \* next command of the slot
  job,     \* jobID of pickupJob / processJob
  tries,   \* job.AttemptsMade in memory
  cfg      \* job.Opts in memory

slotVars == <<pc, job, tries, cfg>>

Pickup   == {"zpop", "rpop", "setex", "activate", "unlock"}
Finish   == {"complete", "returnvalue", "remove", "removelock", "completed", "release"}
Fail     == {"fail", "failrelease", "failed", "failreason", "faildel"}
Retry    == {"retry", "delay", "attempts"}
Labels   == {"idle", "load", "work"} \cup Pickup \cup Finish \cup Fail \cup Retry

WorkerTypeOK ==
  /\ pc \in [Slots -> Labels]
  /\ job \in [Slots -> Jobs \cup {NoJob}]
  /\ tries \in [Slots -> Nat]
  /\ cfg \in [Slots -> OptionsType]
  /\ \A s \in Slots : pc[s] \notin {"idle", "zpop", "rpop"} => job[s] \in Jobs

WorkerInit ==
  /\ pc = [s \in Slots |-> "idle"]
  /\ job = [s \in Slots |-> NoJob]
  /\ tries = [s \in Slots |-> 0]
  /\ cfg = [s \in Slots |-> ZeroOptions]

-----------------------------------------------------------------------------
\* The slot goes on with `label`; it forgets its job when it becomes idle.
Goto(s, label) ==
  /\ pc' = [pc EXCEPT ![s] = label]
  /\ IF label = "idle"
     THEN /\ job' = [job EXCEPT ![s] = NoJob]
          /\ tries' = [tries EXCEPT ![s] = 0]
          /\ cfg' = [cfg EXCEPT ![s] = ZeroOptions]
     ELSE UNCHANGED <<job, tries, cfg>>

\* The label after a command whose error the code ignores.
AfterReturnValue(s) == IF cfg[s].removeOnComplete THEN "remove" ELSE "completed"
AfterFailRelease(s) == IF cfg[s].removeOnFail THEN "faildel" ELSE "failed"
After(s) ==
  CASE pc[s] \in {"unlock", "release", "failreason", "faildel", "attempts"} -> "idle"
    [] pc[s] = "returnvalue" -> AfterReturnValue(s)
    [] pc[s] = "remove"      -> "removelock"
    [] pc[s] \in {"removelock", "completed"} -> "release"
    [] pc[s] = "fail"        -> "failrelease"
    [] pc[s] = "failrelease" -> AfterFailRelease(s)
    [] pc[s] = "failed"      -> "failreason"
    [] pc[s] = "retry"       -> "delay"
    [] pc[s] = "delay"       -> "attempts"

-----------------------------------------------------------------------------
\* Mutation: the paused flag is not looked at.
BeginPaused(s) ==
  /\ pc[s] = "idle"
  /\ \A t \in Slots : WorkerOf[t] = WorkerOf[s] => pc[t] \notin Pickup
  /\ Goto(s, "zpop")
  /\ UNCHANGED keys

\* pickupJob, run by the main loop of Start: one pickup of a worker at a time.
Begin(s) ==
  /\ pc[s] = "idle"
  /\ \A t \in Slots : WorkerOf[t] = WorkerOf[s] => pc[t] \notin Pickup
  /\ ~paused
  /\ Goto(s, "zpop")
  /\ UNCHANGED keys

\* The id that a pop returned is known to this slot only until it is in `active`.
Take(s, j) ==
  /\ pc' = [pc EXCEPT ![s] = "setex"]
  /\ job' = [job EXCEPT ![s] = j]
  /\ UNCHANGED <<tries, cfg>>

ZPopMin(s) ==
  /\ pc[s] = "zpop"
  /\ \/ \E j \in Foremost : /\ prioritized' = prioritized \ {j}
                            /\ Take(s, j)
     \/ /\ prioritized = {}
        /\ Goto(s, "rpop")
        /\ UNCHANGED prioritized
  /\ UNCHANGED <<wait, delayed, active, finished, hashes, lock, paused>>

RPop(s) ==
  /\ pc[s] = "rpop"
  /\ \/ /\ wait # << >>
        /\ RPopWait
        /\ Take(s, WaitTail)
     \/ /\ wait = << >>
        /\ Goto(s, "idle")
        /\ UNCHANGED wait
  /\ UNCHANGED <<prioritized, delayed, active, finished, hashes, lock, paused>>

\* acquireLockAndActivate: SETEX overwrites a lock that exists.
SetEx(s) ==
  /\ pc[s] = "setex"
  /\ SetLock(job[s], s)
  /\ Goto(s, "activate")
  /\ UNCHANGED <<pending, active, finished, hashes, paused>>

Activate(s) ==
  /\ pc[s] = "activate"
  /\ LPushActive(job[s])
  /\ Goto(s, "load")
  /\ UNCHANGED <<pending, finished, hashes, lock, paused>>

\* getJobData: a job whose hash is gone is dropped, with its lock and its entry in `active`.
\* A hash that only has the fields of a stray HSET loads as a job with zero options.
Load(s) ==
  /\ pc[s] = "load"
  /\ \/ /\ hash[job[s]] = {}
        /\ Goto(s, "idle")
     \/ /\ hash[job[s]] # {}
        /\ pc' = [pc EXCEPT ![s] = "work"]
        /\ tries' = [tries EXCEPT ![s] = attemptsMade[job[s]]]
        /\ cfg' = [cfg EXCEPT ![s] = opts[job[s]]]
        /\ UNCHANGED job
  /\ UNCHANGED keys

\* The processor returns a result.
Succeed(s) ==
  /\ pc[s] = "work"
  /\ Goto(s, "complete")
  /\ UNCHANGED keys

\* Mutation: > for >=.
GiveUpLate(s, permanent) == permanent \/ tries[s] > cfg[s].attempts

\* The processor returns an error: handleJobFailure decides between the failed set and a retry.
GiveUp(s, permanent) == permanent \/ tries[s] >= cfg[s].attempts
ProcessorFails(s) ==
  /\ pc[s] = "work"
  /\ \E permanent \in BOOLEAN :
       \/ /\ GiveUp(s, permanent)
          /\ Goto(s, "fail")
       \/ /\ ~GiveUp(s, permanent)
          /\ pc' = [pc EXCEPT ![s] = "retry"]
          /\ tries' = [tries EXCEPT ![s] = @ + 1]
          /\ UNCHANGED <<job, cfg>>
  /\ UNCHANGED keys

\* LREM active 1 id, the first command of Complete, moveToFailed and retryJob.
\* HSET returnvalue is skipped for a nil result.
LRem(s) ==
  /\ pc[s] \in {"complete", "fail", "retry"}
  /\ LRemActive(job[s])
  /\ \/ pc[s] = "complete" /\ \E next \in {"returnvalue", AfterReturnValue(s)} : Goto(s, next)
     \/ pc[s] # "complete" /\ Goto(s, After(s))
  /\ UNCHANGED <<pending, finished, hashes, lock, paused>>

\* HSET of returnvalue and finishedOn (Complete) or of failedReason (moveToFailed).
StoreResult(s) ==
  /\ pc[s] \in {"returnvalue", "failreason"}
  /\ HSetResult(job[s])
  /\ Goto(s, After(s))
  /\ UNCHANGED <<pending, active, finished, lock, paused>>

\* DEL of the job hash under removeOnComplete / removeOnFail.
RemoveHash(s) ==
  /\ pc[s] \in {"remove", "faildel"}
  /\ DelJob(job[s])
  /\ Goto(s, After(s))
  /\ UNCHANGED <<pending, active, finished, lock, paused>>

ZAddFinished(s) ==
  /\ \/ /\ pc[s] = "completed"
        /\ completed' = completed \cup {job[s]}
        /\ UNCHANGED failed
     \/ /\ pc[s] = "failed"
        /\ failed' = failed \cup {job[s]}
        /\ UNCHANGED completed
  /\ Goto(s, After(s))
  /\ UNCHANGED <<pending, active, hashes, lock, paused>>

\* DEL of the lock: whoever holds it, the token is not compared.
Unlock(s) ==
  /\ pc[s] \in {"removelock", "release", "failrelease", "unlock"}
  /\ DelLock(job[s])
  /\ Goto(s, After(s))
  /\ UNCHANGED <<pending, active, finished, hashes, paused>>

\* retryJob after its LREM: the lock is left to expire.
ZAddDelayed(s) ==
  /\ pc[s] = "delay"
  /\ delayed' = delayed \cup {job[s]}
  /\ Goto(s, After(s))
  /\ UNCHANGED <<wait, prioritized, active, finished, hashes, lock, paused>>

StoreAttempts(s) ==
  /\ pc[s] = "attempts"
  /\ HSetAttempts(job[s], tries[s])
  /\ Goto(s, After(s))
  /\ UNCHANGED <<pending, active, finished, lock, paused>>

SlotStep(s) ==
  \/ Begin(s) \/ ZPopMin(s) \/ RPop(s) \/ SetEx(s) \/ Activate(s) \/ Load(s)
  \/ Succeed(s) \/ ProcessorFails(s) \/ LRem(s) \/ StoreResult(s) \/ RemoveHash(s)
  \/ ZAddFinished(s) \/ Unlock(s) \/ ZAddDelayed(s) \/ StoreAttempts(s)

-----------------------------------------------------------------------------
\* Failing commands.

\* The pop is done but its reply is lost: pickupJob returns the error, nobody knows the id.
PopReplyLost(s) ==
  /\ \/ /\ pc[s] = "zpop"
        /\ \E j \in Foremost : prioritized' = prioritized \ {j}
        /\ UNCHANGED wait
     \/ /\ pc[s] = "rpop"
        /\ wait # << >>
        /\ RPopWait
        /\ UNCHANGED prioritized
  /\ Goto(s, "idle")
  /\ UNCHANGED <<delayed, active, finished, hashes, lock, paused>>

\* SETEX, HGETALL and the LREM of Complete return early; LPUSH goes on to delete the lock;
\* every other command of the slot goes on as if it had been done.
CommandFails(s) ==
  /\ pc[s] \notin {"idle", "zpop", "rpop", "work"}
  /\ Goto(s, IF pc[s] \in {"setex", "load", "complete"} THEN "idle"
             ELSE IF pc[s] = "activate" THEN "unlock" ELSE After(s))
  /\ UNCHANGED keys
=============================================================================
