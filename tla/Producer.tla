------------------------------ MODULE Producer ------------------------------
(***************************************************************************)
(* Queue.Add, Queue.Pause and Queue.Resume (pkg/bullmq/queue_impl.go).     *)
(* Add stores the job hash with one command and enqueues the id with a     *)
(* second one; a worker, another producer or an error can come between.    *)
(***************************************************************************)
EXTENDS RedisKeys

VARIABLE add     \* progress of the Add call that draws id j

AddStates == {"new", "stored", "added", "gaveup"}

ProducerTypeOK == add \in [Jobs -> AddStates]
ProducerInit   == add = [j \in Jobs |-> "new"]

\* BullMQ default of Add: no Attempts means one attempt.
WithDefaults(o) == IF o.attempts = 0 THEN [o EXCEPT !.attempts = 1] ELSE o

\* Mutation: Add goes on although its HSET failed.
StoreNothing(j) ==
  /\ add[j] = "new"
  /\ add' = [add EXCEPT ![j] = "stored"]
  /\ UNCHANGED keys

\* storeJobHash: one HSET with all fields.  Options that ValidateJobOptions rejects
\* return before any command is sent and are not in JobOptions.
StoreJobHash(j) ==
  /\ add[j] = "new"
  /\ \E o \in JobOptions : opts' = [opts EXCEPT ![j] = WithDefaults(o)]
  /\ hash' = [hash EXCEPT ![j] = {"job", "attemptsMade"}]
  /\ attemptsMade' = [attemptsMade EXCEPT ![j] = 0]
  /\ add' = [add EXCEPT ![j] = "stored"]
  /\ UNCHANGED <<pending, active, finished, lock, paused>>

\* enqueueJob: a delay wins over a priority, a priority over the wait list.
EnqueueJob(j) ==
  /\ add[j] = "stored"
  /\ add' = [add EXCEPT ![j] = "added"]
  /\ \/ /\ opts[j].delay
        /\ delayed' = delayed \cup {j}
        /\ UNCHANGED <<wait, prioritized>>
     \/ /\ ~opts[j].delay /\ opts[j].priority > 0
        /\ prioritized' = prioritized \cup {j}
        /\ UNCHANGED <<wait, delayed>>
     \/ /\ ~opts[j].delay /\ opts[j].priority = 0
        /\ LPushWait(j)
        /\ UNCHANGED <<prioritized, delayed>>
  /\ UNCHANGED <<active, finished, hashes, lock, paused>>

\* The command of enqueueJob fails: Add returns an error and leaves the hash behind.
EnqueueFails(j) ==
  /\ add[j] = "stored"
  /\ add' = [add EXCEPT ![j] = "gaveup"]
  /\ UNCHANGED keys

Pause ==
  /\ paused' = TRUE
  /\ UNCHANGED <<pending, active, finished, hashes, lock, add>>

Resume ==
  /\ paused
  /\ paused' = FALSE
  /\ UNCHANGED <<pending, active, finished, hashes, lock, add>>
=============================================================================
