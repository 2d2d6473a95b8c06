----------------------------- MODULE Heartbeat -----------------------------
(***************************************************************************)
(* HeartbeatManager (pkg/bullmq/heartbeat.go) of one worker process: the   *)
(* map activeLocks, keyed by job id and guarded by a mutex, and one        *)
(* heartbeat goroutine per processJob call.  StartHeartbeat and            *)
(* StopHeartbeat hold the mutex throughout, so each is one step; a         *)
(* cancelled goroutine notices its context later, at its next select, and  *)
(* then runs its deferred StopHeartbeat.                                   *)
(*                                                                         *)
(* A call names its lock token, its heartbeat goroutine and the cancel     *)
(* function of its context.  The Redis commands of a call are reduced to   *)
(* what they do to the lock.  The interval timer is not modelled: a live   *)
(* loop is taken to renew the lock in time.                                *)
(***************************************************************************)
EXTENDS Naturals

CONSTANTS
  Jobs,
  Calls,       \* calls of processJob, each made once
  JobOf,       \* the job of a call
  None,        \* no entry in activeLocks, no lock
  Handout      \* when the queue hands a job to this worker again: "any" time, when earlier
               \* calls of it have "returned", or when their heartbeats are "gone" too

ASSUME HeartbeatAssumption ==
  /\ JobOf \in [Calls -> Jobs]
  /\ None \notin Calls
  /\ Handout \in [Jobs -> {"any", "returned", "gone"}]

VARIABLES
  call,          \* progress of processJob
  loop,          \* the goroutine of heartbeatLoop
  cancelled,     \* calls whose heartbeat context was cancelled by its cancel function
  ctxDone,       \* the context of Start, the parent of all of them, is cancelled
  activeLocks,   \* hm.activeLocks: the call whose cancel function is stored
  lock           \* the lock key of a job: the call whose token it has

vars == <<call, loop, cancelled, ctxDone, activeLocks, lock>>

TypeOK ==
  /\ call \in [Calls -> {"new", "locked", "processing", "settled", "returned"}]
  /\ loop \in [Calls -> {"none", "running", "exiting", "gone"}]
  /\ cancelled \subseteq Calls
  /\ ctxDone \in BOOLEAN
  /\ activeLocks \in [Jobs -> Calls \cup {None}]
  /\ lock \in [Jobs -> Calls \cup {None}]

Init ==
  /\ call = [c \in Calls |-> "new"]
  /\ loop = [c \in Calls |-> "none"]
  /\ cancelled = {}
  /\ ctxDone = FALSE
  /\ activeLocks = [j \in Jobs |-> None]
  /\ lock = [j \in Jobs |-> None]

-----------------------------------------------------------------------------
Entry(j)     == { c \in Calls : activeLocks[j] = c }
Cancelled(c) == c \in cancelled \/ ctxDone
Beating(c)   == loop[c] = "running" /\ ~Cancelled(c)

\* acquireLockAndActivate.  With Handout "any" the job may be one that this worker is
\* still processing: its lock lapsed and a checker requeued it.
Pickup(c) ==
  /\ call[c] = "new"
  /\ \A d \in Calls : JobOf[d] = JobOf[c] /\ d # c =>
       /\ Handout[JobOf[c]] # "any" => call[d] \in {"new", "returned"}
       /\ Handout[JobOf[c]] = "gone" => loop[d] \in {"none", "gone"}
  /\ call' = [call EXCEPT ![c] = "locked"]
  /\ lock' = [lock EXCEPT ![JobOf[c]] = c]
  /\ UNCHANGED <<loop, cancelled, ctxDone, activeLocks>>

\* Mutation: the entry that is there is overwritten without a cancel.
StartHeartbeatOver(c) ==
  /\ call[c] = "locked"
  /\ call' = [call EXCEPT ![c] = "processing"]
  /\ activeLocks' = [activeLocks EXCEPT ![JobOf[c]] = c]
  /\ loop' = [loop EXCEPT ![c] = "running"]
  /\ UNCHANGED <<cancelled, ctxDone, lock>>

\* Mutation: the new cancel function is stored before the old one is looked up.
StartHeartbeatSwapped(c) ==
  /\ call[c] = "locked"
  /\ call' = [call EXCEPT ![c] = "processing"]
  /\ cancelled' = cancelled \cup {c}
  /\ activeLocks' = [activeLocks EXCEPT ![JobOf[c]] = c]
  /\ loop' = [loop EXCEPT ![c] = "running"]
  /\ UNCHANGED <<ctxDone, lock>>

StartHeartbeat(c) ==
  /\ call[c] = "locked"
  /\ call' = [call EXCEPT ![c] = "processing"]
  /\ cancelled' = cancelled \cup Entry(JobOf[c])
  /\ activeLocks' = [activeLocks EXCEPT ![JobOf[c]] = c]
  /\ loop' = [loop EXCEPT ![c] = "running"]
  /\ UNCHANGED <<ctxDone, lock>>

\* Mutation: the entry is deleted without a cancel.
StopHeartbeatOnly(j) ==
  /\ activeLocks' = [activeLocks EXCEPT ![j] = None]
  /\ UNCHANGED cancelled

\* StopHeartbeat looks the entry up by job id: it may be the one of another call.
StopHeartbeat(j) ==
  /\ cancelled' = cancelled \cup Entry(j)
  /\ activeLocks' = [activeLocks EXCEPT ![j] = None]

\* The processor returned; Complete and moveToFailed delete the lock, retryJob leaves it.
Settle(c) ==
  /\ call[c] = "processing"
  /\ call' = [call EXCEPT ![c] = "settled"]
  /\ \/ lock' = [lock EXCEPT ![JobOf[c]] = None]
     \/ UNCHANGED lock
  /\ UNCHANGED <<loop, cancelled, ctxDone, activeLocks>>

\* The deferred StopHeartbeat of processJob.
Return(c) ==
  /\ call[c] = "settled"
  /\ call' = [call EXCEPT ![c] = "returned"]
  /\ StopHeartbeat(JobOf[c])
  /\ UNCHANGED <<loop, ctxDone, lock>>

\* heartbeatLoop sees ctx.Done; extendLock may be in flight until then.
Notice(c) ==
  /\ loop[c] = "running" /\ Cancelled(c)
  /\ loop' = [loop EXCEPT ![c] = "exiting"]
  /\ UNCHANGED <<call, cancelled, ctxDone, activeLocks, lock>>

\* The deferred StopHeartbeat of heartbeatLoop.
ExitLoop(c) ==
  /\ loop[c] = "exiting"
  /\ loop' = [loop EXCEPT ![c] = "gone"]
  /\ StopHeartbeat(JobOf[c])
  /\ UNCHANGED <<call, ctxDone, lock>>

\* The TTL of a lock runs out.  A live loop would have extended it (its token matches), and
\* the time from SETEX to StartHeartbeat is short against the TTL.
LockLapses(j) ==
  /\ lock[j] # None
  /\ ~Beating(lock[j]) /\ call[lock[j]] # "locked"
  /\ lock' = [lock EXCEPT ![j] = None]
  /\ UNCHANGED <<call, loop, cancelled, ctxDone, activeLocks>>

\* The worker is shut down by its context: all heartbeats end, no processor does.
CancelContext ==
  /\ ~ctxDone
  /\ ctxDone' = TRUE
  /\ UNCHANGED <<call, loop, cancelled, activeLocks, lock>>

Next ==
  \/ \E c \in Calls : \/ Pickup(c) \/ StartHeartbeat(c) \/ Settle(c) \/ Return(c)
                      \/ Notice(c) \/ ExitLoop(c)
  \/ \E j \in Jobs : LockLapses(j)
  \/ CancelContext

Spec == Init /\ [][Next]_vars

\* Goroutines are scheduled and processors return; no job has to arrive, no lock to lapse.
FairSpec ==
  /\ Spec
  /\ \A c \in Calls : WF_vars(StartHeartbeat(c) \/ Settle(c) \/ Return(c))
  /\ \A c \in Calls : WF_vars(Notice(c) \/ ExitLoop(c))

-----------------------------------------------------------------------------
(* Properties *)

\* A heartbeat that nobody cancelled is the one that activeLocks can cancel: none is
\* orphaned by the calls of StartHeartbeat and StopHeartbeat from two kinds of goroutine.
NoOrphanLoop == \A c \in Calls : Beating(c) => activeLocks[JobOf[c]] = c

\* When a job comes back to the worker only after its earlier heartbeats are gone, a call
\* keeps its heartbeat, and so its lock, until the processor returned or the worker is shut
\* down by its context.
HasLock(c) == Beating(c) /\ lock[JobOf[c]] = c
LockKept ==
  ~ctxDone => \A c \in Calls :
                call[c] = "processing" /\ Handout[JobOf[c]] = "gone" => HasLock(c)

\* No goroutine leaks: the heartbeat of a call that returned goes away.
LoopsEnd == \A c \in Calls : call[c] = "returned" ~> loop[c] = "gone"

\* spec.md:120: "Heartbeat attempts continue until job completes or lock expires".
HeartbeatUntilDone ==
  ~ctxDone => \A c \in Calls : call[c] = "processing" /\ lock[JobOf[c]] = c => Beating(c)
=============================================================================
