----------------------------- MODULE LuaScripts -----------------------------
(***************************************************************************)
(* The Lua scripts moveToActive, moveToFinished, retryJob,                 *)
(* moveStalledJobsToWait and extendLock of pkg/bullmq/scripts/scripts.go.  *)
(* They are BullMQ's own protocol, on the keys that the Go client moves    *)
(* its jobs through with plain commands.  Redis runs a script as one       *)
(* atomic step: each is an action here, over the keys of RedisKeys and     *)
(* those that only the scripts use.                                        *)
(*                                                                         *)
(* Left out: parents and dependencies, deduplication, metrics, rate limits *)
(* (no code of the repository sets their fields), the marker key and the   *)
(* event stream (nothing reads them).  Clients pass their own clocks as    *)
(* timestamps, so that any delayed job of theirs may be due and any        *)
(* finished job be the oldest.                                             *)
(***************************************************************************)
EXTENDS RedisKeys, FiniteSets, Functions

CONSTANTS
  Foreign,       \* jobs whose hash has a priority field, as other BullMQ libraries write it
  KeepJobs,      \* the keepJobs options that callers of moveToFinished pass
  Concurrencies, \* values the field concurrency of meta may have, NoLimit if it is absent
  MaxStalled,    \* ARGV[1] of moveStalledJobsToWait
  Batch,         \* LIMIT of promoteDelayedJobs: 1000
  NoLimit

\* keepJobs.count, and whether there is a keepJobs.age.
KeepType == [count : Nat \cup {NoLimit}, age : BOOLEAN]

ASSUME ScriptsAssumption ==
  /\ IsFiniteSet(Jobs)
  /\ Foreign \subseteq Jobs
  /\ KeepJobs \subseteq KeepType
  /\ NoLimit \notin Nat
  /\ Concurrencies \subseteq Nat \cup {NoLimit}
  /\ MaxStalled \in Nat
  /\ Batch \in Nat \ {0}

VARIABLES
  parked,      \* LIST bull:q:paused
  stalled,     \* SET bull:q:stalled, the ids that were active at the last check
  checked,     \* bull:q:stalled-check exists
  ats, atm,    \* fields of a job: attempts started, attempts made
  stc,         \* field of a job: how often it stalled
  defa,        \* ids whose hash has a deferred failure
  concurrency  \* field of bull:q:meta; no code of the repository writes it

tallies    == <<ats, atm, stc, defa>>
scriptKeys == <<parked, stalled, checked, ats, atm, stc, defa, concurrency>>

ScriptsTypeOK ==
  /\ parked \in Seq(Jobs)
  /\ stalled \subseteq Jobs
  /\ checked \in BOOLEAN
  /\ ats \in [Jobs -> Nat] /\ atm \in [Jobs -> Nat] /\ stc \in [Jobs -> Nat]
  /\ defa \subseteq Jobs
  /\ concurrency \in Concurrencies

ScriptsInit ==
  /\ parked = << >>
  /\ stalled = {}
  /\ checked = FALSE
  /\ ats = [j \in Jobs |-> 0] /\ atm = [j \in Jobs |-> 0] /\ stc = [j \in Jobs |-> 0]
  /\ defa = {}
  /\ concurrency \in Concurrencies

-----------------------------------------------------------------------------
\* tonumber(HGET priority) or 0: the hashes of the Go client have no such field.
PriorityField(j) == IF j \in Foreign THEN opts[j].priority ELSE 0

\* The score of an id in `prioritized`: the Go client counts down from zero, the scripts up.
Score(j) == IF j \in Foreign THEN opts[j].priority ELSE -opts[j].priority

\* The orders in which a script may push a set of ids.
Orders(S) == Injection(1..Cardinality(S), S)

\* Writing fields of the scripts creates a hash that does not exist; DEL drops all its fields.
Written(h, S)         == [j \in Jobs |-> IF j \in S THEN h[j] \cup {"script"} ELSE h[j]]
Dropped(f, S, absent) == [j \in Jobs |-> IF j \in S THEN absent ELSE f[j]]

\* LLEN of a list that is kept as a bag.
LLen(bag) == Cardinality(UNION { {j} \X (1..bag[j]) : j \in Jobs })

\* Mutation: the active list may be one longer than the global concurrency.
PausedOrOver(act) == paused \/ (concurrency # NoLimit /\ LLen(act) > concurrency)
\* isQueuePausedOrMaxed, and the second result of getTargetQueueList.
PausedOrMaxed(act) == paused \/ (concurrency # NoLimit /\ LLen(act) >= concurrency)

-----------------------------------------------------------------------------
\* promoteDelayedJobs: a Go job's score is its due time in milliseconds, which is below
\* timestamp * 0x1000 at any time and below any score of other libraries, whose jobs wait
\* until they are due.
Promotable(due) ==
  /\ due \subseteq delayed
  /\ Cardinality(due) <= Batch
  /\ \/ delayed \ Foreign \subseteq due
     \/ due \cap Foreign = {} /\ Cardinality(due) = Batch

\* The keys after it: ids without a priority are pushed to the target list in order o.
Plain(due)       == { j \in due : PriorityField(j) = 0 }
WaitAfter(o)     == IF paused THEN wait ELSE o \o wait
ParkedAfter(o)   == IF paused THEN o \o parked ELSE parked
\* Mutation: ZADD for the ids without a priority, too.
PrioAfterAll(due) == prioritized \cup due
PrioAfter(due)   == prioritized \cup (due \ Plain(due))

\* RPOPLPUSH wait active, or else moveJobFromPrioritizedToActive.
Nexts(w, p) == IF w # << >> THEN { w[Len(w)] }
               ELSE { j \in p : \A k \in p : Score(j) <= Score(k) }

\* The second half of moveToActive, and of moveToFinished with "fetch next": the caller's
\* token s gets the lock of job `next`, or the script returns no job (NoJob).  The other
\* parameters are the keys as the first half of the script left them.
Hand(s, next, w, p, act, locks, started, h) ==
  \/ /\ next = NoJob
     /\ PausedOrMaxed(act) \/ Nexts(w, p) = {}
     /\ wait' = w /\ prioritized' = p /\ active' = act
     /\ lock' = locks /\ ats' = started /\ hash' = h
  \/ /\ next \in Nexts(w, p)
     /\ ~PausedOrMaxed(act)
     /\ wait' = IF w # << >> THEN SubSeq(w, 1, Len(w) - 1) ELSE w
     /\ prioritized' = IF w # << >> THEN p ELSE p \ {next}
     /\ active' = [act EXCEPT ![next] = @ + 1]
     /\ lock' = [locks EXCEPT ![next] = s]
     /\ ats' = [started EXCEPT ![next] = @ + 1]
     /\ hash' = Written(h, {next})

MoveToActive(s, next) ==
  /\ \E due \in SUBSET delayed : \E o \in Orders(Plain(due)) :
       /\ Promotable(due)
       /\ Hand(s, next, WaitAfter(o), PrioAfter(due), active, lock, ats, Written(hash, due))
       /\ parked' = ParkedAfter(o)
       /\ delayed' = delayed \ due
  /\ UNCHANGED <<finished, attemptsMade, opts, paused, stalled, checked, atm, stc, defa, concurrency>>

-----------------------------------------------------------------------------
\* Mutation: any token will do.
OwnsAny(s, j) == hash[j] # {} /\ lock[j] # NoLock
\* EXISTS of the job, and removeLock returns 0.  Otherwise the script returns -1, -2 or -6.
Owns(s, j) == hash[j] # {} /\ lock[j] = s

\* Mutation: the lock goes, the mark of the stalled check stays.
DelLockOnly(j) == DelLock(j) /\ UNCHANGED stalled
\* removeLock.  It comes before LREM: a script that then returns -3 leaves the lock deleted.
RemoveLock(j) ==
  /\ DelLock(j)
  /\ stalled' = stalled \ {j}

\* removeJobsByMaxAge and removeJobsByMaxCount: what may go from the set `done`.
Removable(done, keep) ==
  { gone \in SUBSET done :
      LET excess == IF keep.count \in Nat /\ Cardinality(done) > keep.count
                    THEN Cardinality(done) - keep.count ELSE 0
      IN Cardinality(gone) = excess \/ (keep.age /\ Cardinality(gone) > excess) }

\* The finished set and the removed ids: with a count of 0 the job is not even added.
Retention(done, j, keep) ==
  IF keep.count = 0 THEN { <<done, {j}>> }
  ELSE { <<(done \cup {j}) \ gone, gone>> : gone \in Removable(done \cup {j}, keep) }

\* moveToFinished of job j under token s into completed or failed; `next` as for Hand.
Finish(s, j, target, keep, fetch, next) ==
  LET done == IF target = "completed" THEN completed ELSE failed
      act  == [active EXCEPT ![j] = @ - 1]
      free == [lock EXCEPT ![j] = NoLock]
  IN \E r \in Retention(done, j, keep) :
       LET kept == r[1]
           gone == r[2]
           h    == Dropped([hash EXCEPT ![j] = @ \cup {"result", "script"}], gone, {})
           runs == Dropped(ats, gone, 0)
       IN /\ completed' = IF target = "completed" THEN kept ELSE completed
          /\ failed' = IF target = "failed" THEN kept ELSE failed
          /\ stalled' = stalled \ {j}
          /\ atm' = Dropped([atm EXCEPT ![j] = @ + 1], gone, 0)
          /\ stc' = Dropped(stc, gone, 0)
          /\ defa' = (IF target = "failed" THEN defa \ {j} ELSE defa) \ gone
          /\ attemptsMade' = Dropped(attemptsMade, gone, 0)
          /\ opts' = Dropped(opts, gone, ZeroOptions)
          /\ \/ /\ fetch
                /\ \E due \in SUBSET delayed : \E o \in Orders(Plain(due)) :
                     /\ Promotable(due)
                     /\ Hand(s, next, WaitAfter(o), PrioAfter(due), act, free, runs, Written(h, due))
                     /\ parked' = ParkedAfter(o)
                     /\ delayed' = delayed \ due
             \/ /\ ~fetch /\ next = NoJob
                /\ active' = act /\ lock' = free /\ ats' = runs /\ hash' = h
                /\ UNCHANGED <<pending, parked>>
          /\ UNCHANGED <<paused, checked, concurrency>>

MoveToFinished(s, j, target, keep, fetch, next) ==
  /\ Owns(s, j)
  /\ IF active[j] > 0
     THEN Finish(s, j, target, keep, fetch, next)
     ELSE /\ RemoveLock(j)
          /\ next = NoJob
          /\ UNCHANGED <<pending, active, finished, hashes, paused, parked, checked, tallies, concurrency>>

-----------------------------------------------------------------------------
\* addJobInTargetList and addJobWithPriority for a job that leaves `active`.
Requeued(j, o, due, lifo) ==
  LET pushed(list) == IF lifo THEN Append(list, j) ELSE <<j>> \o list
      plain == PriorityField(j) = 0
  IN /\ wait' = IF plain /\ ~paused THEN pushed(WaitAfter(o)) ELSE WaitAfter(o)
     /\ parked' = IF plain /\ paused THEN pushed(ParkedAfter(o)) ELSE ParkedAfter(o)
     /\ prioritized' = IF plain THEN PrioAfter(due) ELSE PrioAfter(due) \cup {j}

\* Mutation: the results of removeLock and of LREM are not looked at.
RetryJobBlindly(s, j, lifo) ==
  /\ \E due \in SUBSET delayed : \E o \in Orders(Plain(due)) :
       /\ Promotable(due)
       /\ delayed' = delayed \ due
       /\ Requeued(j, o, due, lifo)
       /\ active' = [active EXCEPT ![j] = @ - 1]
       /\ atm' = [atm EXCEPT ![j] = @ + 1]
       /\ hash' = Written(hash, due \cup {j})
  /\ RemoveLock(j)
  /\ UNCHANGED <<finished, attemptsMade, opts, paused, checked, ats, stc, defa, concurrency>>
\* Delayed jobs are promoted whether or not the caller owns the job.
RetryJob(s, j, lifo) ==
  /\ \E due \in SUBSET delayed : \E o \in Orders(Plain(due)) :
       /\ Promotable(due)
       /\ delayed' = delayed \ due
       /\ IF Owns(s, j) /\ active[j] > 0
          THEN /\ Requeued(j, o, due, lifo)
               /\ active' = [active EXCEPT ![j] = @ - 1]
               /\ atm' = [atm EXCEPT ![j] = @ + 1]
               /\ hash' = Written(hash, due \cup {j})
          ELSE /\ wait' = WaitAfter(o) /\ parked' = ParkedAfter(o)
               /\ prioritized' = PrioAfter(due)
               /\ hash' = Written(hash, due)
               /\ UNCHANGED <<active, atm>>
  /\ IF Owns(s, j) THEN RemoveLock(j) ELSE UNCHANGED <<lock, stalled>>
  /\ UNCHANGED <<finished, attemptsMade, opts, paused, checked, ats, stc, defa, concurrency>>

\* Mutation: EXISTS of the lock is not asked.
StallingLocked   == { j \in stalled : active[j] > 0 }
\* Mutation: the test of EXISTS is turned round.
StallingWhenHeld == { j \in stalled : lock[j] # NoLock /\ active[j] > 0 }
\* Marked by the check before this one, and without a lock now.
Stalling == { j \in stalled : lock[j] = NoLock /\ active[j] > 0 }

\* Mutation: HINCRBY of stc before the lock and the LREM are looked at.
StalledCountsAll(back) == [j \in Jobs |-> IF j \in stalled THEN stc[j] + 1 ELSE stc[j]]
StalledCounts(back) == [j \in Jobs |-> IF j \in back THEN stc[j] + 1 ELSE stc[j]]

\* Stalling jobs go back to the head of the queue; then all that are active are marked.
\* Nothing is done while the key stalled-check of an earlier call exists.
MoveStalledJobsToWait ==
  /\ ~checked
  /\ checked' = TRUE
  /\ \E o \in Orders(Stalling) :
       /\ wait' = IF paused THEN wait ELSE wait \o o
       /\ parked' = IF paused THEN parked \o o ELSE parked
  /\ active' = [j \in Jobs |-> IF j \in Stalling THEN active[j] - 1 ELSE active[j]]
  /\ stc' = StalledCounts(Stalling)
  /\ defa' = defa \cup { j \in Stalling : StalledCounts(Stalling)[j] > MaxStalled }
  /\ hash' = Written(hash, Stalling)
  /\ stalled' = { j \in Jobs : active'[j] > 0 }
  /\ UNCHANGED <<prioritized, delayed, finished, attemptsMade, opts, lock, paused, ats, atm,
                  concurrency>>

\* Mutation: the mark of the last check stays.
ExtendLockOnly(s, j) ==
  /\ lock[j] = s
  /\ UNCHANGED <<keys, scriptKeys>>
\* The lock gets its full TTL again, and the mark of the last check is taken back.
ExtendLock(s, j) ==
  /\ lock[j] = s
  /\ stalled' = stalled \ {j}
  /\ UNCHANGED <<keys, parked, checked, tallies, concurrency>>
=============================================================================
