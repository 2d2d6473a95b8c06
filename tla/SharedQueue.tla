----------------------------- MODULE SharedQueue -----------------------------
(***************************************************************************)
(* One queue that the Go client's Queue fills, pauses, resumes and counts, *)
(* and that workers empty by the Lua scripts of LuaScripts.tla: what the   *)
(* README of the repository calls a Go producer with Node.js workers, and  *)
(* what tests/integration/lua_scripts_test.go does step by step.  The      *)
(* scripts are translated from the source; how a worker calls them is      *)
(* external (marked so below).                                             *)
(*                                                                         *)
(* A worker call is a slot: it has one job at a time and one lock token,   *)
(* the slot itself.  Workers die, their locks expire, also under a worker  *)
(* that is late with extendLock, and replies of scripts get lost.          *)
(***************************************************************************)
EXTENDS Producer, LuaScripts

CONSTANTS
  Troubles,    \* bound on crashes, late renewals, lost replies, pauses and reads together
  Unlimited

ASSUME SharedAssumption ==
  /\ Troubles \in Nat \cup {Unlimited}
  /\ Unlimited \notin Nat

VARIABLES
  pc,       \* "idle", "work" on job held[s], "again": to repeat a call whose reply was lost
  held,     \* the job a slot was handed
  cursor    \* commands of the GetJobCounts pipeline done, of 6

\* History variables: no action of the system reads them, except `spent` for its bounds.
VARIABLES
  missing,  \* ids in the keys that GetJobCounts counts since its first command, which
            \* took no step back since then and were not counted yet
  fresh,    \* active ids handed out or renewed since the last stalled check
  late,     \* slots whose lock expired under them
  spent     \* events so far, of those that Troubles bounds

slotVars == <<pc, held>>
history  == <<missing, fresh, late, spent>>
vars     == <<keys, add, scriptKeys, slotVars, cursor, history>>

TypeOK ==
  /\ KeysTypeOK /\ ProducerTypeOK /\ ScriptsTypeOK
  /\ pc \in [Slots -> {"idle", "work", "again"}]
  /\ held \in [Slots -> Jobs \cup {NoJob}]
  /\ \A s \in Slots : pc[s] = "idle" <=> held[s] = NoJob
  /\ cursor \in 0..5
  /\ missing \subseteq Jobs /\ fresh \subseteq Jobs
  /\ late \subseteq Slots
  /\ spent \in Nat

Init ==
  /\ KeysInit /\ ProducerInit /\ ScriptsInit
  /\ pc = [s \in Slots |-> "idle"]
  /\ held = [s \in Slots |-> NoJob]
  /\ cursor = 0
  /\ missing = {} /\ fresh = {} /\ late = {}
  /\ spent = 0

Trouble ==
  \/ Troubles = Unlimited /\ UNCHANGED spent
  \/ /\ Troubles # Unlimited
     /\ spent < Troubles
     /\ spent' = spent + 1

-----------------------------------------------------------------------------
InList(list, j) == \E i \in DOMAIN list : list[i] = j

\* The stages of a job on its way; only a retry, a stall and a promotion lead back.
Stage(j) ==
  CASE InList(wait, j) \/ j \in prioritized -> 1
    [] j \in delayed                        -> 2
    [] active[j] > 0                        -> 3
    [] j \in completed \cup failed          -> 4
    [] OTHER                                -> 0
Onward == missing' = { j \in missing : Stage(j)' >= Stage(j) }

\* Mutation: active is counted before the keys that its jobs come from.
CountedActiveFirst(n) ==
  CASE n = 1 -> { j \in Jobs : active[j] > 0 }
    [] n = 2 -> { j \in Jobs : InList(wait, j) }
    [] n = 3 -> prioritized
    [] n = 4 -> delayed
    [] n = 5 -> completed
    [] n = 6 -> failed
\* What each command of GetJobCounts counts, in the order of the pipeline.
Counted(n) ==
  CASE n = 1 -> { j \in Jobs : InList(wait, j) }
    [] n = 2 -> prioritized
    [] n = 3 -> delayed
    [] n = 4 -> { j \in Jobs : active[j] > 0 }
    [] n = 5 -> completed
    [] n = 6 -> failed

\* A pipeline is not a transaction: other clients come between its commands.
CountFirst ==
  /\ cursor = 0
  /\ Trouble
  /\ cursor' = 1
  /\ missing' = { j \in Jobs : Stage(j) > 0 } \ Counted(1)
  /\ UNCHANGED <<keys, add, scriptKeys, slotVars, fresh, late>>

CountNext ==
  /\ cursor \in 1..4
  /\ cursor' = cursor + 1
  /\ missing' = missing \ Counted(cursor + 1)
  /\ UNCHANGED <<keys, add, scriptKeys, slotVars, fresh, late, spent>>

CountLast ==
  /\ cursor = 5
  /\ cursor' = 0
  /\ missing' = {}
  /\ UNCHANGED <<keys, add, scriptKeys, slotVars, fresh, late, spent>>

-----------------------------------------------------------------------------
Add(j) ==
  /\ j \notin Foreign
  /\ StoreJobHash(j) \/ EnqueueJob(j)
  /\ Onward
  /\ UNCHANGED <<scriptKeys, slotVars, cursor, fresh, late, spent>>

\* External: another library adds its job in one step, to `paused` when the queue is.
AddForeign(j) ==
  /\ j \in Foreign /\ add[j] = "new"
  /\ add' = [add EXCEPT ![j] = "added"]
  /\ hash' = [hash EXCEPT ![j] = {"job"}]
  /\ \E o \in JobOptions :
       LET o1 == WithDefaults(o)
           plain == ~o1.delay /\ o1.priority = 0
       IN /\ opts' = [opts EXCEPT ![j] = o1]
          /\ delayed' = IF o1.delay THEN delayed \cup {j} ELSE delayed
          /\ prioritized' = IF ~o1.delay /\ o1.priority > 0 THEN prioritized \cup {j} ELSE prioritized
          /\ wait' = IF plain /\ ~paused THEN <<j>> \o wait ELSE wait
          /\ parked' = IF plain /\ paused THEN <<j>> \o parked ELSE parked
  /\ UNCHANGED <<active, finished, attemptsMade, lock, paused, stalled, checked, tallies,
                  concurrency, slotVars, cursor, fresh, late, spent>>
  /\ Onward

PauseQueue ==
  /\ Trouble
  /\ Pause
  /\ UNCHANGED <<scriptKeys, slotVars, cursor, missing, fresh, late>>

ResumeQueue ==
  /\ Resume
  /\ UNCHANGED <<scriptKeys, slotVars, cursor, history>>

-----------------------------------------------------------------------------
\* The worker of slot s goes on with the job it was handed, or is idle.
GoesOn(s, next) ==
  /\ held' = [held EXCEPT ![s] = next]
  /\ pc' = [pc EXCEPT ![s] = IF next = NoJob THEN "idle" ELSE "work"]
  /\ late' = late \ {s}

Handed(S) == fresh' = { j \in fresh \cup S : active'[j] > 0 }

\* External: a job is retried while it has attempts left, and failed at once when a check
\* left it a deferred failure.
MayRetry(s)   == pc[s] = "again" \/ (atm[held[s]] + 1 < opts[held[s]].attempts /\ held[s] \notin defa)
Targets(s)    == IF held[s] \in defa THEN {"failed"} ELSE {"completed", "failed"}

FetchJob(s) ==
  /\ pc[s] = "idle"
  /\ \E next \in Jobs \cup {NoJob} :
       /\ GoesOn(s, next)
       /\ MoveToActive(s, next)
       /\ Handed({next} \cap Jobs)
  /\ Onward
  /\ UNCHANGED <<add, cursor, spent>>

FinishJob(s) ==
  /\ pc[s] # "idle"
  /\ \E target \in Targets(s), keep \in KeepJobs, fetch \in BOOLEAN, next \in Jobs \cup {NoJob} :
       /\ GoesOn(s, next)
       /\ MoveToFinished(s, held[s], target, keep, fetch, next)
       /\ Handed({next} \cap Jobs)
  /\ Onward
  /\ UNCHANGED <<add, cursor, spent>>

\* moveToFinished returns -1, -2 or -6: the worker reports the error and drops the job.
FinishRefused(s) ==
  /\ pc[s] # "idle"
  /\ ~Owns(s, held[s])
  /\ GoesOn(s, NoJob)
  /\ UNCHANGED <<keys, add, scriptKeys, cursor, missing, fresh, spent>>

RetryHeld(s) ==
  /\ pc[s] # "idle"
  /\ MayRetry(s)
  /\ GoesOn(s, NoJob)
  /\ \E lifo \in BOOLEAN : RetryJob(s, held[s], lifo)
  /\ Handed({})
  /\ Onward
  /\ UNCHANGED <<add, cursor, spent>>

Renew(s) ==
  /\ pc[s] = "work"
  /\ ExtendLock(s, held[s])
  /\ fresh' = fresh \cup {held[s]}
  /\ UNCHANGED <<add, slotVars, cursor, missing, late, spent>>

CheckStalled ==
  /\ MoveStalledJobsToWait
  /\ fresh' = {}
  /\ Onward
  /\ UNCHANGED <<add, slotVars, cursor, late, spent>>

\* The TTL of stalled-check.
CheckExpires ==
  /\ checked
  /\ checked' = FALSE
  /\ UNCHANGED <<keys, add, parked, stalled, tallies, concurrency, slotVars, cursor, history>>

-----------------------------------------------------------------------------
\* The reply of a script that was run is lost.  An idle slot does not learn of the job it
\* was handed; one that settles its job calls again.
FetchLost(s) ==
  /\ Trouble
  /\ pc[s] = "idle"
  /\ \E next \in Jobs : MoveToActive(s, next) /\ Handed({next})
  /\ Onward
  /\ UNCHANGED <<add, slotVars, cursor, late>>

SettleLost(s) ==
  /\ Trouble
  /\ pc[s] = "work"
  /\ \E next \in Jobs \cup {NoJob} :
       /\ \/ \E target \in Targets(s), keep \in KeepJobs, fetch \in BOOLEAN :
               MoveToFinished(s, held[s], target, keep, fetch, next)
          \/ /\ MayRetry(s) /\ next = NoJob
             /\ \E lifo \in BOOLEAN : RetryJob(s, held[s], lifo)
       /\ Handed({next} \cap Jobs)
  /\ pc' = [pc EXCEPT ![s] = "again"]
  /\ Onward
  /\ UNCHANGED <<add, held, cursor, late>>

Crash(s) ==
  /\ Trouble
  /\ pc[s] # "idle"
  /\ GoesOn(s, NoJob)
  /\ UNCHANGED <<keys, add, scriptKeys, cursor, missing, fresh>>

\* The TTL of a lock runs out: nobody renews it, or its worker is late to.
Working(s, j) == pc[s] = "work" /\ held[s] = j

LockExpires(j) ==
  /\ lock[j] # NoLock
  /\ ~Working(lock[j], j)
  /\ DelLock(j)
  /\ UNCHANGED <<pending, active, finished, hashes, paused, add, scriptKeys, slotVars, cursor, history>>

LockLapses(j) ==
  /\ lock[j] # NoLock
  /\ Working(lock[j], j)
  /\ Trouble
  /\ late' = late \cup {lock[j]}
  /\ DelLock(j)
  /\ UNCHANGED <<pending, active, finished, hashes, paused, add, scriptKeys, slotVars, cursor, missing, fresh>>

Settle(s) == FinishJob(s) \/ FinishRefused(s) \/ RetryHeld(s)

Next ==
  \/ \E j \in Jobs : Add(j) \/ AddForeign(j) \/ LockExpires(j) \/ LockLapses(j)
  \/ PauseQueue \/ ResumeQueue \/ CountFirst \/ CountNext \/ CountLast
  \/ \E s \in Slots : FetchJob(s) \/ Settle(s) \/ Renew(s)
  \/ CheckStalled \/ CheckExpires
  \/ \E s \in Slots : FetchLost(s) \/ SettleLost(s) \/ Crash(s)

Spec == Init /\ [][Next]_vars

\* Workers go on, unrenewed TTLs run out, the check is called again and again.  Producers,
\* readers and failures owe nothing.
Fairness ==
  /\ \A s \in Slots : WF_vars(FetchJob(s) \/ Settle(s))
  /\ \A j \in Jobs : WF_vars(LockExpires(j))
  /\ WF_vars(CheckStalled \/ CheckExpires)

FairSpec == Spec /\ Fairness

-----------------------------------------------------------------------------
(* Properties *)

\* j is in the named key and in no other, "none" being no key at all.
At(j, key) ==
  /\ InList(wait, j)   <=> key = "wait"
  /\ InList(parked, j) <=> key = "paused"
  /\ j \in prioritized <=> key = "prioritized"
  /\ j \in delayed     <=> key = "delayed"
  /\ active[j] > 0     <=> key = "active"
  /\ j \in completed   <=> key = "completed"
  /\ j \in failed      <=> key = "failed"
QueueKeys == {"wait", "paused", "prioritized", "delayed"}
DoneKeys  == {"completed", "failed"}

Distinct(list) == \A i, k \in DOMAIN list : list[i] = list[k] => i = k
Stored(j) == add[j] = "added" /\ hash[j] # {}

\* A job that was added and not removed is in exactly one of the seven lists and sets, once;
\* any other id is in none, and no script brings a removed hash back.  No window and no
\* exception: the scripts move ids atomically, and refuse callers who lost the job.
OnePlace ==
  /\ Distinct(wait) /\ Distinct(parked)
  /\ \A j \in Jobs : active[j] <= 1
  /\ \A j \in Jobs : Stored(j) => \E key \in QueueKeys \cup {"active"} \cup DoneKeys : At(j, key)
  /\ \A j \in Jobs : ~Stored(j) => At(j, "none")
  /\ \A j \in Jobs : hash[j] # {} => "job" \in hash[j]

\* A lock, and a mark of the stalled check, belong to an active job: moveToFinished and
\* retryJob never find, after they deleted the lock, that the job is not active (-3).
LockedActive == \A j \in Jobs : lock[j] # NoLock \/ j \in stalled => active[j] > 0

\* Every attempt that was started is accounted for once: it was made (finished or retried),
\* or it stalled, or it is in progress.  Late, repeated and refused calls count nothing.
AttemptsExact == \A j \in Jobs : ats[j] = atm[j] + stc[j] + active[j]

\* A slot at work has the lock of its job unless that expired under it, so that of two
\* slots at work on one job at most one can settle it.
HeldLocked == \A s \in Slots : pc[s] = "work" /\ s \notin late => lock[held[s]] = s

\* The global concurrency of the queue bounds the active jobs, whoever fetches them.
ActiveBounded == concurrency # NoLimit => LLen(active) <= concurrency

\* GetJobCounts, though its commands are not atomic, misses no job that was in the counted
\* keys all the time and took no step back between them.
CountsCover == cursor = 5 => missing \subseteq Counted(6)

\* A job leaves `active` by a call of the slot that works on it under its lock, or by a
\* stalled check that finds no lock, and not before a whole check interval has passed
\* since it was handed out or renewed.
LeavesFairly ==
  [][\A j \in Jobs : active[j] > 0 /\ active'[j] = 0 =>
       \/ lock[j] # NoLock /\ Working(lock[j], j)
       \/ lock[j] = NoLock /\ j \notin fresh]_vars

\* When the queue is not paused for ever, every added job gets to an end, delayed ones of
\* the Go client included, unless a script parked it in `paused` under a Pause (Resume
\* leaves it there), or it is another library's job that does not become due.
Rests(j) == \/ j \in completed \cup failed \/ hash[j] = {} \/ InList(parked, j)
            \/ (j \in Foreign /\ j \in delayed)
SharedSettles == []<>~paused => \A j \in Jobs : add[j] = "added" ~> Rests(j)

\* The scripts keep the promise of JobLeases: locks are its owners.
Life(j) ==
  CASE add[j] # "added"                                -> "new"
    [] add[j] = "added" /\ hash[j] = {}                -> "removed"
    [] Stored(j) /\ At(j, "active")                    -> "leased"
    [] Stored(j) /\ (\E key \in DoneKeys : At(j, key))  -> "settled"
    [] Stored(j) /\ (\E key \in QueueKeys : At(j, key)) -> "queued"
    [] OTHER                                           -> "lost"
Leases == INSTANCE JobLeases WITH Owners <- Slots, NoOwner <- NoLock,
                                  life <- [j \in Jobs |-> Life(j)], owner <- lock
LeasesKept == Leases!Spec
=============================================================================
