--------------------------- MODULE StalledChecker ---------------------------
(***************************************************************************)
(* StalledChecker (pkg/bullmq/stalled.go): one goroutine per worker that   *)
(* reads the active list, then looks at the lock of each id it read and    *)
(* requeues, or fails, those that have none.  isRunning lets one scan of a *)
(* worker run at a time.                                                   *)
(***************************************************************************)
EXTENDS RedisKeys

CONSTANT MaxAttempts    \* WorkerOptions.MaxAttempts of each worker (default 3)

ASSUME CheckerAssumption == MaxAttempts \in [Workers -> Nat]

VARIABLES
  chk,       \* next command of the checker
  todo,      \* ids of the LRANGE not looked at yet, a bag
  cjob,      \* jobID of recoverStalledJob
  recovery   \* its local variable attemptsMade

checkerVars == <<chk, todo, cjob, recovery>>

Nobody    == [j \in Jobs |-> 0]     \* the empty bag
ChkLabels == {"off", "exists", "load", "lrem", "zadd", "reason", "lpush", "attempts"}

CheckerTypeOK ==
  /\ chk \in [Workers -> ChkLabels]
  /\ todo \in [Workers -> [Jobs -> Nat]]
  /\ cjob \in [Workers -> Jobs \cup {NoJob}]
  /\ recovery \in [Workers -> 0..2]
  /\ \A w \in Workers : chk[w] \notin {"off", "exists"} => cjob[w] \in Jobs

CheckerInit ==
  /\ chk = [w \in Workers |-> "off"]
  /\ todo = [w \in Workers |-> Nobody]
  /\ cjob = [w \in Workers |-> NoJob]
  /\ recovery = [w \in Workers |-> 0]

-----------------------------------------------------------------------------
\* The scan goes on with the ids of `rest`, or ends.
Rest(w, j) == [todo[w] EXCEPT ![j] = @ - 1]
GoOn(w, rest) ==
  /\ chk' = [chk EXCEPT ![w] = IF rest = Nobody THEN "off" ELSE "exists"]
  /\ todo' = [todo EXCEPT ![w] = rest]
  /\ cjob' = [cjob EXCEPT ![w] = NoJob]
  /\ recovery' = [recovery EXCEPT ![w] = 0]

\* The recovery goes on with command `label`; "exists" ends it.
Advance(w, label) ==
  \/ /\ label = "exists"
     /\ GoOn(w, todo[w])
  \/ /\ label # "exists"
     /\ chk' = [chk EXCEPT ![w] = label]
     /\ UNCHANGED <<todo, cjob, recovery>>

AfterLRem(w) == IF recovery[w] >= MaxAttempts[w] THEN "zadd" ELSE "lpush"

\* The label after a command whose error the code ignores.
Then(w) ==
  CASE chk[w] = "lrem"  -> AfterLRem(w)
    [] chk[w] = "zadd"  -> "reason"
    [] chk[w] = "lpush" -> "attempts"
    [] chk[w] \in {"reason", "attempts"} -> "exists"

\* A tick of the ticker, when no scan is running, and the LRANGE.
Scan(w) ==
  /\ chk[w] = "off"
  /\ active # Nobody
  /\ chk' = [chk EXCEPT ![w] = "exists"]
  /\ todo' = [todo EXCEPT ![w] = active]
  /\ UNCHANGED <<cjob, recovery, keys>>

\* Mutation: the lock is not looked at.
ExistsNot(w) ==
  /\ chk[w] = "exists"
  /\ \E j \in Jobs :
       /\ todo[w][j] > 0
       /\ chk' = [chk EXCEPT ![w] = "load"]
       /\ todo' = [todo EXCEPT ![w] = Rest(w, j)]
       /\ cjob' = [cjob EXCEPT ![w] = j]
  /\ UNCHANGED <<recovery, keys>>

\* isJobStalled: an id whose lock exists is skipped.
Exists(w) ==
  /\ chk[w] = "exists"
  /\ \E j \in Jobs :
       /\ todo[w][j] > 0
       /\ \/ /\ lock[j] # NoLock
             /\ GoOn(w, Rest(w, j))
          \/ /\ lock[j] = NoLock
             /\ chk' = [chk EXCEPT ![w] = "load"]
             /\ todo' = [todo EXCEPT ![w] = Rest(w, j)]
             /\ cjob' = [cjob EXCEPT ![w] = j]
             /\ UNCHANGED recovery
  /\ UNCHANGED keys

\* recoverStalledJob: HGETALL.  The stored attemptsMade is not parsed: only its presence counts.
LoadStalled(w) ==
  /\ chk[w] = "load"
  /\ chk' = [chk EXCEPT ![w] = "lrem"]
  /\ recovery' = [recovery EXCEPT ![w] = IF "attemptsMade" \in hash[cjob[w]] THEN 2 ELSE 1]
  /\ UNCHANGED <<todo, cjob, keys>>

\* Mutation: the id stays in `active`.
LRemStalledNot(w) ==
  /\ chk[w] = "lrem"
  /\ Advance(w, Then(w))
  /\ UNCHANGED keys

\* The id may be gone from `active` by now: the result of LREM is not looked at.
LRemStalled(w) ==
  /\ chk[w] = "lrem"
  /\ LRemActive(cjob[w])
  /\ Advance(w, Then(w))
  /\ UNCHANGED <<pending, finished, hashes, lock, paused>>

\* Mutation: the failed set is forgotten.
FailStalledNowhere(w) ==
  /\ chk[w] = "zadd"
  /\ Advance(w, Then(w))
  /\ UNCHANGED keys

FailStalled(w) ==
  /\ chk[w] = "zadd"
  /\ failed' = failed \cup {cjob[w]}
  /\ Advance(w, Then(w))
  /\ UNCHANGED <<pending, active, completed, hashes, lock, paused>>

StoreReason(w) ==
  /\ chk[w] = "reason"
  /\ HSetResult(cjob[w])
  /\ Advance(w, Then(w))
  /\ UNCHANGED <<pending, active, finished, lock, paused>>

\* Mutation: the wait list is forgotten.
RequeueNowhere(w) ==
  /\ chk[w] = "lpush"
  /\ Advance(w, Then(w))
  /\ UNCHANGED keys

Requeue(w) ==
  /\ chk[w] = "lpush"
  /\ LPushWait(cjob[w])
  /\ Advance(w, Then(w))
  /\ UNCHANGED <<prioritized, delayed, active, finished, hashes, lock, paused>>

StoreRecovery(w) ==
  /\ chk[w] = "attempts"
  /\ HSetAttempts(cjob[w], recovery[w])
  /\ Advance(w, Then(w))
  /\ UNCHANGED <<pending, active, finished, lock, paused>>

CheckerStep(w) ==
  \/ Exists(w) \/ LoadStalled(w) \/ LRemStalled(w)
  \/ FailStalled(w) \/ StoreReason(w) \/ Requeue(w) \/ StoreRecovery(w)

\* A failing EXISTS counts as "not stalled" and a failing HGETALL gives the id up;
\* the other errors are ignored.
CheckerCommandFails(w) ==
  \/ /\ chk[w] = "exists"
     /\ \E j \in Jobs : todo[w][j] > 0 /\ GoOn(w, Rest(w, j))
     /\ UNCHANGED keys
  \/ /\ chk[w] = "load"
     /\ Advance(w, "exists")
     /\ UNCHANGED keys
  \/ /\ chk[w] \notin {"off", "exists", "load"}
     /\ Advance(w, Then(w))
     /\ UNCHANGED keys
=============================================================================
