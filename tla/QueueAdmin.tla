----------------------------- MODULE QueueAdmin -----------------------------
(***************************************************************************)
(* RemoveJob, Clean, Drain and RetryJob of Queue (queue_impl.go), run by   *)
(* Callers beside the workers of BullMQ.  A pipeline of go-redis is not a  *)
(* transaction: its commands are executed in order, one at a time, and     *)
(* those of other clients may come between.  A call is the sequence of     *)
(* commands it has still to send for the id cur, then for those of ids.    *)
(***************************************************************************)
EXTENDS BullMQ, Functions

CONSTANTS
  Callers,     \* goroutines that call these methods
  Operations,  \* the methods they call
  MaxCalls     \* bound on the number of calls

AllOperations == {"RetryJob", "RemoveJob", "CleanCompleted", "CleanFailed", "Drain"}

ASSUME AdminAssumption == Operations \subseteq AllOperations /\ MaxCalls \in Nat

VARIABLES
  op,        \* the method a caller is in, or "none"
  cur,       \* the id its next command is about
  ids,       \* the ids it has not come to: jobIDs of Clean, jobIDSet of Drain
  commands,  \* its next commands for cur, each <<verb, key>>
  calls      \* calls made so far

adminVars == <<op, cur, ids, commands, calls>>
allVars   == <<vars, adminVars>>

\* The order in which Drain reads and empties the keys, and RemoveJob goes through them.
DrainOrder  == <<"wait", "prioritized", "delayed", "active", "completed", "failed">>
RemoveOrder == <<"wait", "active", "prioritized", "delayed", "completed", "failed">>
KeyNames == {"wait", "prioritized", "delayed", "active", "completed", "failed"}
Verbs == {"read", "empty", "rem", "hash", "lock", "reset", "reason", "push", "rollback"}
Command(verb)  == << <<verb, "">> >>
On(verb, keyOrder) == [i \in DOMAIN keyOrder |-> <<verb, keyOrder[i]>>]

\* The commands of a method for one id.  HSET, HDEL and LPUSH of RetryJob are one pipeline,
\* and so are all commands of the others.
DeleteJob == Command("hash") \o Command("lock")
Program(o) ==
  CASE o = "RetryJob"       -> On("rem", <<"failed">>) \o Command("reset") \o Command("reason")
                                 \o Command("push")
    [] o = "RemoveJob"      -> On("rem", RemoveOrder) \o DeleteJob
    [] o = "CleanCompleted" -> On("rem", <<"completed">>) \o DeleteJob
    [] o = "CleanFailed"    -> On("rem", <<"failed">>) \o DeleteJob
    [] o = "Drain"          -> DeleteJob

Call(c, o, j, more, cmds) ==
  /\ op' = [op EXCEPT ![c] = o]
  /\ cur' = [cur EXCEPT ![c] = j]
  /\ ids' = [ids EXCEPT ![c] = more]
  /\ commands' = [commands EXCEPT ![c] = cmds]

AdminTypeOK ==
  /\ TypeOK
  /\ op \in [Callers -> AllOperations \cup {"none"}]
  /\ cur \in [Callers -> Jobs \cup {NoJob}]
  /\ ids \in [Callers -> SUBSET Jobs]
  /\ commands \in [Callers -> Seq(Verbs \X ({""} \cup KeyNames))]
  /\ calls \in Nat

AdminInit ==
  /\ Init
  /\ op = [c \in Callers |-> "none"]
  /\ cur = [c \in Callers |-> NoJob]
  /\ ids = [c \in Callers |-> {}]
  /\ commands = [c \in Callers |-> << >>]
  /\ calls = 0

-----------------------------------------------------------------------------
(* Calls.  Those that find nothing to do return an error, or 0, and change nothing. *)

Begins(c, o) ==
  /\ op[c] = "none" /\ o \in Operations
  /\ calls < MaxCalls
  /\ calls' = calls + 1
  /\ UNCHANGED vars

\* ZSCORE finds the id in failed; nobody looks again before the ZREM.
RetryJob(c, j) ==
  /\ Begins(c, "RetryJob")
  /\ j \in failed
  /\ Call(c, "RetryJob", j, {}, Program("RetryJob"))

RemoveJob(c, j) ==
  /\ Begins(c, "RemoveJob")
  /\ add[j] = "added"
  /\ Call(c, "RemoveJob", j, {}, Program("RemoveJob"))

\* ZRANGEBYSCORE: age and limit leave some of the members.
Clean(c, o, old) ==
  /\ Begins(c, o)
  /\ \/ o = "CleanCompleted" /\ old \subseteq completed
     \/ o = "CleanFailed" /\ old \subseteq failed
  /\ \E j \in old : Call(c, o, j, old \ {j}, Program(o))

\* The six reads come one by one, then a pipeline that deletes the six keys and the jobs found.
Drain(c) ==
  /\ Begins(c, "Drain")
  /\ Call(c, "Drain", NoJob, {}, On("read", DrainOrder) \o On("empty", DrainOrder))

-----------------------------------------------------------------------------
(* Commands *)

NextOf(c)  == IF commands[c] = << >> THEN <<"", "">> ELSE Head(commands[c])
Verb(c)   == NextOf(c)[1]
KeyOf(c)  == NextOf(c)[2]

\* The call goes on with its next command, with its next id, or returns.
Proceed(c, found) ==
  \/ /\ Len(commands[c]) > 1
     /\ Call(c, op[c], cur[c], found, Tail(commands[c]))
  \/ /\ Len(commands[c]) = 1
     /\ \E j \in found : Call(c, op[c], j, found \ {j}, Program(op[c]))
  \/ /\ Len(commands[c]) = 1 /\ found = {}
     /\ Call(c, "none", NoJob, {}, << >>)

Members(key) ==
  { j \in Jobs : \/ key = "wait" /\ InWait(j)
                 \/ key = "prioritized" /\ j \in prioritized
                 \/ key = "delayed" /\ j \in delayed
                 \/ key = "active" /\ active[j] > 0
                 \/ key = "completed" /\ j \in completed
                 \/ key = "failed" /\ j \in failed }

Read(c) ==
  /\ Verb(c) = "read"
  /\ Proceed(c, ids[c] \cup Members(KeyOf(c)))
  /\ UNCHANGED <<vars, calls>>

\* The ids of `gone` leave the wait list, the others keep their order.
LeaveInWait(gone) ==
  LET rest == { i \in 1..Len(wait) : wait[i] \notin gone } IN
  \E n \in 0..Len(wait) : \E place \in [1..n -> rest] :
    /\ Range(place) = rest
    /\ \A i, k \in 1..n : i < k => place[i] < place[k]
    /\ wait' = [i \in 1..n |-> wait[place[i]]]

\* LREM key 0 id or ZREM key id for one id, DEL key for all.  An id that DEL takes out of a
\* key although no read of this Drain found it is at risk.
Taken(c) == IF Verb(c) = "rem" THEN {cur[c]} ELSE Jobs
TakeOut(c) ==
  /\ Verb(c) \in {"rem", "empty"}
  /\ LET key == KeyOf(c) IN
       /\ \/ key = "wait" /\ LeaveInWait(Taken(c))
          \/ key # "wait" /\ UNCHANGED wait
       /\ prioritized' = IF key = "prioritized" THEN prioritized \ Taken(c) ELSE prioritized
       /\ delayed' = IF key = "delayed" THEN delayed \ Taken(c) ELSE delayed
       /\ active' = [j \in Jobs |-> IF key = "active" /\ j \in Taken(c) THEN 0 ELSE active[j]]
       /\ completed' = IF key = "completed" THEN completed \ Taken(c) ELSE completed
       /\ failed' = IF key = "failed" THEN failed \ Taken(c) ELSE failed
       /\ atRisk' = atRisk \cup
            (IF Verb(c) = "empty" THEN Members(key) \ ids[c] ELSE {})
  /\ Proceed(c, ids[c])
  /\ UNCHANGED <<hashes, lock, paused, add, slotVars, checkerVars, overrun, spent, calls>>

OnJob(c) == UNCHANGED <<pending, active, finished, paused, add, slotVars, checkerVars, history, calls>>

DeleteHash(c) ==
  /\ Verb(c) = "hash"
  /\ DelJob(cur[c])
  /\ Proceed(c, ids[c])
  /\ UNCHANGED lock /\ OnJob(c)

DeleteLock(c) ==
  /\ Verb(c) = "lock"
  /\ DelLock(cur[c])
  /\ Proceed(c, ids[c])
  /\ UNCHANGED hashes /\ OnJob(c)

ResetAttempts(c) ==
  /\ Verb(c) = "reset"
  /\ HSetAttempts(cur[c], 0)
  /\ Proceed(c, ids[c])
  /\ UNCHANGED lock /\ OnJob(c)

\* HDEL failedReason: a returnvalue may be left.
DropReason(c) ==
  /\ Verb(c) = "reason"
  /\ \E fields \in SUBSET {"result"} : hash' = [hash EXCEPT ![cur[c]] = @ \ fields]
  /\ Proceed(c, ids[c])
  /\ UNCHANGED <<attemptsMade, opts, lock>> /\ OnJob(c)

PushBack(c) ==
  /\ Verb(c) = "push"
  /\ LPushWait(cur[c])
  /\ Proceed(c, ids[c])
  /\ UNCHANGED <<prioritized, delayed, active, finished, hashes, lock, paused>>
  /\ UNCHANGED <<add, slotVars, checkerVars, history, calls>>

\* Exec of RetryJob returns an error: the rest of its pipeline was not executed, or all of it
\* was and the reply is lost.
ExecFails(c) ==
  /\ Spend("fault")
  /\ Verb(c) \in {"reset", "reason", "push"}
  /\ Call(c, op[c], cur[c], ids[c], Command("rollback"))
  /\ \/ UNCHANGED wait
     \/ Verb(c) = "push" /\ LPushWait(cur[c])
  /\ UNCHANGED <<prioritized, delayed, active, finished, hashes, lock, paused, add>>
  /\ UNCHANGED <<slotVars, checkerVars, atRisk, overrun, calls>>

\* Mutation: no rollback.
RollBackNowhere(c) ==
  /\ Verb(c) = "rollback"
  /\ Proceed(c, ids[c])
  /\ UNCHANGED <<keys, add, slotVars, checkerVars, history, calls>>

\* The id goes back to failed with its old score.
RollBack(c) ==
  /\ Verb(c) = "rollback"
  /\ failed' = failed \cup {cur[c]}
  /\ Proceed(c, ids[c])
  /\ UNCHANGED <<pending, active, completed, hashes, lock, paused>>
  /\ UNCHANGED <<add, slotVars, checkerVars, history, calls>>

\* Ids that a call has still to push back, to roll back, or to delete the hash of.
Deciding == {"push", "rollback", "hash"}
VerbsOf(cmds) == { cmds[i][1] : i \in DOMAIN cmds }
CallHolds(c, j) ==
  \/ cur[c] = j /\ VerbsOf(commands[c]) \cap Deciding # {}
  \/ j \in ids[c] /\ op[c] # "none"

\* A command of the call fails, with the rest of its pipeline, or its process dies: the call
\* ends where it is.  An id that it took out of the keys is left in none, its hash undeleted.
CallFails(c) ==
  /\ Spend("fault")
  /\ op[c] # "none"
  /\ Call(c, "none", NoJob, {}, << >>)
  /\ atRisk' = atRisk \cup { j \in Jobs : CallHolds(c, j) /\ ~Recorded(j) }
  /\ UNCHANGED <<keys, add, slotVars, checkerVars, overrun, calls>>

AdminNext ==
  \/ Next /\ UNCHANGED adminVars
  \/ \E c \in Callers :
       \/ \E j \in Jobs : RetryJob(c, j) \/ RemoveJob(c, j)
       \/ \E o \in Operations, old \in SUBSET Jobs : Clean(c, o, old)
       \/ Drain(c) \/ Read(c) \/ TakeOut(c) \/ DeleteHash(c) \/ DeleteLock(c)
       \/ ResetAttempts(c) \/ DropReason(c) \/ PushBack(c) \/ ExecFails(c) \/ RollBack(c)
       \/ CallFails(c)

AdminSpec == AdminInit /\ [][AdminNext]_allVars

-----------------------------------------------------------------------------
(* Properties *)

\* With administration running, too, a queued job is in a key or on its way between two, or
\* a call is about to push it back, to roll it back, or to delete its hash.
AdminConserved ==
  \A j \in Jobs : Conserved(j) \/ \E c \in Callers : CallHolds(c, j)
=============================================================================
