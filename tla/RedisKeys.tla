----------------------------- MODULE RedisKeys -----------------------------
(***************************************************************************)
(* The keyspace of one BullMQ queue in Redis, as pkg/bullmq/keys.go names  *)
(* it, and the effect of the single Redis commands the Go client sends.    *)
(* Redis executes one command at a time, so one command is one step of the *)
(* modules that extend this one; the Go client never sends a transaction.  *)
(*                                                                         *)
(* Abstractions.  A job id is a model value.  Scores of sorted sets are    *)
(* left out except the priority order of `prioritized`.  The active LIST   *)
(* is a bag: its order is only the order in which a stalled-job scan       *)
(* visits equal candidates.  A job hash is the set of fields it has, the   *)
(* empty set being a key that does not exist; of the field values only     *)
(* attemptsMade and the options are kept.  Event stream and job logs are   *)
(* not part of this module.                                                *)
(***************************************************************************)
EXTENDS Integers, Sequences

CONSTANTS
  Jobs,         \* job ids (UUIDs drawn by Queue.Add)
  Workers,      \* worker processes: each a main loop, its slots and a stalled checker
  Slots,        \* places in the worker's activeSemaphore: one pickup + processJob at a time
  NoLock,       \* value of an absent lock key
  NoJob,        \* no job id: a Go string variable that holds none yet
  JobOptions    \* the JobOptions records producers use

\* The parts of JobOptions the control flow reads; `delay` says that Delay is at least a
\* millisecond.
OptionsType == [attempts : Nat, delay : BOOLEAN, priority : Nat,
                removeOnComplete : BOOLEAN, removeOnFail : BOOLEAN]

ASSUME KeysAssumption ==
  /\ JobOptions \subseteq OptionsType
  /\ NoLock \notin Slots
  /\ NoJob \notin Jobs

\* What json.Unmarshal leaves in Job.Opts when the hash has no opts field.
ZeroOptions == [attempts |-> 0, delay |-> FALSE, priority |-> 0,
                removeOnComplete |-> FALSE, removeOnFail |-> FALSE]

\* "job" stands for the fields storeJobHash writes together (id, name, data, opts, ...),
\* "result" for returnvalue / finishedOn / failedReason, "script" for those only the Lua
\* scripts write (processedOn, ats, atm, stc, defa).
Fields == {"job", "attemptsMade", "result", "script"}

VARIABLES
  wait,          \* LIST  bull:q:wait, head first: LPUSH at 1, RPOP at Len
  prioritized,   \* ZSET  bull:q:prioritized
  delayed,       \* ZSET  bull:q:delayed
  active,        \* LIST  bull:q:active, as a bag
  completed,     \* ZSET  bull:q:completed
  failed,        \* ZSET  bull:q:failed
  hash,          \* HASH  bull:q:<id>, the fields present
  attemptsMade,  \* field attemptsMade (0 when absent)
  opts,          \* field opts (ZeroOptions when absent)
  lock,          \* STRING bull:q:<id>:lock, the token of the slot that set it
  paused         \* field paused of bull:q:meta

pending  == <<wait, prioritized, delayed>>
finished == <<completed, failed>>
hashes   == <<hash, attemptsMade, opts>>
keys     == <<wait, prioritized, delayed, active, completed, failed,
              hash, attemptsMade, opts, lock, paused>>

KeysTypeOK ==
  /\ wait \in Seq(Jobs)
  /\ prioritized \subseteq Jobs
  /\ delayed \subseteq Jobs
  /\ active \in [Jobs -> Nat]
  /\ completed \subseteq Jobs
  /\ failed \subseteq Jobs
  /\ hash \in [Jobs -> SUBSET Fields]
  /\ attemptsMade \in [Jobs -> Nat]
  /\ opts \in [Jobs -> OptionsType]
  /\ lock \in [Jobs -> Slots \cup {NoLock}]
  /\ paused \in BOOLEAN

KeysInit ==
  /\ wait = << >>
  /\ prioritized = {}
  /\ delayed = {}
  /\ active = [j \in Jobs |-> 0]
  /\ completed = {}
  /\ failed = {}
  /\ hash = [j \in Jobs |-> {}]
  /\ attemptsMade = [j \in Jobs |-> 0]
  /\ opts = [j \in Jobs |-> ZeroOptions]
  /\ lock = [j \in Jobs |-> NoLock]
  /\ paused = FALSE

-----------------------------------------------------------------------------
\* Redis commands, each the new value of the key it changes.

LPushWait(j)   == wait' = <<j>> \o wait
RPopWait       == wait' = SubSeq(wait, 1, Len(wait) - 1)
WaitTail       == wait[Len(wait)]
InWait(j)      == \E i \in 1..Len(wait) : wait[i] = j

LPushActive(j) == active' = [active EXCEPT ![j] = @ + 1]
\* Mutation: an LREM that is taken to remove an entry whenever it is sent.
LRemActiveAlways(j) == active' = [active EXCEPT ![j] = @ - 1]
\* LREM active 1 id: removes one entry, or nothing when there is none.
LRemActive(j)  == active' = [active EXCEPT ![j] = IF @ > 0 THEN @ - 1 ELSE 0]

SetLock(j, token) == lock' = [lock EXCEPT ![j] = token]
DelLock(j)        == lock' = [lock EXCEPT ![j] = NoLock]

\* HSET creates the hash when it does not exist.
HSetResult(j) ==
  /\ hash' = [hash EXCEPT ![j] = @ \cup {"result"}]
  /\ UNCHANGED <<attemptsMade, opts>>
HSetAttempts(j, n) ==
  /\ hash' = [hash EXCEPT ![j] = @ \cup {"attemptsMade"}]
  /\ attemptsMade' = [attemptsMade EXCEPT ![j] = n]
  /\ UNCHANGED opts
DelJob(j) ==
  /\ hash' = [hash EXCEPT ![j] = {}]
  /\ attemptsMade' = [attemptsMade EXCEPT ![j] = 0]
  /\ opts' = [opts EXCEPT ![j] = ZeroOptions]

\* ZPOPMIN prioritized: the score is -priority, ties go to any member.
Foremost == { j \in prioritized : \A k \in prioritized : opts[j].priority >= opts[k].priority }
=============================================================================
