----------------------------- MODULE JobRecords -----------------------------
(***************************************************************************)
(* What a job leaves behind beside its place in the queue: its hash, its   *)
(* log list, the events that tell of it and its entry in the results       *)
(* queue (job.go, progress.go, logs.go, events.go, results_queue.go).      *)
(*                                                                         *)
(* One job.  Its processJob calls may overlap, as BullMQ.tla shows they    *)
(* do.  Beside them act the producer, a stalled-job checker and callers    *)
(* of RemoveJob, Clean and RetryJob.  A step is one Redis command; the     *)
(* scripts updateProgress and addLog are one each.  Commands on keys that  *)
(* are not variables here (locks, delayed) are left out, and a scan finds  *)
(* the lock as it likes.                                                   *)
(***************************************************************************)
EXTENDS Integers, Sequences

CONSTANTS
  Calls,       \* calls of processJob, each made once, by workers with a results queue and OnError
  Callers,     \* goroutines that call RemoveJob, Clean or RetryJob once
  KeepLogs,    \* maxLogs of the LogManager a call uses
  Progresses,  \* values processors report
  OptionSets,  \* the removeOn options producers give
  MaxWrites,   \* bound on the log lines of each call
  MaxScans,    \* bound on the recoveries
  MaxFaults    \* bound on crashes and failing commands

ASSUME RecordsAssumption ==
  /\ KeepLogs \in [Calls -> Nat \ {0}]
  /\ Progresses \subseteq 0..100
  /\ OptionSets \subseteq SUBSET {"complete", "fail"}
  /\ MaxWrites \in [Calls -> Nat]
  /\ MaxScans \in Nat /\ MaxFaults \in Nat

VARIABLES
  queued,      \* entries of the id in wait
  active,      \* entries of the id in active
  completed,   \* the id is in completed
  failed,      \* the id is in failed, put there by a worker or by another, or "none"
  hash,        \* the job hash: absent, with all its fields, or with those of a stray HSET
  progress,    \* its field progress
  logs,        \* the log list, each entry <<call, number>>
  events,      \* types of the events of this job in the stream
  lastProgress,\* data of the last progress event
  results,     \* the results queue has a result of the job
  reported,    \* OnError was called
  opts,        \* the removeOn options the producer gave
  add,         \* progress of Queue.Add
  pc,          \* next command of a call
  cfg,         \* removeOn options of the call's Job
  written,     \* log lines of the call that were accepted
  checker,     \* next command of the checker
  caller,      \* next command of a caller
  scans, faults,
  lost         \* history: what a fault kept from being deleted or told

queue   == <<queued, active, completed, failed>>
record  == <<hash, progress>>
stream  == <<events, lastProgress>>
forward == <<results, reported>>
spent   == <<scans, faults, lost>>
vars == <<queue, record, logs, stream, forward, opts, add, pc, cfg, written, checker, caller, spent>>

RemoveOn == {"complete", "fail"}
CallLabels ==
  {"ready", "load", "tell", "work", "send", "complete", "returnvalue", "remove", "removelogs",
   "completed", "tellcompleted", "fail", "failed", "failreason", "faildel", "tellfailed",
   "retry", "attempts", "done"}
CheckerLabels == {"idle", "lrem", "requeue", "giveup", "attempts", "reason"}
CallerLabels  ==
  {"ready", "unlist", "uncomplete", "unfail", "deljob", "dellogs", "zrem", "reset", "push",
   "rollback", "done"}

DataTypeOK ==
  /\ queued \in Nat /\ active \in Nat
  /\ failed \in {"none", "worker", "other"}
  /\ hash \in {"none", "full", "stray"}
  /\ progress \in 0..100 /\ lastProgress \in 0..100
  /\ events \subseteq {"waiting", "active", "progress", "completed", "failed"}
  /\ opts \subseteq RemoveOn
  /\ scans \in Nat /\ faults \in Nat
  /\ lost \subseteq {"logs", "event"}
FlagTypeOK == completed \in BOOLEAN /\ results \in BOOLEAN /\ reported \in BOOLEAN
LogTypeOK ==
  /\ logs \in Seq(Calls \X (Nat \ {0}))
  /\ written \in [Calls -> Nat]
ActorTypeOK ==
  /\ add \in {"new", "stored", "queued", "done"}
  /\ pc \in [Calls -> CallLabels]
  /\ cfg \in [Calls -> SUBSET RemoveOn]
  /\ checker \in CheckerLabels
  /\ caller \in [Callers -> CallerLabels]
TypeOK == DataTypeOK /\ FlagTypeOK /\ LogTypeOK /\ ActorTypeOK

Init ==
  /\ queued = 0 /\ active = 0 /\ completed = FALSE /\ failed = "none"
  /\ hash = "none" /\ progress = 0 /\ logs = << >>
  /\ events = {} /\ lastProgress = 0
  /\ results = FALSE /\ reported = FALSE
  /\ opts \in OptionSets
  /\ add = "new"
  /\ pc = [c \in Calls |-> "ready"]
  /\ cfg = [c \in Calls |-> {}]
  /\ written = [c \in Calls |-> 0]
  /\ checker = "idle"
  /\ caller = [a \in Callers |-> "ready"]
  /\ scans = 0 /\ faults = 0 /\ lost = {}

-----------------------------------------------------------------------------
(* Commands, each the new value of what it changes *)

\* Mutation: an LREM that is taken to remove an entry whenever it is sent.
LRemActiveAlways == active' = active - 1
LRemActive == active' = IF active > 0 THEN active - 1 ELSE 0

\* HSET on a key that does not exist creates it.
HSet ==
  /\ hash' = IF hash = "none" THEN "stray" ELSE hash
  /\ UNCHANGED progress
DelJob == hash' = "none" /\ progress' = 0

XAdd(type) == events' = events \cup {type} /\ UNCHANGED lastProgress

\* Mutation: the progress event is left to the caller.
UpdateProgressSilently(p) ==
  /\ hash # "none"
  /\ progress' = p
  /\ UNCHANGED stream

\* The script updateProgress.
UpdateProgressScript(p) ==
  /\ hash # "none"
  /\ progress' = p
  /\ events' = events \cup {"progress"}
  /\ lastProgress' = p

\* Mutation: LTRIM 0 keepLogs-1.
TrimEnd(list, keep) == SubSeq(list, 1, IF Len(list) < keep THEN Len(list) ELSE keep)

\* LTRIM -keepLogs -1.
Trim(list, keep) ==
  IF Len(list) <= keep THEN list ELSE SubSeq(list, Len(list) - keep + 1, Len(list))

\* Mutation: the script does not ask whether the job exists.
AddLogAnyway(line, keep) == logs' = Trim(Append(logs, line), keep)

\* The script addLog: EXISTS, RPUSH and LTRIM at once.
AddLogScript(line, keep) ==
  /\ hash # "none"
  /\ logs' = Trim(Append(logs, line), keep)

Goto(c, label) == pc' = [pc EXCEPT ![c] = label]

-----------------------------------------------------------------------------
(* Queue.Add *)

StoreJobHash ==
  /\ add = "new"
  /\ add' = "stored"
  /\ hash' = "full" /\ progress' = 0
  /\ UNCHANGED <<queue, logs, stream, forward, opts, pc, cfg, written, checker, caller, spent>>

EnqueueJob ==
  /\ add = "stored"
  /\ add' = "queued"
  /\ queued' = queued + 1
  /\ UNCHANGED <<active, completed, failed, record, logs, stream, forward, opts, pc, cfg, written,
                 checker, caller, spent>>

\* EmitWaiting, after the job can be taken; its error is ignored.
EmitWaiting ==
  /\ add = "queued"
  /\ add' = "done"
  /\ XAdd("waiting")
  /\ UNCHANGED <<queue, record, logs, forward, opts, pc, cfg, written, checker, caller, spent>>

-----------------------------------------------------------------------------
(* processJob *)

\* The pickup, from the pop to the LPUSH on active.
Pickup(c) ==
  /\ pc[c] = "ready"
  /\ queued > 0
  /\ queued' = queued - 1
  /\ active' = active + 1
  /\ Goto(c, "load")
  /\ UNCHANGED <<completed, failed, record, logs, stream, forward, opts, add, cfg, written,
                 checker, caller, spent>>

\* getJobData: without a hash the call ends; a stray hash has no options.
Load(c) ==
  /\ pc[c] = "load"
  /\ \/ /\ hash = "none"
        /\ Goto(c, "done")
        /\ UNCHANGED cfg
     \/ /\ hash # "none"
        /\ Goto(c, "tell")
        /\ cfg' = [cfg EXCEPT ![c] = IF hash = "full" THEN opts ELSE {}]
  /\ UNCHANGED <<queue, record, logs, stream, forward, opts, add, written, checker, caller, spent>>

EmitActive(c) ==
  /\ pc[c] = "tell"
  /\ XAdd("active")
  /\ Goto(c, "work")
  /\ UNCHANGED <<queue, record, logs, forward, opts, add, cfg, written, checker, caller, spent>>

\* Job.UpdateProgress: for a missing job the script changes nothing, and the processor has
\* an error.
UpdateProgress(c, p) ==
  /\ pc[c] = "work"
  /\ UpdateProgressScript(p)
  /\ UNCHANGED <<queue, hash, logs, forward, opts, add, pc, cfg, written, checker, caller, spent>>

\* Job.Log, with the limit of the call's LogManager.
AddLog(c) ==
  /\ pc[c] = "work"
  /\ written[c] < MaxWrites[c]
  /\ written' = [written EXCEPT ![c] = @ + 1]
  /\ AddLogScript(<<c, written[c] + 1>>, KeepLogs[c])
  /\ UNCHANGED <<queue, record, stream, forward, opts, add, pc, cfg, checker, caller, spent>>

\* The processor returns: a result, an error that ends the job, or one that is retried.
Return(c) ==
  /\ pc[c] = "work"
  /\ \E label \in {"send", "fail", "retry"} : Goto(c, label)
  /\ UNCHANGED <<queue, record, logs, stream, forward, opts, add, cfg, written, checker, caller,
                 spent>>

\* Mutation: the error of Add is dropped.
SendUnreported(c) ==
  /\ pc[c] = "send"
  /\ \/ results' = TRUE
     \/ UNCHANGED results
  /\ Goto(c, "complete")
  /\ UNCHANGED <<queue, record, logs, stream, reported, opts, add, cfg, written, checker,
                 caller, spent>>

\* sendToResultsQueue: Add on the results queue, or OnError; after a lost reply both.
SendToResultsQueue(c) ==
  /\ pc[c] = "send"
  /\ \/ results' = TRUE /\ reported' \in {reported, TRUE}
     \/ UNCHANGED results /\ reported' = TRUE
  /\ Goto(c, "complete")
  /\ UNCHANGED <<queue, record, logs, stream, opts, add, cfg, written, checker, caller, spent>>

\* The LREM of Complete, moveToFailed and retryJob.  A nil result is not stored.
AfterReturnValue(c) == IF "complete" \in cfg[c] THEN "remove" ELSE "completed"
AfterFail(c)        == IF "fail" \in cfg[c] THEN "faildel" ELSE "failed"
Unlist(c) ==
  /\ LRemActive
  /\ \/ pc[c] = "complete" /\ \E label \in {"returnvalue", AfterReturnValue(c)} : Goto(c, label)
     \/ pc[c] = "fail" /\ Goto(c, AfterFail(c))
     \/ pc[c] = "retry" /\ Goto(c, "attempts")
  /\ UNCHANGED <<queued, completed, failed, record, logs, stream, forward, opts, add, cfg, written,
                 checker, caller, spent>>

\* HSET of returnvalue, failedReason or attemptsMade.
AfterHSet(c) ==
  CASE pc[c] = "returnvalue" -> AfterReturnValue(c)
    [] pc[c] = "failreason"  -> "tellfailed"
    [] pc[c] = "attempts"    -> "done"
StoreFields(c) ==
  /\ pc[c] \in {"returnvalue", "failreason", "attempts"}
  /\ HSet
  /\ Goto(c, AfterHSet(c))
  /\ UNCHANGED <<queue, logs, stream, forward, opts, add, cfg, written, checker, caller, spent>>

\* DEL of the hash, by Complete under removeOnComplete and by moveToFailed under removeOnFail:
\* only the former goes on to delete the logs.
RemoveHash(c) ==
  /\ \/ pc[c] = "remove" /\ Goto(c, "removelogs")
     \/ pc[c] = "faildel" /\ Goto(c, "tellfailed")
  /\ DelJob
  /\ UNCHANGED <<queue, logs, stream, forward, opts, add, cfg, written, checker, caller, spent>>

RemoveLogs(c) ==
  /\ pc[c] = "removelogs"
  /\ logs' = << >>
  /\ Goto(c, "tellcompleted")
  /\ UNCHANGED <<queue, record, stream, forward, opts, add, cfg, written, checker, caller, spent>>

\* Mutation: the way past the ZADD of completed does not come to the event.
FinishUntold(c) ==
  /\ \/ /\ pc[c] = "completed"
        /\ completed' = TRUE
        /\ Goto(c, "done")
        /\ UNCHANGED failed
     \/ /\ pc[c] = "failed"
        /\ failed' = "worker"
        /\ Goto(c, "failreason")
        /\ UNCHANGED completed
  /\ UNCHANGED <<queued, active, record, logs, stream, forward, opts, add, cfg, written,
                 checker, caller, spent>>

\* ZADD completed or failed.
Finish(c) ==
  /\ \/ /\ pc[c] = "completed"
        /\ completed' = TRUE
        /\ Goto(c, "tellcompleted")
        /\ UNCHANGED failed
     \/ /\ pc[c] = "failed"
        /\ failed' = "worker"
        /\ Goto(c, "failreason")
        /\ UNCHANGED completed
  /\ UNCHANGED <<queued, active, record, logs, stream, forward, opts, add, cfg, written,
                 checker, caller, spent>>

\* EmitCompleted, EmitFailed.
EmitFinal(c) ==
  /\ \/ pc[c] = "tellcompleted" /\ XAdd("completed")
     \/ pc[c] = "tellfailed" /\ XAdd("failed")
  /\ Goto(c, "done")
  /\ UNCHANGED <<queue, record, logs, forward, opts, add, cfg, written, checker, caller, spent>>

CallStep(c) ==
  \/ Pickup(c) \/ Load(c) \/ EmitActive(c)
  \/ AddLog(c) \/ (\E p \in Progresses : UpdateProgress(c, p))
  \/ Return(c) \/ SendToResultsQueue(c) \/ Unlist(c) \/ StoreFields(c) \/ RemoveHash(c)
  \/ RemoveLogs(c) \/ Finish(c) \/ EmitFinal(c)

-----------------------------------------------------------------------------
(* recoverStalledJob for an id that the scan read from active and found without a lock *)

Found ==
  /\ checker = "idle" /\ scans < MaxScans
  /\ active > 0
  /\ scans' = scans + 1
  /\ checker' = "lrem"
  /\ UNCHANGED <<queue, record, logs, stream, forward, opts, add, pc, cfg, written, caller,
                 faults, lost>>

\* LREM; the attempts the hash had decide what follows.
RecoverLRem ==
  /\ checker = "lrem"
  /\ LRemActive
  /\ checker' \in {"requeue", "giveup"}
  /\ UNCHANGED <<queued, completed, failed, record, logs, stream, forward, opts, add, pc, cfg,
                 written, caller, spent>>

RecoverMove ==
  /\ \/ /\ checker = "requeue"
        /\ queued' = queued + 1
        /\ checker' = "attempts"
        /\ UNCHANGED failed
     \/ /\ checker = "giveup"
        /\ failed' = IF failed = "worker" THEN failed ELSE "other"
        /\ checker' = "reason"
        /\ UNCHANGED queued
  /\ UNCHANGED <<active, completed, record, logs, stream, forward, opts, add, pc, cfg, written,
                 caller, spent>>

\* HSET attemptsMade or failedReason; no event is sent.
RecoverHSet ==
  /\ checker \in {"attempts", "reason"}
  /\ HSet
  /\ checker' = "idle"
  /\ UNCHANGED <<queue, logs, stream, forward, opts, add, pc, cfg, written, caller, spent>>

CheckerStep == Found \/ RecoverLRem \/ RecoverMove \/ RecoverHSet

-----------------------------------------------------------------------------
(* RemoveJob, Clean and RetryJob *)

Step(a, from, to) == caller[a] = from /\ caller' = [caller EXCEPT ![a] = to]

StartCall(a) ==
  /\ \/ Step(a, "ready", "unlist") /\ add = "done"
     \/ Step(a, "ready", "uncomplete") /\ completed
     \/ Step(a, "ready", "unfail") /\ failed # "none"
     \/ Step(a, "ready", "zrem") /\ failed # "none"
  /\ UNCHANGED <<queue, record, logs, stream, forward, opts, add, pc, cfg, written, checker,
                 spent>>

\* RemoveJob takes the id out of every list and set (QueueAdmin.tla has a step for each), Clean
\* out of the one it was found in, in which it need not be any more.
TakeOut(a) ==
  /\ \/ /\ Step(a, "unlist", "deljob")
        /\ queued' = 0 /\ active' = 0 /\ completed' = FALSE /\ failed' = "none"
     \/ /\ Step(a, "uncomplete", "deljob")
        /\ completed' = FALSE /\ UNCHANGED <<queued, active, failed>>
     \/ /\ Step(a, "unfail", "deljob")
        /\ failed' = "none" /\ UNCHANGED <<queued, active, completed>>
  /\ UNCHANGED <<record, logs, stream, forward, opts, add, pc, cfg, written, checker, spent>>

DeleteHash(a) ==
  /\ Step(a, "deljob", "dellogs")
  /\ DelJob
  /\ UNCHANGED <<queue, logs, stream, forward, opts, add, pc, cfg, written, checker, spent>>

DeleteLogs(a) ==
  /\ Step(a, "dellogs", "done")
  /\ logs' = << >>
  /\ UNCHANGED <<queue, record, stream, forward, opts, add, pc, cfg, written, checker, spent>>

RetryZRem(a) ==
  /\ Step(a, "zrem", "reset")
  /\ failed' = "none"
  /\ UNCHANGED <<queued, active, completed, record, logs, stream, forward, opts, add, pc, cfg,
                 written, checker, spent>>

RetryReset(a) ==
  /\ Step(a, "reset", "push")
  /\ HSet
  /\ UNCHANGED <<queue, logs, stream, forward, opts, add, pc, cfg, written, checker, spent>>

\* The reply of the pipeline may be lost.
RetryPush(a) ==
  /\ \/ Step(a, "push", "done") /\ UNCHANGED faults
     \/ Step(a, "push", "rollback") /\ faults < MaxFaults /\ faults' = faults + 1
  /\ queued' = queued + 1
  /\ UNCHANGED <<active, completed, failed, record, logs, stream, forward, opts, add, pc, cfg,
                 written, checker, scans, lost>>

\* ZADD failed, after the pipeline failed.
RollBack(a) ==
  /\ Step(a, "rollback", "done")
  /\ failed' = IF failed = "worker" THEN failed ELSE "other"
  /\ UNCHANGED <<queued, active, completed, record, logs, stream, forward, opts, add, pc, cfg,
                 written, checker, spent>>

CallerStep(a) ==
  \/ StartCall(a) \/ TakeOut(a) \/ DeleteHash(a) \/ DeleteLogs(a)
  \/ RetryZRem(a) \/ RetryReset(a) \/ RetryPush(a) \/ RollBack(a)

-----------------------------------------------------------------------------
(* Faults *)

\* What is not deleted, or not told, when a call does not send its next command.
Skipped(c) ==
  CASE pc[c] = "removelogs" -> {"logs"}
    [] pc[c] \in {"tellcompleted", "tellfailed"} -> {"event"}
    [] OTHER -> {}

\* The worker's process dies.
Crash(c) ==
  /\ pc[c] \notin {"ready", "done"}
  /\ faults < MaxFaults /\ faults' = faults + 1
  /\ lost' = lost \cup Skipped(c) \cup (IF pc[c] = "failreason" THEN {"event"} ELSE {})
  /\ Goto(c, "done")
  /\ UNCHANGED <<queue, record, logs, stream, forward, opts, add, cfg, written, checker, caller,
                 scans>>

\* A command fails.  HGETALL and the LREM of Complete end the call; other errors are ignored.
After(c) ==
  CASE pc[c] \in {"load", "complete", "tellcompleted", "tellfailed"} -> "done"
    [] pc[c] = "tell"       -> "work"
    [] pc[c] = "remove"     -> "removelogs"
    [] pc[c] = "completed"  -> "tellcompleted"
    [] pc[c] = "removelogs" -> "tellcompleted"
    [] pc[c] = "fail"       -> AfterFail(c)
    [] pc[c] = "failed"     -> "failreason"
    [] pc[c] = "faildel"    -> "tellfailed"
    [] pc[c] = "retry"      -> "attempts"
    [] pc[c] \in {"returnvalue", "failreason", "attempts"} -> AfterHSet(c)
CommandFails(c) ==
  /\ pc[c] \notin {"ready", "work", "send", "done"}
  /\ faults < MaxFaults /\ faults' = faults + 1
  /\ lost' = lost \cup Skipped(c)
  /\ Goto(c, After(c))
  /\ UNCHANGED <<queue, record, logs, stream, forward, opts, add, cfg, written, checker, caller,
                 scans>>

\* The pipeline of RemoveJob or Clean ends before its last command, or that of RetryJob.
CallerFails(a) ==
  /\ caller[a] \in {"unlist", "uncomplete", "unfail", "deljob", "dellogs", "reset", "push"}
  /\ faults < MaxFaults /\ faults' = faults + 1
  /\ lost' = IF caller[a] = "dellogs" THEN lost \cup {"logs"} ELSE lost
  /\ caller' = [caller EXCEPT ![a] = IF @ \in {"reset", "push"} THEN "rollback" ELSE "done"]
  /\ UNCHANGED <<queue, record, logs, stream, forward, opts, add, pc, cfg, written, checker,
                 scans>>

Next ==
  \/ StoreJobHash \/ EnqueueJob \/ EmitWaiting
  \/ \E c \in Calls : CallStep(c) \/ Crash(c) \/ CommandFails(c)
  \/ CheckerStep
  \/ \E a \in Callers : CallerStep(a) \/ CallerFails(a)

Spec == Init /\ [][Next]_vars

-----------------------------------------------------------------------------
(* Properties *)

\* Logs do not outlive their job: while the hash is gone, its deleter has still to send DEL for
\* the log list, and no line is added.  Except under removeOnFail, where moveToFailed forgets
\* the list, and after a fault just before that DEL.
LogsOwned ==
  logs # << >> /\ hash = "none" =>
    \/ \E c \in Calls : pc[c] = "removelogs"
    \/ \E a \in Callers : caller[a] = "dellogs"
    \/ "fail" \in opts \/ "logs" \in lost

\* Trimming drops the oldest lines: a call's lines are in order and without a gap, whatever
\* other calls append between them and with whatever limits.
LogsNewest ==
  /\ \A i, k \in DOMAIN logs :
       i < k /\ logs[i][1] = logs[k][1] => logs[i][2] < logs[k][2]
  /\ \A i \in DOMAIN logs : \A n \in logs[i][2]..written[logs[i][1]] :
       \E k \in DOMAIN logs : logs[k] = <<logs[i][1], n>>

\* The hash and the stream agree on the progress, whichever calls reported it.
ProgressTold == progress # 0 => "progress" \in events /\ progress = lastProgress

\* A job a worker put into completed or failed is told of in the stream, or about to be;
\* what the stalled checker puts into failed is not.
FinalTold ==
  /\ completed => \/ "completed" \in events \/ "event" \in lost
                  \/ \E c \in Calls : pc[c] = "tellcompleted"
  /\ failed = "worker" => \/ "failed" \in events \/ "event" \in lost
                          \/ \E c \in Calls : pc[c] \in {"failreason", "tellfailed"}

\* No job is completed whose result is neither in the results queue nor reported to OnError.
ResultKept == completed => results \/ reported
=============================================================================
