-------------------------- MODULE JobRecordsProofs --------------------------
(***************************************************************************)
(* Proofs about JobRecords, for any number of calls, callers, log lines,   *)
(* recoveries and faults.  ProgressTold and FinalTold are inductive as     *)
(* they stand.  LogsOwned needs that a call deletes the hash of a failed   *)
(* job only under removeOnFail (Removers); ResultKept that a call on the   *)
(* way to completed has sent its result (Sent); LogsNewest that no line    *)
(* has a number its call has not come to (Newest).                         *)
(***************************************************************************)
EXTENDS JobRecords, SequenceTheorems, TLAPS

\* The initial state has the types.
LEMMA InitTypes == Init => TypeOK
<1> SUFFICES ASSUME Init PROVE TypeOK
  OBVIOUS
<1>1. DataTypeOK
  BY RecordsAssumption DEF RecordsAssumption, Init, DataTypeOK, RemoveOn
<1>2. LogTypeOK
  BY DEF Init, LogTypeOK
<1>3. ActorTypeOK
  BY DEF Init, ActorTypeOK, CallLabels, CheckerLabels, CallerLabels
<1>4. FlagTypeOK
  BY Zenon DEF Init, FlagTypeOK
<1>5. QED
  BY <1>1, <1>2, <1>3, <1>4 DEF TypeOK

\* The values in Redis, and the counters.
LEMMA DataTypes == TypeOK /\ [Next]_vars => DataTypeOK'
<1> SUFFICES ASSUME TypeOK, [Next]_vars PROVE DataTypeOK'
  OBVIOUS
<1> DataTypeOK
  BY DEF TypeOK
<1> USE DEF DataTypeOK, queue, record, stream, forward, spent
<1>1. CASE StoreJobHash
  BY <1>1 DEF StoreJobHash
<1>2. CASE EnqueueJob
  BY <1>2 DEF EnqueueJob
<1>3. CASE EmitWaiting
  BY <1>3 DEF EmitWaiting, XAdd
<1>4. ASSUME NEW c \in Calls, CallStep(c) PROVE DataTypeOK'
  <2>1. CASE Pickup(c)
    BY <2>1 DEF Pickup
  <2>2. CASE Load(c)
    BY <2>2 DEF Load
  <2>3. CASE EmitActive(c)
    BY <2>3 DEF EmitActive, XAdd
  <2>4. CASE AddLog(c)
    BY <2>4 DEF AddLog, AddLogScript
  <2>5. CASE Return(c)
    BY <2>5 DEF Return
  <2>6. CASE SendToResultsQueue(c)
    BY <2>6 DEF SendToResultsQueue
  <2>7. CASE Unlist(c)
    BY <2>7 DEF Unlist, LRemActive
  <2>8. CASE StoreFields(c)
    BY <2>8 DEF StoreFields, HSet
  <2>9. CASE RemoveHash(c)
    BY <2>9 DEF RemoveHash, DelJob
  <2>10. CASE RemoveLogs(c)
    BY <2>10 DEF RemoveLogs
  <2>11. CASE Finish(c)
    BY <2>11 DEF Finish
  <2>12. CASE EmitFinal(c)
    BY <2>12 DEF EmitFinal, XAdd
  <2>13. CASE \E p \in Progresses : UpdateProgress(c, p)
    BY <2>13, RecordsAssumption DEF UpdateProgress, UpdateProgressScript, RecordsAssumption
  <2>14. QED
    BY <1>4, <2>1, <2>2, <2>3, <2>4, <2>5, <2>6, <2>7, <2>8, <2>9, <2>10, <2>11, <2>12,
       <2>13 DEF CallStep
<1>5. ASSUME NEW c \in Calls, Crash(c) PROVE DataTypeOK'
  BY <1>5 DEF Crash, Skipped
<1>6. ASSUME NEW c \in Calls, CommandFails(c) PROVE DataTypeOK'
  BY <1>6 DEF CommandFails, Skipped
<1>7. CASE Found
  BY <1>7 DEF Found
<1>8. CASE RecoverLRem
  BY <1>8 DEF RecoverLRem, LRemActive
<1>9. CASE RecoverMove
  BY <1>9 DEF RecoverMove
<1>10. CASE RecoverHSet
  BY <1>10 DEF RecoverHSet, HSet
<1>11. ASSUME NEW a \in Callers, CallerStep(a) PROVE DataTypeOK'
  <2>1. CASE StartCall(a)
    BY <2>1 DEF StartCall
  <2>2. CASE TakeOut(a)
    BY <2>2 DEF TakeOut
  <2>3. CASE DeleteHash(a)
    BY <2>3 DEF DeleteHash, DelJob
  <2>4. CASE DeleteLogs(a)
    BY <2>4 DEF DeleteLogs
  <2>5. CASE RetryZRem(a)
    BY <2>5 DEF RetryZRem
  <2>6. CASE RetryReset(a)
    BY <2>6 DEF RetryReset, HSet
  <2>7. CASE RetryPush(a)
    BY <2>7 DEF RetryPush
  <2>8. CASE RollBack(a)
    BY <2>8 DEF RollBack
  <2>9. QED
    BY <1>11, <2>1, <2>2, <2>3, <2>4, <2>5, <2>6, <2>7, <2>8 DEF CallerStep
<1>12. ASSUME NEW a \in Callers, CallerFails(a) PROVE DataTypeOK'
  BY <1>12 DEF CallerFails
<1>13. CASE UNCHANGED vars
  BY <1>13 DEF vars
<1>14. QED
  BY <1>1, <1>2, <1>3, <1>4, <1>5, <1>6, <1>7, <1>8, <1>9, <1>10, <1>11, <1>12, <1>13 DEF Next,
     CheckerStep

\* The flags, which change only to TRUE or FALSE.
LEMMA FlagTypes == TypeOK /\ [Next]_vars => FlagTypeOK'
<1> SUFFICES ASSUME TypeOK, [Next]_vars PROVE FlagTypeOK'
  OBVIOUS
<1>1. completed' \in {completed, TRUE, FALSE}
  BY Zenon DEF Next, vars, queue, StoreJobHash, EnqueueJob, EmitWaiting, CallStep, Pickup, Load,
     EmitActive, AddLog, AddLogScript, UpdateProgress, UpdateProgressScript, Return,
     SendToResultsQueue, Unlist, StoreFields, RemoveHash, RemoveLogs, Finish, EmitFinal, Crash,
     CommandFails, CheckerStep, Found, RecoverLRem, RecoverMove, RecoverHSet, CallerStep,
     CallerFails, StartCall, TakeOut, DeleteHash, DeleteLogs, RetryZRem, RetryReset, RetryPush,
     RollBack
<1>2. results' \in {results, TRUE} /\ reported' \in {reported, TRUE}
  BY Zenon DEF Next, vars, forward, StoreJobHash, EnqueueJob, EmitWaiting, CallStep, Pickup, Load,
     EmitActive, AddLog, AddLogScript, UpdateProgress, UpdateProgressScript, Return,
     SendToResultsQueue, Unlist, StoreFields, RemoveHash, RemoveLogs, Finish, EmitFinal, Crash,
     CommandFails, CheckerStep, Found, RecoverLRem, RecoverMove, RecoverHSet, CallerStep,
     CallerFails, StartCall, TakeOut, DeleteHash, DeleteLogs, RetryZRem, RetryReset, RetryPush,
     RollBack
<1>3. QED
  BY Zenon, <1>1, <1>2 DEF TypeOK, FlagTypeOK

\* What LTRIM leaves: the last lines, `keep` of them if there are so many.
LEMMA TrimLast ==
  ASSUME NEW S, NEW list \in Seq(S), NEW keep \in Nat \ {0}
  PROVE  \E cut \in 0..Len(list) :
           /\ Trim(list, keep) \in Seq(S)
           /\ Len(Trim(list, keep)) = Len(list) - cut
           /\ \A i \in 1..(Len(list) - cut) : Trim(list, keep)[i] = list[i + cut]
<1>1. CASE Len(list) <= keep
  <2>1. Trim(list, keep) = list /\ 0 \in 0..Len(list)
    BY <1>1 DEF Trim
  <2>2. \A i \in 1..(Len(list) - 0) : list[i] = list[i + 0]
    OBVIOUS
  <2>3. QED
    BY <2>1, <2>2
<1>2. CASE Len(list) > keep
  <2>1. Trim(list, keep) = SubSeq(list, Len(list) - keep + 1, Len(list))
    BY <1>2 DEF Trim
  <2> DEFINE cut == Len(list) - keep
  <2>2. cut \in 0..Len(list) /\ Len(list) \in Nat /\ cut + 1 \in Int /\ cut + 1 <= Len(list)
    BY <1>2
  <2>3. \A i \in (cut + 1)..Len(list) : list[i] \in S
    BY <2>2
  <2> HIDE DEF cut
  <2>4. /\ SubSeq(list, cut + 1, Len(list)) \in Seq(S)
        /\ Len(SubSeq(list, cut + 1, Len(list))) = Len(list) - (cut + 1) + 1
        /\ \A i \in 1..(Len(list) - (cut + 1) + 1) :
             SubSeq(list, cut + 1, Len(list))[i] = list[(cut + 1) + i - 1]
    BY <2>2, <2>3, SubSeqProperties
  <2>5. \A i \in 1..(Len(list) - cut) : SubSeq(list, cut + 1, Len(list))[i] = list[i + cut]
    <3> TAKE i \in 1..(Len(list) - cut)
    <3>1. i \in 1..(Len(list) - (cut + 1) + 1) /\ (cut + 1) + i - 1 = i + cut
      BY <2>2
    <3>2. QED
      BY <2>4, <3>1
  <2>6. Trim(list, keep) = SubSeq(list, cut + 1, Len(list))
    BY <2>1 DEF cut
  <2>7. Len(list) - (cut + 1) + 1 = Len(list) - cut
    BY <2>2
  <2>8. QED
    BY <2>2, <2>4, <2>5, <2>6, <2>7
<1>3. QED
  BY <1>1, <1>2

\* The log list.
LEMMA LogTypes == TypeOK /\ [Next]_vars => LogTypeOK'
<1> SUFFICES ASSUME TypeOK, [Next]_vars PROVE LogTypeOK'
  OBVIOUS
<1> LogTypeOK
  BY DEF TypeOK
<1>1. ASSUME NEW c \in Calls, AddLog(c) PROVE LogTypeOK'
  <2>1. <<c, written[c] + 1>> \in Calls \X (Nat \ {0})
    BY DEF LogTypeOK
  <2>2. Append(logs, <<c, written[c] + 1>>) \in Seq(Calls \X (Nat \ {0}))
    BY <2>1, AppendProperties DEF LogTypeOK
  <2>3. KeepLogs[c] \in Nat \ {0}
    BY RecordsAssumption DEF RecordsAssumption
  <2>4. logs' \in Seq(Calls \X (Nat \ {0}))
    BY <1>1, <2>2, <2>3, TrimLast DEF AddLog, AddLogScript
  <2>5. written' \in [Calls -> Nat]
    BY <1>1 DEF AddLog, AddLogScript, LogTypeOK
  <2>6. QED
    BY <2>4, <2>5 DEF LogTypeOK
<1>2. ASSUME logs' = << >>, UNCHANGED written PROVE LogTypeOK'
  BY <1>2 DEF LogTypeOK
<1>3. ASSUME UNCHANGED <<logs, written>> PROVE LogTypeOK'
  BY <1>3 DEF LogTypeOK
<1>4. \/ \E c \in Calls : AddLog(c)
      \/ logs' = << >> /\ UNCHANGED written
      \/ UNCHANGED <<logs, written>>
  BY DEF Next, vars, StoreJobHash, EnqueueJob, EmitWaiting, CallStep, Pickup, Load, EmitActive,
     UpdateProgress, UpdateProgressScript, Return, SendToResultsQueue, Unlist, StoreFields,
     RemoveHash, RemoveLogs, Finish, EmitFinal, Crash, CommandFails, CheckerStep, Found,
     RecoverLRem, RecoverMove, RecoverHSet, CallerStep, CallerFails, StartCall, TakeOut,
     DeleteHash, DeleteLogs, RetryZRem, RetryReset, RetryPush, RollBack
<1>5. QED
  BY <1>1, <1>2, <1>3, <1>4

\* What the producer, the calls, the checker and the callers are about to do.
LEMMA ActorTypes == TypeOK /\ [Next]_vars => ActorTypeOK'
<1> SUFFICES ASSUME TypeOK, [Next]_vars PROVE ActorTypeOK'
  OBVIOUS
<1> ActorTypeOK /\ opts \subseteq RemoveOn
  BY DEF TypeOK, DataTypeOK
<1> USE DEF ActorTypeOK, CallLabels, CheckerLabels, CallerLabels
<1>1. CASE StoreJobHash \/ EnqueueJob \/ EmitWaiting
  BY <1>1 DEF StoreJobHash, EnqueueJob, EmitWaiting
<1>2. ASSUME NEW c \in Calls, CallStep(c) PROVE ActorTypeOK'
  <2> USE DEF Goto, AfterReturnValue, AfterFail, AfterHSet
  <2>1. CASE Pickup(c)
    BY <2>1 DEF Pickup
  <2>2. CASE Load(c)
    BY <2>2 DEF Load
  <2>3. CASE EmitActive(c)
    BY <2>3 DEF EmitActive
  <2>4. CASE AddLog(c)
    BY <2>4 DEF AddLog, AddLogScript
  <2>5. CASE Return(c)
    BY <2>5 DEF Return
  <2>6. CASE SendToResultsQueue(c)
    BY <2>6 DEF SendToResultsQueue
  <2>7. CASE Unlist(c)
    BY <2>7 DEF Unlist
  <2>8. CASE StoreFields(c)
    BY <2>8 DEF StoreFields
  <2>9. CASE RemoveHash(c)
    BY <2>9 DEF RemoveHash
  <2>10. CASE RemoveLogs(c)
    BY <2>10 DEF RemoveLogs
  <2>11. CASE Finish(c)
    BY <2>11 DEF Finish
  <2>12. CASE EmitFinal(c)
    BY <2>12 DEF EmitFinal
  <2>13. CASE \E p \in Progresses : UpdateProgress(c, p)
    BY <2>13 DEF UpdateProgress, UpdateProgressScript
  <2>14. QED
    BY <1>2, <2>1, <2>2, <2>3, <2>4, <2>5, <2>6, <2>7, <2>8, <2>9, <2>10, <2>11, <2>12,
       <2>13 DEF CallStep
<1>3. ASSUME NEW c \in Calls, Crash(c) PROVE ActorTypeOK'
  BY <1>3 DEF Crash, Goto
<1>4. ASSUME NEW c \in Calls, CommandFails(c) PROVE ActorTypeOK'
  <2>1. After(c) \in CallLabels
    BY <1>4 DEF CommandFails, After, AfterHSet, AfterReturnValue, AfterFail
  <2>2. pc' = [pc EXCEPT ![c] = After(c)]
    BY <1>4 DEF CommandFails, Goto
  <2>3. QED
    BY <1>4, <2>1, <2>2 DEF CommandFails
<1>5. CASE CheckerStep
  BY <1>5 DEF CheckerStep, Found, RecoverLRem, RecoverMove, RecoverHSet
<1>6. ASSUME NEW a \in Callers, CallerStep(a) PROVE ActorTypeOK'
  <2> USE DEF Step
  <2>1. CASE StartCall(a)
    BY <2>1 DEF StartCall
  <2>2. CASE TakeOut(a)
    BY <2>2 DEF TakeOut
  <2>3. CASE DeleteHash(a)
    BY <2>3 DEF DeleteHash
  <2>4. CASE DeleteLogs(a)
    BY <2>4 DEF DeleteLogs
  <2>5. CASE RetryZRem(a)
    BY <2>5 DEF RetryZRem
  <2>6. CASE RetryReset(a)
    BY <2>6 DEF RetryReset
  <2>7. CASE RetryPush(a)
    BY <2>7 DEF RetryPush
  <2>8. CASE RollBack(a)
    BY <2>8 DEF RollBack
  <2>9. QED
    BY <1>6, <2>1, <2>2, <2>3, <2>4, <2>5, <2>6, <2>7, <2>8 DEF CallerStep
<1>7. ASSUME NEW a \in Callers, CallerFails(a) PROVE ActorTypeOK'
  BY <1>7 DEF CallerFails
<1>8. CASE UNCHANGED vars
  BY <1>8 DEF vars
<1>9. QED
  BY <1>1, <1>2, <1>3, <1>4, <1>5, <1>6, <1>7, <1>8 DEF Next

\* Every variable of JobRecords keeps its type.
THEOREM TypeCorrect == Spec => []TypeOK
<1>1. TypeOK /\ [Next]_vars => TypeOK'
  BY DataTypes, FlagTypes, LogTypes, ActorTypes DEF TypeOK
<1>2. QED
  BY <1>1, InitTypes, PTL DEF Spec

-----------------------------------------------------------------------------
\* Only a call under removeOnFail comes to delete the hash of a failed job.
Removers ==
  \A c \in Calls : /\ "fail" \in cfg[c] => "fail" \in opts
                   /\ pc[c] = "faildel" => "fail" \in cfg[c]

LogInv == Removers /\ LogsOwned

\* Every step keeps what LogsOwned needs.
LEMMA LogStep == TypeOK /\ LogInv /\ [Next]_vars => LogInv'
<1> SUFFICES ASSUME TypeOK, LogInv, [Next]_vars PROVE LogInv'
  OBVIOUS
<1> ActorTypeOK /\ DataTypeOK
  BY DEF TypeOK
<1> USE DEF ActorTypeOK, LogInv, Removers, LogsOwned, record, spent
<1>1. CASE StoreJobHash
  BY <1>1 DEF StoreJobHash
<1>2. CASE EnqueueJob
  BY <1>2 DEF EnqueueJob
<1>3. CASE EmitWaiting
  BY <1>3 DEF EmitWaiting, XAdd
<1>4. ASSUME NEW c \in Calls, CallStep(c) PROVE LogInv'
  <2> USE DEF Goto
  <2>1. CASE Pickup(c)
    BY <2>1 DEF Pickup
  <2>2. CASE Load(c)
    BY <2>2 DEF Load
  <2>3. CASE EmitActive(c)
    BY <2>3 DEF EmitActive, XAdd
  <2>4. CASE AddLog(c)
    BY <2>4 DEF AddLog, AddLogScript
  <2>5. CASE Return(c)
    BY <2>5 DEF Return
  <2>6. CASE SendToResultsQueue(c)
    BY <2>6 DEF SendToResultsQueue
  <2>7. CASE Unlist(c)
    BY <2>7 DEF Unlist, AfterReturnValue, AfterFail
  <2>8. CASE StoreFields(c)
    BY <2>8 DEF StoreFields, HSet, AfterHSet, AfterReturnValue
  <2>9. CASE RemoveHash(c)
    BY <2>9 DEF RemoveHash, DelJob
  <2>10. CASE RemoveLogs(c)
    BY <2>10 DEF RemoveLogs
  <2>11. CASE Finish(c)
    BY <2>11 DEF Finish
  <2>12. CASE EmitFinal(c)
    BY <2>12 DEF EmitFinal, XAdd
  <2>13. CASE \E p \in Progresses : UpdateProgress(c, p)
    BY <2>13 DEF UpdateProgress, UpdateProgressScript
  <2>14. QED
    BY <1>4, <2>1, <2>2, <2>3, <2>4, <2>5, <2>6, <2>7, <2>8, <2>9, <2>10, <2>11, <2>12,
       <2>13 DEF CallStep
<1>5. ASSUME NEW c \in Calls, Crash(c) PROVE LogInv'
  BY <1>5 DEF Crash, Skipped, Goto
<1>6. ASSUME NEW c \in Calls, CommandFails(c) PROVE LogInv'
  <2>1. pc' = [pc EXCEPT ![c] = After(c)] /\ UNCHANGED <<record, logs, opts, cfg, caller>>
    BY <1>6 DEF CommandFails, Goto
  <2>2. After(c) = "faildel" => "fail" \in cfg[c]
    BY <1>6 DEF CommandFails, After, AfterHSet, AfterReturnValue, AfterFail, CallLabels
  <2>3. pc[c] = "removelogs" => "logs" \in lost'
    BY <1>6 DEF CommandFails, Skipped
  <2>4. lost \subseteq lost'
    BY <1>6 DEF CommandFails
  <2>5. Removers'
    BY <2>1, <2>2
  <2>6. LogsOwned'
    BY <2>1, <2>3, <2>4
  <2>7. QED
    BY <2>5, <2>6
<1>7. CASE Found
  BY <1>7 DEF Found
<1>8. CASE RecoverLRem
  BY <1>8 DEF RecoverLRem
<1>9. CASE RecoverMove
  BY <1>9 DEF RecoverMove
<1>10. CASE RecoverHSet
  BY <1>10 DEF RecoverHSet, HSet
<1>11. ASSUME NEW a \in Callers, CallerStep(a) PROVE LogInv'
  <2> USE DEF Step
  <2>1. CASE StartCall(a)
    BY <2>1 DEF StartCall
  <2>2. CASE TakeOut(a)
    BY <2>2 DEF TakeOut
  <2>3. CASE DeleteHash(a)
    BY <2>3 DEF DeleteHash, DelJob
  <2>4. CASE DeleteLogs(a)
    BY <2>4 DEF DeleteLogs
  <2>5. CASE RetryZRem(a)
    BY <2>5 DEF RetryZRem
  <2>6. CASE RetryReset(a)
    BY <2>6 DEF RetryReset, HSet
  <2>7. CASE RetryPush(a)
    BY <2>7 DEF RetryPush
  <2>8. CASE RollBack(a)
    BY <2>8 DEF RollBack
  <2>9. QED
    BY <1>11, <2>1, <2>2, <2>3, <2>4, <2>5, <2>6, <2>7, <2>8 DEF CallerStep
<1>12. ASSUME NEW a \in Callers, CallerFails(a) PROVE LogInv'
  BY <1>12 DEF CallerFails
<1>13. CASE UNCHANGED vars
  BY <1>13 DEF vars
<1>14. QED
  BY <1>1, <1>2, <1>3, <1>4, <1>5, <1>6, <1>7, <1>8, <1>9, <1>10, <1>11, <1>12, <1>13 DEF Next,
     CheckerStep

\* No log list outlives its job, but for removeOnFail and faults.
THEOREM LogsNeverOrphaned == Spec => []LogsOwned
<1>1. Init => LogInv
  BY DEF Init, LogInv, Removers, LogsOwned
<1>2. LogInv => LogsOwned
  BY DEF LogInv
<1>3. QED
  BY <1>1, <1>2, LogStep, TypeCorrect, PTL DEF Spec

-----------------------------------------------------------------------------
\* The script updateProgress sets the field and sends the event at once, nothing else does either.
LEMMA ProgressStep == TypeOK /\ ProgressTold /\ [Next]_vars => ProgressTold'
<1> SUFFICES ASSUME TypeOK, ProgressTold, [Next]_vars PROVE ProgressTold'
  OBVIOUS
<1> USE DEF ProgressTold, record, stream
<1>1. CASE StoreJobHash
  BY <1>1 DEF StoreJobHash
<1>2. CASE EnqueueJob
  BY <1>2 DEF EnqueueJob
<1>3. CASE EmitWaiting
  BY <1>3 DEF EmitWaiting, XAdd
<1>4. ASSUME NEW c \in Calls, CallStep(c) PROVE ProgressTold'
  <2> USE DEF Goto
  <2>1. CASE Pickup(c)
    BY <2>1 DEF Pickup
  <2>2. CASE Load(c)
    BY <2>2 DEF Load
  <2>3. CASE EmitActive(c)
    BY <2>3 DEF EmitActive, XAdd
  <2>4. CASE AddLog(c)
    BY <2>4 DEF AddLog, AddLogScript
  <2>5. CASE Return(c)
    BY <2>5 DEF Return
  <2>6. CASE SendToResultsQueue(c)
    BY <2>6 DEF SendToResultsQueue
  <2>7. CASE Unlist(c)
    BY <2>7 DEF Unlist, AfterReturnValue, AfterFail
  <2>8. CASE StoreFields(c)
    BY <2>8 DEF StoreFields, HSet, AfterHSet, AfterReturnValue
  <2>9. CASE RemoveHash(c)
    BY <2>9 DEF RemoveHash, DelJob
  <2>10. CASE RemoveLogs(c)
    BY <2>10 DEF RemoveLogs
  <2>11. CASE Finish(c)
    BY <2>11 DEF Finish
  <2>12. CASE EmitFinal(c)
    BY <2>12 DEF EmitFinal, XAdd
  <2>13. CASE \E p \in Progresses : UpdateProgress(c, p)
    BY <2>13 DEF UpdateProgress, UpdateProgressScript
  <2>14. QED
    BY <1>4, <2>1, <2>2, <2>3, <2>4, <2>5, <2>6, <2>7, <2>8, <2>9, <2>10, <2>11, <2>12,
       <2>13 DEF CallStep
<1>5. ASSUME NEW c \in Calls, Crash(c) PROVE ProgressTold'
  BY <1>5 DEF Crash, Skipped, Goto
<1>6. ASSUME NEW c \in Calls, CommandFails(c) PROVE ProgressTold'
  BY <1>6 DEF CommandFails, Skipped, Goto, After, AfterHSet, AfterReturnValue, AfterFail
<1>7. CASE Found
  BY <1>7 DEF Found
<1>8. CASE RecoverLRem
  BY <1>8 DEF RecoverLRem
<1>9. CASE RecoverMove
  BY <1>9 DEF RecoverMove
<1>10. CASE RecoverHSet
  BY <1>10 DEF RecoverHSet, HSet
<1>11. ASSUME NEW a \in Callers, CallerStep(a) PROVE ProgressTold'
  <2> USE DEF Step
  <2>1. CASE StartCall(a)
    BY <2>1 DEF StartCall
  <2>2. CASE TakeOut(a)
    BY <2>2 DEF TakeOut
  <2>3. CASE DeleteHash(a)
    BY <2>3 DEF DeleteHash, DelJob
  <2>4. CASE DeleteLogs(a)
    BY <2>4 DEF DeleteLogs
  <2>5. CASE RetryZRem(a)
    BY <2>5 DEF RetryZRem
  <2>6. CASE RetryReset(a)
    BY <2>6 DEF RetryReset, HSet
  <2>7. CASE RetryPush(a)
    BY <2>7 DEF RetryPush
  <2>8. CASE RollBack(a)
    BY <2>8 DEF RollBack
  <2>9. QED
    BY <1>11, <2>1, <2>2, <2>3, <2>4, <2>5, <2>6, <2>7, <2>8 DEF CallerStep
<1>12. ASSUME NEW a \in Callers, CallerFails(a) PROVE ProgressTold'
  BY <1>12 DEF CallerFails
<1>13. CASE UNCHANGED vars
  BY <1>13 DEF vars
<1>14. QED
  BY <1>1, <1>2, <1>3, <1>4, <1>5, <1>6, <1>7, <1>8, <1>9, <1>10, <1>11, <1>12, <1>13 DEF Next,
     CheckerStep

\* The progress of the hash is that of the last progress event, whichever calls reported it.
THEOREM ProgressAgrees == Spec => []ProgressTold
<1>1. Init => ProgressTold
  BY DEF Init, ProgressTold
<1>2. QED
  BY <1>1, ProgressStep, TypeCorrect, PTL DEF Spec

-----------------------------------------------------------------------------
\* A completed or failed job is told of in the stream.
LEMMA ToldStep == TypeOK /\ FinalTold /\ [Next]_vars => FinalTold'
<1> SUFFICES ASSUME TypeOK, FinalTold, [Next]_vars PROVE FinalTold'
  OBVIOUS
<1> ActorTypeOK
  BY DEF TypeOK
<1> USE DEF ActorTypeOK, FinalTold, queue, stream, spent
<1>1. CASE StoreJobHash
  BY <1>1 DEF StoreJobHash
<1>2. CASE EnqueueJob
  BY <1>2 DEF EnqueueJob
<1>3. CASE EmitWaiting
  BY <1>3 DEF EmitWaiting, XAdd
<1>4. ASSUME NEW c \in Calls, CallStep(c) PROVE FinalTold'
  <2> USE DEF Goto
  <2>1. CASE Pickup(c)
    BY <2>1 DEF Pickup
  <2>2. CASE Load(c)
    BY <2>2 DEF Load
  <2>3. CASE EmitActive(c)
    BY <2>3 DEF EmitActive, XAdd
  <2>4. CASE AddLog(c)
    BY <2>4 DEF AddLog, AddLogScript
  <2>5. CASE Return(c)
    BY <2>5 DEF Return
  <2>6. CASE SendToResultsQueue(c)
    BY <2>6 DEF SendToResultsQueue
  <2>7. CASE Unlist(c)
    BY <2>7 DEF Unlist, AfterReturnValue, AfterFail
  <2>8. CASE StoreFields(c)
    BY <2>8 DEF StoreFields, HSet, AfterHSet, AfterReturnValue
  <2>9. CASE RemoveHash(c)
    BY <2>9 DEF RemoveHash, DelJob
  <2>10. CASE RemoveLogs(c)
    BY <2>10 DEF RemoveLogs
  <2>11. CASE Finish(c)
    BY <2>11 DEF Finish
  <2>12. CASE EmitFinal(c)
    BY <2>12 DEF EmitFinal, XAdd
  <2>13. CASE \E p \in Progresses : UpdateProgress(c, p)
    BY <2>13 DEF UpdateProgress, UpdateProgressScript
  <2>14. QED
    BY <1>4, <2>1, <2>2, <2>3, <2>4, <2>5, <2>6, <2>7, <2>8, <2>9, <2>10, <2>11, <2>12,
       <2>13 DEF CallStep
<1>5. ASSUME NEW c \in Calls, Crash(c) PROVE FinalTold'
  BY <1>5 DEF Crash, Skipped, Goto
<1>6. ASSUME NEW c \in Calls, CommandFails(c) PROVE FinalTold'
  BY <1>6 DEF CommandFails, Skipped, Goto, After, AfterHSet, AfterReturnValue, AfterFail
<1>7. CASE Found
  BY <1>7 DEF Found
<1>8. CASE RecoverLRem
  BY <1>8 DEF RecoverLRem
<1>9. CASE RecoverMove
  BY <1>9 DEF RecoverMove
<1>10. CASE RecoverHSet
  BY <1>10 DEF RecoverHSet, HSet
<1>11. ASSUME NEW a \in Callers, CallerStep(a) PROVE FinalTold'
  <2> USE DEF Step
  <2>1. CASE StartCall(a)
    BY <2>1 DEF StartCall
  <2>2. CASE TakeOut(a)
    BY <2>2 DEF TakeOut
  <2>3. CASE DeleteHash(a)
    BY <2>3 DEF DeleteHash, DelJob
  <2>4. CASE DeleteLogs(a)
    BY <2>4 DEF DeleteLogs
  <2>5. CASE RetryZRem(a)
    BY <2>5 DEF RetryZRem
  <2>6. CASE RetryReset(a)
    BY <2>6 DEF RetryReset, HSet
  <2>7. CASE RetryPush(a)
    BY <2>7 DEF RetryPush
  <2>8. CASE RollBack(a)
    BY <2>8 DEF RollBack
  <2>9. QED
    BY <1>11, <2>1, <2>2, <2>3, <2>4, <2>5, <2>6, <2>7, <2>8 DEF CallerStep
<1>12. ASSUME NEW a \in Callers, CallerFails(a) PROVE FinalTold'
  BY <1>12 DEF CallerFails
<1>13. CASE UNCHANGED vars
  BY <1>13 DEF vars
<1>14. QED
  BY <1>1, <1>2, <1>3, <1>4, <1>5, <1>6, <1>7, <1>8, <1>9, <1>10, <1>11, <1>12, <1>13 DEF Next,
     CheckerStep

\* Every final state that a worker reached is told of, but for faults.
THEOREM FinalsTold == Spec => []FinalTold
<1>1. Init => FinalTold
  BY DEF Init, FinalTold
<1>2. QED
  BY <1>1, ToldStep, TypeCorrect, PTL DEF Spec

-----------------------------------------------------------------------------
\* No job is completed before its result was sent or reported.
Sending == {"complete", "returnvalue", "remove", "removelogs", "completed", "tellcompleted"}
Sent    == \A c \in Calls : pc[c] \in Sending => results \/ reported

ResultInv == Sent /\ ResultKept

\* Every step keeps what ResultKept needs.
LEMMA ResultStep == TypeOK /\ ResultInv /\ [Next]_vars => ResultInv'
<1> SUFFICES ASSUME TypeOK, ResultInv, [Next]_vars PROVE ResultInv'
  OBVIOUS
<1> ActorTypeOK
  BY DEF TypeOK
<1> USE DEF ActorTypeOK, ResultInv, Sent, Sending, ResultKept, queue, forward
<1>1. CASE StoreJobHash
  BY <1>1 DEF StoreJobHash
<1>2. CASE EnqueueJob
  BY <1>2 DEF EnqueueJob
<1>3. CASE EmitWaiting
  BY <1>3 DEF EmitWaiting, XAdd
<1>4. ASSUME NEW c \in Calls, CallStep(c) PROVE ResultInv'
  <2> USE DEF Goto
  <2>1. CASE Pickup(c)
    BY <2>1 DEF Pickup
  <2>2. CASE Load(c)
    BY <2>2 DEF Load
  <2>3. CASE EmitActive(c)
    BY <2>3 DEF EmitActive, XAdd
  <2>4. CASE AddLog(c)
    BY <2>4 DEF AddLog, AddLogScript
  <2>5. CASE Return(c)
    BY <2>5 DEF Return
  <2>6. CASE SendToResultsQueue(c)
    BY <2>6 DEF SendToResultsQueue
  <2>7. CASE Unlist(c)
    BY <2>7 DEF Unlist, AfterReturnValue, AfterFail
  <2>8. CASE StoreFields(c)
    BY <2>8 DEF StoreFields, HSet, AfterHSet, AfterReturnValue
  <2>9. CASE RemoveHash(c)
    BY <2>9 DEF RemoveHash, DelJob
  <2>10. CASE RemoveLogs(c)
    BY <2>10 DEF RemoveLogs
  <2>11. CASE Finish(c)
    BY <2>11 DEF Finish
  <2>12. CASE EmitFinal(c)
    BY <2>12 DEF EmitFinal, XAdd
  <2>13. CASE \E p \in Progresses : UpdateProgress(c, p)
    BY <2>13 DEF UpdateProgress, UpdateProgressScript
  <2>14. QED
    BY <1>4, <2>1, <2>2, <2>3, <2>4, <2>5, <2>6, <2>7, <2>8, <2>9, <2>10, <2>11, <2>12,
       <2>13 DEF CallStep
<1>5. ASSUME NEW c \in Calls, Crash(c) PROVE ResultInv'
  BY <1>5 DEF Crash, Skipped, Goto
<1>6. ASSUME NEW c \in Calls, CommandFails(c) PROVE ResultInv'
  <2>1. pc' = [pc EXCEPT ![c] = After(c)] /\ UNCHANGED <<completed, results, reported>>
    BY <1>6 DEF CommandFails, Goto
  <2>2. After(c) \in Sending => pc[c] \in Sending
    BY <1>6 DEF CommandFails, After, AfterHSet, AfterReturnValue, AfterFail, CallLabels
  <2>3. QED
    BY <2>1, <2>2
<1>7. CASE Found
  BY <1>7 DEF Found
<1>8. CASE RecoverLRem
  BY <1>8 DEF RecoverLRem
<1>9. CASE RecoverMove
  BY <1>9 DEF RecoverMove
<1>10. CASE RecoverHSet
  BY <1>10 DEF RecoverHSet, HSet
<1>11. ASSUME NEW a \in Callers, CallerStep(a) PROVE ResultInv'
  <2> USE DEF Step
  <2>1. CASE StartCall(a)
    BY <2>1 DEF StartCall
  <2>2. CASE TakeOut(a)
    BY <2>2 DEF TakeOut
  <2>3. CASE DeleteHash(a)
    BY <2>3 DEF DeleteHash, DelJob
  <2>4. CASE DeleteLogs(a)
    BY <2>4 DEF DeleteLogs
  <2>5. CASE RetryZRem(a)
    BY <2>5 DEF RetryZRem
  <2>6. CASE RetryReset(a)
    BY <2>6 DEF RetryReset, HSet
  <2>7. CASE RetryPush(a)
    BY <2>7 DEF RetryPush
  <2>8. CASE RollBack(a)
    BY <2>8 DEF RollBack
  <2>9. QED
    BY <1>11, <2>1, <2>2, <2>3, <2>4, <2>5, <2>6, <2>7, <2>8 DEF CallerStep
<1>12. ASSUME NEW a \in Callers, CallerFails(a) PROVE ResultInv'
  BY <1>12 DEF CallerFails
<1>13. CASE UNCHANGED vars
  BY <1>13 DEF vars
<1>14. QED
  BY <1>1, <1>2, <1>3, <1>4, <1>5, <1>6, <1>7, <1>8, <1>9, <1>10, <1>11, <1>12, <1>13 DEF Next,
     CheckerStep

\* Every completed job has a result in the results queue, or an error that was reported.
THEOREM ResultsKept == Spec => []ResultKept
<1>1. Init => ResultInv
  BY DEF Init, ResultInv, Sent, Sending, ResultKept
<1>2. ResultInv => ResultKept
  BY DEF ResultInv
<1>3. QED
  BY <1>1, <1>2, ResultStep, TypeCorrect, PTL DEF Spec

-----------------------------------------------------------------------------
\* LogsNewest of a list and the numbers of lines written, and that no number is ahead of them.
Lines == Seq(Calls \X (Nat \ {0}))
InOrder(list) ==
  \A i, k \in DOMAIN list :
    i < k /\ list[i][1] = list[k][1] => list[i][2] < list[k][2]
NoGap(list, w) ==
  \A i \in DOMAIN list : \A n \in list[i][2]..w[list[i][1]] :
    \E k \in DOMAIN list : list[k] = <<list[i][1], n>>
Numbered(list, w) == \A i \in DOMAIN list : list[i][2] <= w[list[i][1]]

Newest(list, w) == InOrder(list) /\ NoGap(list, w) /\ Numbered(list, w)

\* RPUSH of a call's next line.
LEMMA AppendNewest ==
  ASSUME NEW list \in Lines, NEW w \in [Calls -> Nat], NEW c \in Calls, Newest(list, w)
  PROVE  Newest(Append(list, <<c, w[c] + 1>>), [w EXCEPT ![c] = @ + 1])
<1> DEFINE line == <<c, w[c] + 1>>
           longer == Append(list, line)
           w2 == [w EXCEPT ![c] = @ + 1]
           last == Len(list) + 1
<1>1. line \in Calls \X (Nat \ {0}) /\ line[1] = c /\ line[2] = w[c] + 1
  OBVIOUS
<1>2. /\ DOMAIN list = 1..Len(list) /\ DOMAIN longer = 1..last /\ Len(list) \in Nat
      /\ \A i \in 1..Len(list) : longer[i] = list[i]
      /\ longer[last] = line
  BY <1>1, AppendProperties DEF Lines
<1>3. \A i \in 1..Len(list) : list[i][1] \in Calls /\ list[i][2] \in Nat
                             /\ list[i] = <<list[i][1], list[i][2]>>
  BY <1>2 DEF Lines
<1>4. /\ w2 \in [Calls -> Nat] /\ w2[c] = w[c] + 1 /\ w[c] \in Nat
      /\ \A d \in Calls : d # c => w2[d] = w[d]
  OBVIOUS
<1> HIDE DEF line, longer, w2
<1>5. InOrder(longer)
  <2> SUFFICES ASSUME NEW i \in 1..last, NEW k \in 1..last, i < k, longer[i][1] = longer[k][1]
               PROVE  longer[i][2] < longer[k][2]
    BY <1>2 DEF InOrder
  <2>1. CASE k = last
    <3>1. i \in 1..Len(list) /\ longer[i] = list[i] /\ list[i][1] = c
      BY <1>1, <1>2, <2>1
    <3>2. list[i][2] <= w[c]
      BY <1>2, <3>1 DEF Newest, Numbered
    <3>3. QED
      BY <1>1, <1>2, <1>3, <1>4, <2>1, <3>1, <3>2
  <2>2. CASE k # last
    BY <1>2, <2>2 DEF Newest, InOrder
  <2>3. QED
    BY <2>1, <2>2
<1>6. NoGap(longer, w2)
  <2> SUFFICES ASSUME NEW i \in 1..last, NEW n \in longer[i][2]..w2[longer[i][1]]
               PROVE  \E k \in 1..last : longer[k] = <<longer[i][1], n>>
    BY <1>2 DEF NoGap
  <2>1. CASE i = last
    <3>1. longer[i][1] = c /\ longer[i][2] = w[c] + 1
      BY <1>1, <1>2, <2>1
    <3>2. n = w[c] + 1
      BY <1>4, <3>1
    <3>3. last \in 1..last /\ longer[last] = <<longer[i][1], n>>
      BY <1>2, <3>1, <3>2 DEF line
    <3>4. QED
      BY <3>3
  <2>2. CASE i # last
    <3>1. i \in 1..Len(list) /\ longer[i] = list[i] /\ list[i][1] \in Calls /\ list[i][2] \in Nat
      BY <1>2, <1>3, <2>2
    <3>2. CASE n \in list[i][2]..w[list[i][1]]
      <4>1. PICK k \in 1..Len(list) : list[k] = <<list[i][1], n>>
        BY <1>2, <3>1, <3>2 DEF Newest, NoGap
      <4>2. QED
        BY <1>2, <3>1, <4>1
    <3>3. CASE n \notin list[i][2]..w[list[i][1]]
      <4>1. list[i][1] = c /\ n = w[c] + 1
        BY <1>4, <3>1, <3>3
      <4>2. last \in 1..last /\ longer[last] = <<longer[i][1], n>>
        BY <1>2, <3>1, <4>1 DEF line
      <4>3. QED
        BY <4>2
    <3>4. QED
      BY <3>2, <3>3
  <2>3. QED
    BY <2>1, <2>2
<1>7. Numbered(longer, w2)
  <2> SUFFICES ASSUME NEW i \in 1..last PROVE longer[i][2] <= w2[longer[i][1]]
    BY <1>2 DEF Numbered
  <2>1. CASE i = last
    BY <1>1, <1>2, <1>4, <2>1
  <2>2. CASE i # last
    <3>1. i \in 1..Len(list) /\ longer[i] = list[i] /\ list[i][1] \in Calls /\ list[i][2] \in Nat
      BY <1>2, <1>3, <2>2
    <3>2. list[i][2] <= w[list[i][1]] /\ w[list[i][1]] \in Nat
      BY <1>2, <3>1 DEF Newest, Numbered
    <3>3. QED
      BY <1>4, <3>1, <3>2
  <2>3. QED
    BY <2>1, <2>2
<1>8. QED
  BY <1>5, <1>6, <1>7 DEF Newest, longer, line, w2

\* LTRIM: a line that is cut off has a smaller number than those of its call that stay.
LEMMA SuffixNewest ==
  ASSUME NEW list \in Lines, NEW w \in [Calls -> Nat], Newest(list, w),
         NEW cut \in 0..Len(list), NEW rest \in Lines, Len(rest) = Len(list) - cut,
         \A i \in 1..(Len(list) - cut) : rest[i] = list[i + cut]
  PROVE  Newest(rest, w)
<1>1. /\ DOMAIN list = 1..Len(list) /\ DOMAIN rest = 1..(Len(list) - cut)
      /\ Len(list) \in Nat /\ cut \in Nat
  BY DEF Lines
<1>2. \A i \in DOMAIN rest : i + cut \in DOMAIN list /\ rest[i] = list[i + cut]
  BY <1>1
<1>3. \A i \in DOMAIN list : list[i][2] \in Nat /\ list[i][1] \in Calls
  BY DEF Lines
<1>4. InOrder(rest)
  <2> SUFFICES ASSUME NEW i \in DOMAIN rest, NEW k \in DOMAIN rest, i < k, rest[i][1] = rest[k][1]
               PROVE  rest[i][2] < rest[k][2]
    BY DEF InOrder
  <2>1. i + cut < k + cut
    BY <1>1
  <2>2. QED
    BY <1>2, <2>1 DEF Newest, InOrder
<1>5. NoGap(rest, w)
  <2> SUFFICES ASSUME NEW i \in DOMAIN rest, NEW n \in rest[i][2]..w[rest[i][1]]
               PROVE  \E k \in DOMAIN rest : rest[k] = <<rest[i][1], n>>
    BY DEF NoGap
  <2>1. i + cut \in DOMAIN list /\ rest[i] = list[i + cut]
    BY <1>2
  <2>2. PICK k \in DOMAIN list : list[k] = <<rest[i][1], n>>
    BY <2>1 DEF Newest, NoGap
  <2>3. CASE k > cut
    <3>1. k - cut \in DOMAIN rest /\ (k - cut) + cut = k
      BY <1>1, <2>2, <2>3
    <3>2. QED
      BY <1>2, <2>2, <3>1
  <2>4. CASE k <= cut
    <3>1. k < i + cut
      BY <1>1, <2>2, <2>4
    <3>2. list[k][1] = list[i + cut][1] /\ list[k][2] = n
      BY <2>1, <2>2
    <3>3. n < list[i + cut][2]
      BY <2>1, <2>2, <3>1, <3>2 DEF Newest, InOrder
    <3>4. list[i + cut][2] \in Nat /\ n \in Int /\ n >= list[i + cut][2]
      BY <1>3, <2>1
    <3>5. QED
      BY <3>3, <3>4
  <2>5. QED
    BY <1>1, <2>2, <2>3, <2>4
<1>6. Numbered(rest, w)
  BY <1>2 DEF Newest, Numbered
<1>7. QED
  BY <1>4, <1>5, <1>6 DEF Newest

NewestInv == Newest(logs, written)

\* Every step keeps what LogsNewest needs.
LEMMA NewestStep == TypeOK /\ NewestInv /\ [Next]_vars => NewestInv'
<1> SUFFICES ASSUME TypeOK, NewestInv, [Next]_vars PROVE NewestInv'
  OBVIOUS
<1> logs \in Lines /\ written \in [Calls -> Nat]
  BY DEF TypeOK, LogTypeOK, Lines
<1>1. ASSUME NEW c \in Calls, AddLog(c) PROVE NewestInv'
  <2> DEFINE longer == Append(logs, <<c, written[c] + 1>>)
  <2>1. logs' = Trim(longer, KeepLogs[c]) /\ written' = [written EXCEPT ![c] = @ + 1]
    BY <1>1 DEF AddLog, AddLogScript
  <2>2. Newest(longer, written')
    BY <2>1, AppendNewest DEF NewestInv
  <2>3. longer \in Lines
    <3>1. <<c, written[c] + 1>> \in Calls \X (Nat \ {0})
      OBVIOUS
    <3>2. QED
      BY <3>1, AppendProperties DEF Lines
  <2>4. written' \in [Calls -> Nat]
    BY <2>1
  <2>5. KeepLogs[c] \in Nat \ {0}
    BY RecordsAssumption DEF RecordsAssumption
  <2> HIDE DEF longer
  <2>6. PICK cut \in 0..Len(longer) :
          /\ logs' \in Lines
          /\ Len(logs') = Len(longer) - cut
          /\ \A i \in 1..(Len(longer) - cut) : logs'[i] = longer[i + cut]
    <3> DEFINE keep == KeepLogs[c]
               entries == Calls \X (Nat \ {0})
    <3>1. keep \in Nat \ {0} /\ logs' = Trim(longer, keep) /\ Lines = Seq(entries)
      BY <2>1, <2>5 DEF Lines
    <3>2. longer \in Seq(entries)
      BY <2>3, <3>1
    <3> HIDE DEF keep, entries
    <3>3. \E cut \in 0..Len(longer) :
            /\ Trim(longer, keep) \in Seq(entries)
            /\ Len(Trim(longer, keep)) = Len(longer) - cut
            /\ \A i \in 1..(Len(longer) - cut) : Trim(longer, keep)[i] = longer[i + cut]
      BY <3>1, <3>2, TrimLast, Zenon
    <3>4. QED
      BY <3>1, <3>3
  <2>7. Newest(logs', written')
    BY <2>2, <2>3, <2>4, <2>6, SuffixNewest
  <2>8. QED
    BY <2>7 DEF NewestInv
<1>2. ASSUME logs' = << >> PROVE NewestInv'
  BY <1>2 DEF NewestInv, Newest, InOrder, NoGap, Numbered
<1>3. ASSUME UNCHANGED <<logs, written>> PROVE NewestInv'
  BY <1>3 DEF NewestInv
<1>4. \/ \E c \in Calls : AddLog(c)
      \/ logs' = << >>
      \/ UNCHANGED <<logs, written>>
  BY DEF Next, vars, StoreJobHash, EnqueueJob, EmitWaiting, CallStep, Pickup, Load, EmitActive,
     UpdateProgress, UpdateProgressScript, Return, SendToResultsQueue, Unlist, StoreFields,
     RemoveHash, RemoveLogs, Finish, EmitFinal, Crash, CommandFails, CheckerStep, Found,
     RecoverLRem, RecoverMove, RecoverHSet, CallerStep, CallerFails, StartCall, TakeOut,
     DeleteHash, DeleteLogs, RetryZRem, RetryReset, RetryPush, RollBack
<1>5. QED
  BY <1>1, <1>2, <1>3, <1>4

\* What is left of the log lines of a call is its latest ones, in order.
THEOREM NewestLogsKept == Spec => []LogsNewest
<1>1. Init => NewestInv
  BY DEF Init, NewestInv, Newest, InOrder, NoGap, Numbered
<1>2. NewestInv => LogsNewest
  BY DEF NewestInv, Newest, InOrder, NoGap, LogsNewest
<1>3. QED
  BY <1>1, <1>2, NewestStep, TypeCorrect, PTL DEF Spec
=============================================================================
