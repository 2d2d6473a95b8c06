---------------------------- MODULE BullMQProofs ----------------------------
(***************************************************************************)
(* Theorems about BullMQ for every set of jobs, workers and slots, every   *)
(* bound in Limits, and locks that may lapse at any time: where a queued   *)
(* job can be, how many jobs a paused queue still hands out, how often a   *)
(* job is counted as tried, and that BullMQ implements JobCustody.         *)
(***************************************************************************)
EXTENDS BullMQ, SequenceTheorems, TLAPS

USE KeysAssumption, WorkerAssumption, CheckerAssumption, BullMQAssumption
    DEF KeysAssumption, WorkerAssumption, CheckerAssumption, BullMQAssumption

-----------------------------------------------------------------------------
(* The wait list *)

\* LPUSH keeps the type of the list, its members, and adds the id it pushes.
LEMMA PushFacts ==
  ASSUME wait \in Seq(Jobs), NEW j \in Jobs, LPushWait(j)
  PROVE  wait' \in Seq(Jobs) /\ InWait(j)' /\ \A k \in Jobs : InWait(k) => InWait(k)'
<1>1. /\ <<j>> \in Seq(Jobs) /\ Len(<<j>>) = 1 /\ <<j>>[1] = j
      /\ Len(wait) \in Nat
  OBVIOUS
<1>2. /\ wait' \in Seq(Jobs)
      /\ Len(wait') = 1 + Len(wait)
      /\ \A i \in 1..(1 + Len(wait)) : wait'[i] = IF i <= 1 THEN <<j>>[i] ELSE wait[i - 1]
  BY <1>1, ConcatProperties DEF LPushWait
<1>3. InWait(j)'
  BY <1>1, <1>2 DEF InWait
<1>4. ASSUME NEW k \in Jobs, InWait(k) PROVE InWait(k)'
  <2>1. PICK i \in 1..Len(wait) : wait[i] = k
    BY <1>4 DEF InWait
  <2>2. i + 1 \in 1..Len(wait') /\ wait'[i + 1] = k
    BY <1>1, <1>2, <2>1
  <2> QED BY <2>2 DEF InWait
<1> QED BY <1>2, <1>3, <1>4

\* RPOP keeps the type of the list and every member but the one it returns.
LEMMA PopFacts ==
  ASSUME wait \in Seq(Jobs), wait # << >>, RPopWait
  PROVE  wait' \in Seq(Jobs) /\ WaitTail \in Jobs
         /\ \A k \in Jobs : InWait(k) => k = WaitTail \/ InWait(k)'
<1>1. Len(wait) \in Nat /\ Len(wait) > 0 /\ \A i \in 1..Len(wait) : wait[i] \in Jobs
  BY EmptySeq, ElementOfSeq
<1>2. /\ wait' \in Seq(Jobs)
      /\ Len(wait') = Len(wait) - 1
      /\ \A i \in 1..(Len(wait) - 1) : wait'[i] = wait[i]
  <2>1. /\ 1 \in Int /\ Len(wait) - 1 \in Int
        /\ \A i \in 1..(Len(wait) - 1) : wait[i] \in Jobs
    BY <1>1
  <2> DEFINE n == Len(wait) - 1
  <2>2. /\ SubSeq(wait, 1, n) \in Seq(Jobs)
        /\ Len(SubSeq(wait, 1, n)) = IF 1 <= n THEN n - 1 + 1 ELSE 0
        /\ \A i \in 1 .. (n - 1 + 1) : SubSeq(wait, 1, n)[i] = wait[1 + i - 1]
    <3> HIDE DEF n
    <3> QED BY <2>1, SubSeqProperties DEF n
  <2>3. n \in Nat /\ n - 1 + 1 = n /\ wait' = SubSeq(wait, 1, n)
    BY <1>1 DEF RPopWait
  <2>4. Len(SubSeq(wait, 1, n)) = n
    BY <2>2, <2>3
  <2>5. ASSUME NEW i \in 1..n PROVE SubSeq(wait, 1, n)[i] = wait[i]
    <3>1. i \in 1..(n - 1 + 1) /\ 1 + i - 1 = i
      BY <2>3
    <3> QED BY <2>2, <3>1
  <2> QED BY <2>2, <2>3, <2>4, <2>5
<1>3. ASSUME NEW k \in Jobs, InWait(k), k # WaitTail PROVE InWait(k)'
  <2>1. PICK i \in 1..Len(wait) : wait[i] = k
    BY <1>3 DEF InWait
  <2>2. i \in 1..(Len(wait) - 1)
    BY <1>1, <1>3, <2>1 DEF WaitTail
  <2> QED BY <1>2, <2>1, <2>2 DEF InWait
<1> QED BY <1>1, <1>2, <1>3 DEF WaitTail

-----------------------------------------------------------------------------
(* Types *)

\* The options of a job without an opts field.
LEMMA ZeroOptionsType == ZeroOptions \in OptionsType
  BY DEF ZeroOptions, OptionsType

\* Add completes options to options.
LEMMA WithDefaultsType == ASSUME NEW o \in OptionsType PROVE WithDefaults(o) \in OptionsType
  BY DEF OptionsType, WithDefaults

\* The initial state has the types.
LEMMA InitTypeOK == Init => TypeOK
<1> SUFFICES ASSUME Init PROVE TypeOK
  OBVIOUS
<1>1. KeysTypeOK
  <2> USE DEF Init, KeysInit
  <2>1. wait \in Seq(Jobs)
    OBVIOUS
  <2>2. paused \in BOOLEAN
    OBVIOUS
  <2>3. opts \in [Jobs -> OptionsType]
    BY ZeroOptionsType
  <2>4. hash \in [Jobs -> SUBSET Fields] /\ lock \in [Jobs -> Slots \cup {NoLock}]
    OBVIOUS
  <2>5. active \in [Jobs -> Nat] /\ attemptsMade \in [Jobs -> Nat]
    OBVIOUS
  <2> QED BY <2>1, <2>2, <2>3, <2>4, <2>5 DEF KeysTypeOK
<1>2. ProducerTypeOK
  BY DEF Init, ProducerInit, ProducerTypeOK, AddStates
<1>3. WorkerTypeOK
  BY ZeroOptionsType DEF Init, WorkerInit, WorkerTypeOK, Labels
<1>4. CheckerTypeOK
  BY DEF Init, CheckerInit, CheckerTypeOK, ChkLabels, Nobody
<1> QED
  BY <1>1, <1>2, <1>3, <1>4 DEF Init, TypeOK, Kinds

\* Counting an event keeps the counters numbers.
LEMMA SpendType == ASSUME spent \in [Kinds -> Nat], NEW k \in Kinds, Spend(k)
                   PROVE  spent' \in [Kinds -> Nat]
  BY DEF Spend

\* Add keeps the types.
LEMMA AddTypeOK == ASSUME TypeOK, NEW j \in Jobs, Add(j) PROVE TypeOK'
<1> USE DEF TypeOK
<1>0. WorkerTypeOK' /\ CheckerTypeOK' /\ atRisk' = atRisk /\ overrun' = overrun /\ spent' = spent
  BY DEF Add, WorkerTypeOK, CheckerTypeOK, slotVars, checkerVars, history
<1>1. CASE StoreJobHash(j)
  <2>1. opts' \in [Jobs -> OptionsType]
    BY <1>1, WithDefaultsType DEF StoreJobHash, KeysTypeOK
  <2>2. hash' \in [Jobs -> SUBSET Fields] /\ attemptsMade' \in [Jobs -> Nat]
    BY <1>1 DEF StoreJobHash, KeysTypeOK, Fields
  <2>3. ProducerTypeOK'
    BY <1>1 DEF StoreJobHash, ProducerTypeOK, AddStates
  <2>4. KeysTypeOK'
    BY <1>1, <2>1, <2>2 DEF StoreJobHash, KeysTypeOK, pending, finished
  <2> QED BY <1>0, <2>3, <2>4
<1>2. CASE EnqueueJob(j)
  <2>1. ProducerTypeOK'
    BY <1>2 DEF EnqueueJob, ProducerTypeOK, AddStates
  <2>2. wait' \in Seq(Jobs)
    BY <1>2, PushFacts DEF EnqueueJob, KeysTypeOK
  <2>3. KeysTypeOK'
    BY <1>2, <2>2 DEF EnqueueJob, KeysTypeOK, finished, hashes
  <2> QED BY <1>0, <2>1, <2>3
<1> QED BY <1>1, <1>2 DEF Add

\* Where a slot goes keeps the types of its variables.
LEMMA GotoType ==
  ASSUME WorkerTypeOK, NEW s \in Slots, NEW label \in Labels, Goto(s, label),
         label \in {"idle", "zpop", "rpop"} \/ job[s] \in Jobs
  PROVE  WorkerTypeOK'
  BY ZeroOptionsType DEF WorkerTypeOK, Goto

\* The label after a command is a label.
LEMMA AfterType ==
  ASSUME NEW s \in Slots,
         pc[s] \in Labels \ {"idle", "zpop", "rpop", "setex", "activate", "load", "work", "complete"}
  PROVE  After(s) \in Labels
  BY DEF After, AfterReturnValue, AfterFailRelease, Labels, Pickup, Finish, Fail, Retry

\* LPUSH and LREM keep `active` a bag.
LEMMA ActiveType ==
  ASSUME active \in [Jobs -> Nat], NEW j \in Jobs, LPushActive(j) \/ LRemActive(j)
  PROVE  active' \in [Jobs -> Nat]
  BY DEF LPushActive, LRemActive

\* The steps of a slot keep the types of the keys and of the slots.
LEMMA SlotStepTypeOK ==
  ASSUME KeysTypeOK, WorkerTypeOK, NEW s \in Slots, SlotStep(s)
  PROVE  KeysTypeOK' /\ WorkerTypeOK'
<1> USE DEF pending, finished, hashes, keys
<1> DEFINE Simple == /\ pc[s] \notin {"idle", "zpop", "rpop", "setex", "activate", "load", "work", "complete"}
                     /\ Goto(s, After(s))
<1>a. ASSUME Simple PROVE WorkerTypeOK'
  BY <1>a, AfterType, GotoType DEF WorkerTypeOK
<1>b. {"idle", "zpop", "rpop", "activate", "load", "complete", "fail", "remove", "completed", "returnvalue"} \subseteq Labels
  BY DEF Labels, Pickup, Finish, Fail
<1>c. "setex" \in Labels /\ "work" \in Labels /\ "retry" \in Labels
  BY DEF Labels, Pickup, Retry
<1>1. CASE Begin(s)
  <2>1. WorkerTypeOK'
    BY <1>1, <1>b, GotoType DEF Begin
  <2>2. KeysTypeOK'
    BY <1>1 DEF Begin, KeysTypeOK
  <2> QED BY <2>1, <2>2
<1>2. CASE ZPopMin(s)
  <2>1. ASSUME NEW j \in Foremost, Take(s, j) PROVE WorkerTypeOK'
    BY <2>1, <1>c DEF Take, WorkerTypeOK, Foremost, KeysTypeOK
  <2>2. ASSUME Goto(s, "rpop") PROVE WorkerTypeOK'
    BY <2>2, <1>b, GotoType
  <2>3. KeysTypeOK'
    BY <1>2 DEF ZPopMin, KeysTypeOK, Foremost
  <2> QED BY <1>2, <2>1, <2>2, <2>3 DEF ZPopMin
<1>3. CASE RPop(s)
  <2>1. CASE wait = << >>
    BY <1>3, <2>1, <1>b, GotoType DEF RPop, KeysTypeOK
  <2>2. CASE wait # << >>
    <3>1. wait' \in Seq(Jobs) /\ WaitTail \in Jobs
      BY <1>3, <2>2, PopFacts DEF RPop, KeysTypeOK
    <3>2. WorkerTypeOK'
      BY <1>3, <2>2, <3>1, <1>c DEF RPop, Take, WorkerTypeOK
    <3>3. KeysTypeOK'
      BY <1>3, <3>1 DEF RPop, KeysTypeOK
    <3> QED BY <3>2, <3>3
  <2> QED BY <2>1, <2>2
<1>4. CASE SetEx(s)
  <2>1. WorkerTypeOK'
    BY <1>4, <1>b, GotoType DEF SetEx, WorkerTypeOK
  <2>2. KeysTypeOK'
    BY <1>4 DEF SetEx, SetLock, KeysTypeOK
  <2> QED BY <2>1, <2>2
<1>5. CASE Activate(s)
  <2>1. WorkerTypeOK'
    BY <1>5, <1>b, GotoType DEF Activate, WorkerTypeOK
  <2>2. KeysTypeOK'
    <3>1. active' \in [Jobs -> Nat]
      BY <1>5, ActiveType DEF Activate, KeysTypeOK, WorkerTypeOK
    <3> QED BY <1>5, <3>1 DEF Activate, KeysTypeOK
  <2> QED BY <2>1, <2>2
<1>6. CASE Load(s)
  <2>1. WorkerTypeOK'
    <3>1. ASSUME Goto(s, "idle") PROVE WorkerTypeOK'
      BY <3>1, <1>b, GotoType
    <3>2. CASE hash[job[s]] # {}
      <4>1. job[s] \in Jobs
        BY <1>6 DEF Load, WorkerTypeOK
      <4>2. attemptsMade[job[s]] \in Nat /\ opts[job[s]] \in OptionsType
        BY <4>1 DEF KeysTypeOK
      <4> QED BY <1>6, <3>2, <4>1, <4>2, <1>c DEF Load, WorkerTypeOK
    <3> QED BY <1>6, <3>1, <3>2 DEF Load
  <2>2. KeysTypeOK'
    BY <1>6 DEF Load, KeysTypeOK
  <2> QED BY <2>1, <2>2
<1>7. CASE Succeed(s)
  <2>1. WorkerTypeOK'
    BY <1>7, <1>b, GotoType DEF Succeed, WorkerTypeOK
  <2>2. KeysTypeOK'
    BY <1>7 DEF Succeed, KeysTypeOK
  <2> QED BY <2>1, <2>2
<1>8. CASE ProcessorFails(s)
  <2>1. ASSUME Goto(s, "fail"), pc[s] = "work" PROVE WorkerTypeOK'
    BY <2>1, <1>b, GotoType DEF WorkerTypeOK
  <2>2. WorkerTypeOK'
    BY <1>8, <2>1, <1>c DEF ProcessorFails, WorkerTypeOK
  <2>3. KeysTypeOK'
    BY <1>8 DEF ProcessorFails, KeysTypeOK
  <2> QED BY <2>2, <2>3
<1>9. CASE LRem(s)
  <2>1. ASSUME pc[s] = "complete" PROVE WorkerTypeOK'
    <3>1. PICK next \in {"returnvalue", AfterReturnValue(s)} : Goto(s, next)
      BY <1>9, <2>1 DEF LRem
    <3>2. next \in Labels
      BY <1>b DEF AfterReturnValue
    <3>3. job[s] \in Jobs
      BY <2>1 DEF WorkerTypeOK
    <3> QED BY <3>1, <3>2, <3>3, GotoType
  <2>2. ASSUME pc[s] # "complete" PROVE WorkerTypeOK'
    BY <1>9, <2>2, <1>a DEF LRem
  <2>3. active' \in [Jobs -> Nat]
    BY <1>9, ActiveType DEF LRem, KeysTypeOK, WorkerTypeOK
  <2>4. KeysTypeOK'
    BY <1>9, <2>3 DEF LRem, KeysTypeOK
  <2> QED BY <2>1, <2>2, <2>4
<1>10. CASE StoreResult(s)
  <2>1. WorkerTypeOK'
    BY <1>10, <1>a DEF StoreResult
  <2>2. KeysTypeOK'
    BY <1>10 DEF StoreResult, HSetResult, KeysTypeOK, Fields
  <2> QED BY <2>1, <2>2
<1>11. CASE RemoveHash(s)
  <2>1. WorkerTypeOK'
    BY <1>11, <1>a DEF RemoveHash
  <2>2. KeysTypeOK'
    BY <1>11, ZeroOptionsType DEF RemoveHash, DelJob, KeysTypeOK
  <2> QED BY <2>1, <2>2
<1>12. CASE ZAddFinished(s)
  <2>1. WorkerTypeOK'
    BY <1>12, <1>a DEF ZAddFinished
  <2>2. KeysTypeOK'
    BY <1>12 DEF ZAddFinished, KeysTypeOK, WorkerTypeOK
  <2> QED BY <2>1, <2>2
<1>13. CASE Unlock(s)
  <2>1. WorkerTypeOK'
    BY <1>13, <1>a DEF Unlock
  <2>2. KeysTypeOK'
    BY <1>13 DEF Unlock, DelLock, KeysTypeOK
  <2> QED BY <2>1, <2>2
<1>14. CASE ZAddDelayed(s)
  <2>1. WorkerTypeOK'
    BY <1>14, <1>a DEF ZAddDelayed
  <2>2. KeysTypeOK'
    BY <1>14 DEF ZAddDelayed, KeysTypeOK, WorkerTypeOK
  <2> QED BY <2>1, <2>2
<1>15. CASE StoreAttempts(s)
  <2>1. WorkerTypeOK'
    BY <1>15, <1>a DEF StoreAttempts
  <2>2. KeysTypeOK'
    BY <1>15 DEF StoreAttempts, HSetAttempts, KeysTypeOK, WorkerTypeOK, Fields
  <2> QED BY <2>1, <2>2
<1> QED
  BY <1>1, <1>2, <1>3, <1>4, <1>5, <1>6, <1>7, <1>8, <1>9, <1>10, <1>11, <1>12, <1>13,
     <1>14, <1>15 DEF SlotStep

\* They keep the types of everything.
LEMMA WorkTypeOK == ASSUME TypeOK, NEW s \in Slots, Work(s) PROVE TypeOK'
<1>1. KeysTypeOK' /\ WorkerTypeOK'
  BY SlotStepTypeOK DEF Work, TypeOK
<1>2. ProducerTypeOK' /\ CheckerTypeOK' /\ atRisk' \subseteq Jobs /\ spent' \in [Kinds -> Nat]
  BY DEF Work, TypeOK, ProducerTypeOK, CheckerTypeOK, checkerVars
<1>3. overrun' \in [Workers -> Nat]
  BY DEF Work, TypeOK
<1> QED BY <1>1, <1>2, <1>3 DEF TypeOK

\* A scan that goes on, or ends, with a bag of ids keeps the types of the checker.
LEMMA GoOnType ==
  ASSUME CheckerTypeOK, NEW w \in Workers, NEW rest \in [Jobs -> Nat], GoOn(w, rest)
  PROVE  CheckerTypeOK'
<1>1. todo' \in [Workers -> [Jobs -> Nat]]
  BY DEF CheckerTypeOK, GoOn
<1>2. chk' \in [Workers -> ChkLabels] /\ chk'[w] \in {"off", "exists"}
  BY DEF CheckerTypeOK, GoOn, ChkLabels
<1>3. cjob' \in [Workers -> Jobs \cup {NoJob}] /\ recovery' \in [Workers -> 0..2]
  BY DEF CheckerTypeOK, GoOn
<1>4. \A v \in Workers : chk'[v] \notin {"off", "exists"} => cjob'[v] \in Jobs
  BY <1>2 DEF CheckerTypeOK, GoOn
<1> QED BY <1>1, <1>2, <1>3, <1>4 DEF CheckerTypeOK

\* A bag with one id taken out is a bag.
LEMMA RestType ==
  ASSUME CheckerTypeOK, NEW w \in Workers, NEW j \in Jobs, todo[w][j] > 0
  PROVE  Rest(w, j) \in [Jobs -> Nat]
<1>1. todo[w] \in [Jobs -> Nat]
  BY DEF CheckerTypeOK
<1> QED BY <1>1 DEF Rest

\* A recovery that goes on keeps the types of the checker.
LEMMA AdvanceType ==
  ASSUME CheckerTypeOK, NEW w \in Workers, NEW label \in ChkLabels, Advance(w, label),
         chk[w] \notin {"off", "exists"}
  PROVE  CheckerTypeOK'
<1>1. CASE label = "exists"
  <2>1. todo[w] \in [Jobs -> Nat]
    BY DEF CheckerTypeOK
  <2> QED BY <1>1, <2>1, GoOnType DEF Advance
<1>2. CASE label # "exists"
  <2>1. /\ chk' = [chk EXCEPT ![w] = label]
        /\ UNCHANGED <<todo, cjob, recovery>>
    BY <1>2 DEF Advance
  <2>2. cjob[w] \in Jobs
    BY DEF CheckerTypeOK
  <2>3. \A v \in Workers : chk'[v] \notin {"off", "exists"} => cjob[v] \in Jobs
    BY <2>1, <2>2 DEF CheckerTypeOK
  <2>4. chk' \in [Workers -> ChkLabels]
    BY <2>1 DEF CheckerTypeOK
  <2> QED BY <2>1, <2>3, <2>4 DEF CheckerTypeOK
<1> QED BY <1>1, <1>2

\* The label after a command of the checker is a label.
LEMMA ThenType ==
  ASSUME NEW w \in Workers, chk[w] \in ChkLabels \ {"off", "exists", "load"}
  PROVE  Then(w) \in ChkLabels
  BY DEF Then, AfterLRem, ChkLabels

\* The steps of a checker keep the types of the keys and of the checkers.
LEMMA CheckerStepTypeOK ==
  ASSUME KeysTypeOK, CheckerTypeOK, NEW w \in Workers, CheckerStep(w)
  PROVE  KeysTypeOK' /\ CheckerTypeOK'
<1> USE DEF pending, finished, hashes, keys
<1>a. ASSUME chk[w] \in {"lrem", "zadd", "reason", "lpush", "attempts"}, Advance(w, Then(w))
      PROVE  CheckerTypeOK' /\ cjob[w] \in Jobs
  <2>1. chk[w] \in ChkLabels \ {"off", "exists", "load"}
    BY <1>a DEF ChkLabels
  <2> QED BY <1>a, <2>1, ThenType, AdvanceType DEF CheckerTypeOK
<1>1. CASE Exists(w)
  <2>1. PICK j \in Jobs :
           /\ todo[w][j] > 0
           /\ \/ GoOn(w, Rest(w, j))
              \/ /\ chk' = [chk EXCEPT ![w] = "load"]
                 /\ todo' = [todo EXCEPT ![w] = Rest(w, j)]
                 /\ cjob' = [cjob EXCEPT ![w] = j]
                 /\ UNCHANGED recovery
    BY <1>1 DEF Exists
  <2>2. Rest(w, j) \in [Jobs -> Nat]
    BY <2>1, RestType
  <2>3. ASSUME GoOn(w, Rest(w, j)) PROVE CheckerTypeOK'
    BY <2>2, <2>3, GoOnType
  <2>4. ASSUME chk' = [chk EXCEPT ![w] = "load"], todo' = [todo EXCEPT ![w] = Rest(w, j)],
               cjob' = [cjob EXCEPT ![w] = j], UNCHANGED recovery
        PROVE  CheckerTypeOK'
    <3>1. todo' \in [Workers -> [Jobs -> Nat]]
      BY <2>2, <2>4 DEF CheckerTypeOK
    <3> QED BY <2>4, <3>1 DEF CheckerTypeOK, ChkLabels
  <2>5. KeysTypeOK'
    BY <1>1 DEF Exists, KeysTypeOK
  <2> QED BY <2>1, <2>3, <2>4, <2>5
<1>2. CASE LoadStalled(w)
  <2>1. CheckerTypeOK'
    BY <1>2 DEF LoadStalled, CheckerTypeOK, ChkLabels
  <2>2. KeysTypeOK'
    BY <1>2 DEF LoadStalled, KeysTypeOK
  <2> QED BY <2>1, <2>2
<1>3. CASE LRemStalled(w)
  <2>1. CheckerTypeOK' /\ cjob[w] \in Jobs
    BY <1>3, <1>a DEF LRemStalled
  <2>2. active' \in [Jobs -> Nat]
    BY <1>3, <2>1, ActiveType DEF LRemStalled, KeysTypeOK
  <2>3. KeysTypeOK'
    BY <1>3, <2>2 DEF LRemStalled, KeysTypeOK
  <2> QED BY <2>1, <2>3
<1>4. CASE FailStalled(w)
  <2>1. CheckerTypeOK' /\ cjob[w] \in Jobs
    BY <1>4, <1>a DEF FailStalled
  <2>2. KeysTypeOK'
    BY <1>4, <2>1 DEF FailStalled, KeysTypeOK
  <2> QED BY <2>1, <2>2
<1>5. CASE StoreReason(w)
  <2>1. CheckerTypeOK' /\ cjob[w] \in Jobs
    BY <1>5, <1>a DEF StoreReason
  <2>2. KeysTypeOK'
    BY <1>5, <2>1 DEF StoreReason, HSetResult, KeysTypeOK, Fields
  <2> QED BY <2>1, <2>2
<1>6. CASE Requeue(w)
  <2>1. CheckerTypeOK' /\ cjob[w] \in Jobs
    BY <1>6, <1>a DEF Requeue
  <2>2. wait' \in Seq(Jobs)
    BY <1>6, <2>1, PushFacts DEF Requeue, KeysTypeOK
  <2>3. KeysTypeOK'
    BY <1>6, <2>2 DEF Requeue, KeysTypeOK
  <2> QED BY <2>1, <2>3
<1>7. CASE StoreRecovery(w)
  <2>1. CheckerTypeOK' /\ cjob[w] \in Jobs
    BY <1>7, <1>a DEF StoreRecovery
  <2>2. recovery[w] \in Nat
    BY DEF CheckerTypeOK
  <2>3. KeysTypeOK'
    BY <1>7, <2>1, <2>2 DEF StoreRecovery, HSetAttempts, KeysTypeOK, Fields
  <2> QED BY <2>1, <2>3
<1> QED
  BY <1>1, <1>2, <1>3, <1>4, <1>5, <1>6, <1>7 DEF CheckerStep

\* A scan starts with a bag of ids.
LEMMA StartScanTypeOK == ASSUME TypeOK, NEW w \in Workers, StartScan(w) PROVE TypeOK'
<1> USE DEF TypeOK, StartScan, Scan, keys
<1>1. KeysTypeOK'
  BY DEF KeysTypeOK
<1>2. ProducerTypeOK' /\ WorkerTypeOK' /\ atRisk' \subseteq Jobs /\ overrun' \in [Workers -> Nat]
  BY DEF ProducerTypeOK, WorkerTypeOK, slotVars
<1>3. CheckerTypeOK'
  BY DEF CheckerTypeOK, ChkLabels, KeysTypeOK
<1>4. spent' \in [Kinds -> Nat]
  BY SpendType DEF Kinds
<1> QED BY <1>1, <1>2, <1>3, <1>4

\* Checker steps keep the types of everything.
LEMMA CheckTypeOK == ASSUME TypeOK, NEW w \in Workers, Check(w) PROVE TypeOK'
<1>1. KeysTypeOK' /\ CheckerTypeOK'
  BY CheckerStepTypeOK DEF Check, TypeOK
<1>2. ProducerTypeOK' /\ WorkerTypeOK' /\ atRisk' \subseteq Jobs /\ spent' \in [Kinds -> Nat]
      /\ overrun' \in [Workers -> Nat]
  BY DEF Check, TypeOK, ProducerTypeOK, WorkerTypeOK, slotVars, history
<1> QED BY <1>1, <1>2 DEF TypeOK

\* The steps that change no more than one key or a flag.
LEMMA QueueStepTypeOK ==
  ASSUME TypeOK, PauseQueue \/ ResumeQueue \/ \E j \in Jobs : LockExpires(j) \/ AddFails(j)
  PROVE  TypeOK'
<1> USE DEF TypeOK, pending, finished, hashes, keys, slotVars, checkerVars, history
<1>1. CASE PauseQueue
  <2>1. KeysTypeOK' /\ ProducerTypeOK' /\ WorkerTypeOK' /\ CheckerTypeOK'
    BY <1>1 DEF PauseQueue, Pause, KeysTypeOK, ProducerTypeOK, WorkerTypeOK, CheckerTypeOK
  <2>2. spent' \in [Kinds -> Nat]
    BY <1>1, SpendType DEF PauseQueue, Kinds
  <2> QED BY <1>1, <2>1, <2>2 DEF PauseQueue
<1>2. CASE ResumeQueue
  <2>1. KeysTypeOK' /\ ProducerTypeOK' /\ WorkerTypeOK' /\ CheckerTypeOK'
    BY <1>2 DEF ResumeQueue, Resume, KeysTypeOK, ProducerTypeOK, WorkerTypeOK, CheckerTypeOK
  <2> QED BY <1>2, <2>1 DEF ResumeQueue
<1>3. ASSUME NEW j \in Jobs, LockExpires(j) PROVE TypeOK'
  <2>1. KeysTypeOK'
    BY <1>3 DEF LockExpires, DelLock, KeysTypeOK
  <2>2. ProducerTypeOK' /\ WorkerTypeOK' /\ CheckerTypeOK'
    BY <1>3 DEF LockExpires, ProducerTypeOK, WorkerTypeOK, CheckerTypeOK
  <2> QED BY <1>3, <2>1, <2>2 DEF LockExpires
<1>4. ASSUME NEW j \in Jobs, AddFails(j) PROVE TypeOK'
  <2>1. KeysTypeOK' /\ WorkerTypeOK' /\ CheckerTypeOK'
    BY <1>4 DEF AddFails, EnqueueFails, KeysTypeOK, WorkerTypeOK, CheckerTypeOK
  <2>2. ProducerTypeOK'
    BY <1>4 DEF AddFails, EnqueueFails, ProducerTypeOK, AddStates
  <2>3. spent' \in [Kinds -> Nat]
    BY <1>4, SpendType DEF AddFails, Kinds
  <2> QED BY <1>4, <2>1, <2>2, <2>3 DEF AddFails
<1> QED BY <1>1, <1>2, <1>3, <1>4

\* A crash keeps the types.
LEMMA CrashTypeOK == ASSUME TypeOK, NEW w \in Workers, Crash(w) PROVE TypeOK'
<1> USE DEF TypeOK, Crash
<1>1. KeysTypeOK' /\ ProducerTypeOK'
  BY DEF KeysTypeOK, ProducerTypeOK, keys
<1>2. WorkerTypeOK'
  BY ZeroOptionsType DEF WorkerTypeOK, Labels
<1>3. CheckerTypeOK'
  <2>1. Nobody \in [Jobs -> Nat]
    BY DEF Nobody
  <2> QED BY <2>1, GoOnType
<1>4. spent' \in [Kinds -> Nat]
  BY SpendType DEF Kinds
<1> QED BY <1>1, <1>2, <1>3, <1>4 DEF HeldBy

\* A failing command of a slot keeps the types.
LEMMA WorkFailsTypeOK == ASSUME TypeOK, NEW s \in Slots, WorkFails(s) PROVE TypeOK'
<1> USE DEF TypeOK, pending, finished, hashes, keys
<1>1. ProducerTypeOK' /\ CheckerTypeOK' /\ overrun' \in [Workers -> Nat]
  BY DEF WorkFails, ProducerTypeOK, CheckerTypeOK, checkerVars
<1>2. spent' \in [Kinds -> Nat]
  BY SpendType DEF WorkFails, Kinds
<1>3. "idle" \in Labels /\ "unlock" \in Labels
  BY DEF Labels, Pickup
<1>4. ASSUME PopReplyLost(s) PROVE wait' \in Seq(Jobs) /\ (wait' # wait => WaitTail \in Jobs)
  BY <1>4, PopFacts DEF PopReplyLost, KeysTypeOK
<1>5. atRisk' \subseteq Jobs
  BY <1>4 DEF WorkFails, KeysTypeOK
<1>6. CASE PopReplyLost(s)
  <2>2. KeysTypeOK'
    BY <1>6, <1>4 DEF PopReplyLost, KeysTypeOK, Foremost
  <2>3. WorkerTypeOK'
    BY <1>3, <1>6, GotoType DEF PopReplyLost
  <2> QED BY <1>1, <1>2, <1>5, <2>2, <2>3
<1>7. CASE CommandFails(s)
  <2>1. KeysTypeOK'
    BY <1>7 DEF CommandFails, KeysTypeOK
  <2>2. pc[s] \in Labels /\ job[s] \in Jobs
    BY <1>7 DEF CommandFails, WorkerTypeOK
  <2>3. CASE pc[s] \in {"setex", "load", "complete"}
    <3>1. Goto(s, "idle")
      BY <1>7, <2>3 DEF CommandFails
    <3> QED BY <1>1, <1>2, <1>5, <1>3, <2>1, <3>1, GotoType 
  <2>4. CASE pc[s] = "activate"
    <3>1. Goto(s, "unlock")
      BY <1>7, <2>4 DEF CommandFails
    <3>2. WorkerTypeOK'
      BY <1>3, <2>2, <3>1, GotoType
    <3> QED BY <1>1, <1>2, <1>5, <2>1, <3>2 DEF WorkFails
  <2>5. CASE pc[s] \notin {"setex", "load", "complete", "activate"}
    <3>1. Goto(s, After(s)) /\ After(s) \in Labels
      BY <1>7, <2>2, <2>5, AfterType DEF CommandFails
    <3>2. WorkerTypeOK'
      BY <2>2, <3>1, GotoType
    <3> QED BY <1>1, <1>2, <1>5, <2>1, <3>2 DEF WorkFails
  <2> QED BY <2>3, <2>4, <2>5
<1> QED BY <1>6, <1>7 DEF WorkFails

\* A failing command of a checker keeps the types.
LEMMA CheckFailsTypeOK == ASSUME TypeOK, NEW w \in Workers, CheckFails(w) PROVE TypeOK'
<1> USE DEF TypeOK
<1>1. ProducerTypeOK' /\ WorkerTypeOK' /\ overrun' \in [Workers -> Nat] /\ atRisk' \subseteq Jobs
  BY DEF CheckFails, ProducerTypeOK, WorkerTypeOK, slotVars
<1>2. spent' \in [Kinds -> Nat]
  BY SpendType DEF CheckFails, Kinds
<1>3. KeysTypeOK'
  BY DEF CheckFails, CheckerCommandFails, KeysTypeOK, keys
<1>4. CheckerTypeOK'
  <2>1. ASSUME NEW j \in Jobs, todo[w][j] > 0, GoOn(w, Rest(w, j)) PROVE CheckerTypeOK'
    BY <2>1, RestType, GoOnType
  <2>2. ASSUME chk[w] = "load", Advance(w, "exists") PROVE CheckerTypeOK'
    BY <2>2, AdvanceType DEF ChkLabels
  <2>3. ASSUME chk[w] \notin {"off", "exists", "load"}, Advance(w, Then(w)) PROVE CheckerTypeOK'
    <3>1. chk[w] \in ChkLabels
      BY DEF CheckerTypeOK
    <3> QED BY <2>3, <3>1, ThenType, AdvanceType
  <2> QED BY <2>1, <2>2, <2>3 DEF CheckFails, CheckerCommandFails
<1> QED BY <1>1, <1>2, <1>3, <1>4

\* The types are inductive.
LEMMA NextTypeOK == TypeOK /\ [Next]_vars => TypeOK'
<1> SUFFICES ASSUME TypeOK, [Next]_vars PROVE TypeOK'
  OBVIOUS
<1>1. CASE UNCHANGED vars
  BY <1>1 DEF vars, keys, slotVars, checkerVars, history, TypeOK, KeysTypeOK, ProducerTypeOK,
              WorkerTypeOK, CheckerTypeOK
<1>2. CASE Next
  BY <1>2, AddTypeOK, QueueStepTypeOK, WorkTypeOK, WorkFailsTypeOK, StartScanTypeOK, CheckTypeOK,
     CrashTypeOK, CheckFailsTypeOK DEF Next
<1> QED BY <1>1, <1>2

\* Every variable of the queue keeps its type: Redis keys, progress of Add calls, slots,
\* checkers and history, whatever the code and the failures do.
THEOREM TypeCorrect == Spec => []TypeOK
  BY InitTypeOK, NextTypeOK, PTL DEF Spec

-----------------------------------------------------------------------------
(* Conservation of jobs.  JobConserved is inductive relative to TypeOK: the  *)
(* places of SlotHolds and CheckerHolds are those where it has to be.        *)

\* The keys and places that the steps below leave alone.
LEMMA RecordedSame ==
  ASSUME NEW j \in Jobs,
         UNCHANGED <<wait, prioritized, delayed, active, completed, failed>>
  PROVE  Recorded(j)' <=> Recorded(j)
  BY DEF Recorded, InWait

\* An id in the hands of a slot or checker that does not move stays there.
LEMMA OtherSlots ==
  ASSUME WorkerTypeOK, NEW s \in Slots, NEW t \in Slots, s # t, NEW j \in Jobs,
         pc' = [pc EXCEPT ![s] = pc'[s]], job' = [job EXCEPT ![s] = job'[s]]
  PROVE  SlotHolds(t, j)' <=> SlotHolds(t, j)
  BY DEF WorkerTypeOK, SlotHolds

\* A step of slot s moves an id from a key only into its own hands, gives it up only to a
\* key or with the hash of the job, and makes no deleted hash whole again.
LEMMA SlotMoves ==
  ASSUME KeysTypeOK, WorkerTypeOK, NEW s \in Slots, SlotStep(s), NEW j \in Jobs
  PROVE  /\ Recorded(j) => Recorded(j)' \/ SlotHolds(s, j)'
         /\ SlotHolds(s, j) /\ "job" \in hash'[j] => Recorded(j)' \/ SlotHolds(s, j)'
         /\ "job" \in hash'[j] => "job" \in hash[j]
<1> USE DEF pending, finished, hashes, keys, SlotHolds
<1>1. CASE Begin(s) \/ Load(s) \/ Succeed(s) \/ ProcessorFails(s)
  <2>1. pc[s] \in {"idle", "load", "work"} /\ UNCHANGED keys
    BY <1>1 DEF Begin, Load, Succeed, ProcessorFails
  <2> QED BY <2>1, RecordedSame
<1>2. CASE ZPopMin(s)
  <2>1. pc[s] = "zpop" /\ UNCHANGED <<wait, delayed, active, completed, failed, hash>>
    BY <1>2 DEF ZPopMin
  <2>2. ASSUME NEW k \in Foremost, prioritized' = prioritized \ {k}, Take(s, k)
        PROVE  Recorded(j) => Recorded(j)' \/ SlotHolds(s, j)'
    BY <2>1, <2>2 DEF Recorded, InWait, Take, WorkerTypeOK, Foremost
  <2>3. ASSUME UNCHANGED prioritized PROVE Recorded(j) => Recorded(j)'
    BY <2>1, <2>3, RecordedSame
  <2>4. Recorded(j) => Recorded(j)' \/ SlotHolds(s, j)'
    BY <1>2, <2>2, <2>3 DEF ZPopMin
  <2> QED BY <2>1, <2>4
<1>3. CASE RPop(s)
  <2>1. pc[s] = "rpop" /\ UNCHANGED <<prioritized, delayed, active, completed, failed, hash>>
    BY <1>3 DEF RPop
  <2>2. ASSUME wait # << >>, RPopWait, Take(s, WaitTail)
        PROVE  Recorded(j) => Recorded(j)' \/ SlotHolds(s, j)'
    <3>1. InWait(j) => j = WaitTail \/ InWait(j)'
      BY <2>2, PopFacts DEF KeysTypeOK
    <3>2. pc'[s] = "setex" /\ job'[s] = WaitTail
      BY <2>2 DEF Take, WorkerTypeOK
    <3> QED BY <2>1, <3>1, <3>2 DEF Recorded
  <2>3. ASSUME UNCHANGED wait PROVE Recorded(j) => Recorded(j)'
    BY <2>1, <2>3, RecordedSame
  <2>4. Recorded(j) => Recorded(j)' \/ SlotHolds(s, j)'
    BY <1>3, <2>2, <2>3 DEF RPop
  <2> QED BY <2>1, <2>4
<1>4. CASE SetEx(s)
  <2>1. pc'[s] = "activate" /\ job'[s] = job[s]
    BY <1>4 DEF SetEx, Goto, WorkerTypeOK
  <2>2. Recorded(j)' <=> Recorded(j)
    BY <1>4, RecordedSame DEF SetEx
  <2> QED BY <1>4, <2>1, <2>2 DEF SetEx
<1>5. CASE Activate(s)
  <2>1. pc[s] = "activate" /\ UNCHANGED <<wait, prioritized, delayed, completed, failed, hash>>
    BY <1>5 DEF Activate
  <2>2. active'[j] >= active[j] /\ (j = job[s] => active'[j] > 0)
    BY <1>5 DEF Activate, LPushActive, KeysTypeOK
  <2>3. active[j] \in Nat /\ active'[j] \in Nat
    BY <1>5 DEF Activate, LPushActive, KeysTypeOK
  <2> QED BY <2>1, <2>2, <2>3 DEF Recorded, InWait
<1>6. CASE LRem(s)
  <2>1. UNCHANGED <<wait, prioritized, delayed, completed, failed, hash>>
    BY <1>6 DEF LRem
  <2>2. j # job[s] => active'[j] = active[j]
    BY <1>6 DEF LRem, LRemActive, KeysTypeOK
  <2>3. job'[s] = job[s] /\ pc'[s] \in {"returnvalue", "remove", "completed", "failrelease", "delay"}
    BY <1>6 DEF LRem, Goto, WorkerTypeOK, After, AfterReturnValue
  <2>4. pc[s] \in {"complete", "fail", "retry"}
    BY <1>6 DEF LRem
  <2> QED BY <2>1, <2>2, <2>3, <2>4 DEF Recorded, InWait
<1>7. CASE StoreResult(s)
  <2>1. Recorded(j)' <=> Recorded(j)
    BY <1>7, RecordedSame DEF StoreResult
  <2>2. "job" \in hash'[j] => "job" \in hash[j]
    BY <1>7 DEF StoreResult, HSetResult, KeysTypeOK
  <2>3. pc[s] = "returnvalue" => pc'[s] \in {"remove", "completed"} /\ job'[s] = job[s]
    BY <1>7 DEF StoreResult, Goto, WorkerTypeOK, After, AfterReturnValue
  <2> QED BY <1>7, <2>1, <2>2, <2>3 DEF StoreResult
<1>8. CASE RemoveHash(s)
  <2>1. Recorded(j)' <=> Recorded(j)
    BY <1>8, RecordedSame DEF RemoveHash
  <2>2. hash'[j] = IF j = job[s] THEN {} ELSE hash[j]
    BY <1>8 DEF RemoveHash, DelJob, KeysTypeOK
  <2> QED BY <2>1, <2>2
<1>9. CASE ZAddFinished(s)
  <2>1. UNCHANGED <<wait, prioritized, delayed, active, hash>> /\ pc[s] \in {"completed", "failed"}
        /\ completed \subseteq completed' /\ failed \subseteq failed'
        /\ job[s] \in completed' \cup failed'
    BY <1>9 DEF ZAddFinished
  <2> QED BY <2>1 DEF Recorded, InWait
<1>10. CASE Unlock(s)
  <2>1. Recorded(j)' <=> Recorded(j)
    BY <1>10, RecordedSame DEF Unlock
  <2>2. pc[s] = "failrelease" => pc'[s] \in {"failed", "faildel"} /\ job'[s] = job[s]
    BY <1>10 DEF Unlock, Goto, WorkerTypeOK, After, AfterFailRelease
  <2> QED BY <1>10, <2>1, <2>2 DEF Unlock
<1>11. CASE ZAddDelayed(s)
  <2>1. UNCHANGED <<wait, prioritized, active, completed, failed, hash>> /\ pc[s] = "delay"
        /\ delayed' = delayed \cup {job[s]}
    BY <1>11 DEF ZAddDelayed
  <2> QED BY <2>1 DEF Recorded, InWait
<1>12. CASE StoreAttempts(s)
  <2>1. Recorded(j)' <=> Recorded(j)
    BY <1>12, RecordedSame DEF StoreAttempts
  <2>2. "job" \in hash'[j] => "job" \in hash[j]
    BY <1>12 DEF StoreAttempts, HSetAttempts, KeysTypeOK
  <2> QED BY <1>12, <2>1, <2>2 DEF StoreAttempts
<1> QED
  BY <1>1, <1>2, <1>3, <1>4, <1>5, <1>6, <1>7, <1>8, <1>9, <1>10, <1>11, <1>12 DEF SlotStep

\* A step of slot s assigns no other slot.
LEMMA SlotStepLocal ==
  ASSUME WorkerTypeOK, NEW s \in Slots, SlotStep(s) \/ PopReplyLost(s) \/ CommandFails(s)
  PROVE  pc' = [pc EXCEPT ![s] = pc'[s]] /\ job' = [job EXCEPT ![s] = job'[s]]
<1>1. ASSUME NEW label, Goto(s, label)
      PROVE  pc' = [pc EXCEPT ![s] = pc'[s]] /\ job' = [job EXCEPT ![s] = job'[s]]
  BY <1>1 DEF Goto, WorkerTypeOK
<1>2. ASSUME NEW k, Take(s, k)
      PROVE  pc' = [pc EXCEPT ![s] = pc'[s]] /\ job' = [job EXCEPT ![s] = job'[s]]
  BY <1>2 DEF Take, WorkerTypeOK
<1>3. CASE Load(s) \/ ProcessorFails(s)
  <2>1. ASSUME NEW label, pc' = [pc EXCEPT ![s] = label], UNCHANGED job
        PROVE  pc' = [pc EXCEPT ![s] = pc'[s]] /\ job' = [job EXCEPT ![s] = job'[s]]
    BY <2>1 DEF WorkerTypeOK
  <2> QED BY <1>1, <1>3, <2>1 DEF Load, ProcessorFails
<1>4. CASE Begin(s) \/ SetEx(s) \/ Activate(s) \/ Succeed(s) \/ StoreResult(s) \/ RemoveHash(s)
           \/ ZAddFinished(s) \/ Unlock(s) \/ ZAddDelayed(s) \/ StoreAttempts(s)
           \/ PopReplyLost(s) \/ CommandFails(s)
  BY <1>1, <1>4 DEF Begin, SetEx, Activate, Succeed, StoreResult, RemoveHash, ZAddFinished,
                    Unlock, ZAddDelayed, StoreAttempts, PopReplyLost, CommandFails
<1>5. CASE ZPopMin(s) \/ RPop(s) \/ LRem(s)
  BY <1>1, <1>2, <1>5 DEF ZPopMin, RPop, LRem
<1> QED BY <1>3, <1>4, <1>5 DEF SlotStep

\* A step of a slot loses no job.
LEMMA WorkKeeps ==
  ASSUME TypeOK, NEW s \in Slots, Work(s), NEW j \in Jobs, Conserved(j) PROVE Conserved(j)'
<1>1. SlotStep(s) /\ KeysTypeOK /\ WorkerTypeOK
  BY DEF Work, TypeOK
<1>2. /\ Recorded(j) => Recorded(j)' \/ SlotHolds(s, j)'
      /\ SlotHolds(s, j) /\ "job" \in hash'[j] => Recorded(j)' \/ SlotHolds(s, j)'
      /\ "job" \in hash'[j] => "job" \in hash[j]
  BY <1>1, SlotMoves
<1>3. \A t \in Slots : t # s => (SlotHolds(t, j)' <=> SlotHolds(t, j))
  BY <1>1, OtherSlots, SlotStepLocal
<1>4. \A w \in Workers : CheckerHolds(w, j)' <=> CheckerHolds(w, j)
  BY DEF Work, CheckerHolds, checkerVars
<1> QED BY <1>2, <1>3, <1>4 DEF Conserved, Kept, Work

\* A step of the checker of w: the same three facts.
LEMMA CheckerMoves ==
  ASSUME KeysTypeOK, CheckerTypeOK, NEW w \in Workers, CheckerStep(w), NEW j \in Jobs
  PROVE  /\ Recorded(j) => Recorded(j)' \/ CheckerHolds(w, j)'
         /\ CheckerHolds(w, j) => Recorded(j)' \/ CheckerHolds(w, j)'
         /\ "job" \in hash'[j] => "job" \in hash[j]
<1> USE DEF pending, finished, hashes, keys, CheckerHolds
<1>1. CASE Exists(w) \/ LoadStalled(w)
  <2>1. chk[w] \in {"exists", "load"} /\ UNCHANGED keys
    BY <1>1 DEF Exists, LoadStalled
  <2> QED BY <2>1, RecordedSame
<1>2. CASE LRemStalled(w)
  <2>1. chk[w] = "lrem" /\ UNCHANGED <<wait, prioritized, delayed, completed, failed, hash>>
    BY <1>2 DEF LRemStalled
  <2>2. j # cjob[w] => active'[j] = active[j]
    BY <1>2 DEF LRemStalled, LRemActive, KeysTypeOK
  <2>3. cjob'[w] = cjob[w] /\ chk'[w] \in {"zadd", "lpush"}
    BY <1>2 DEF LRemStalled, Advance, Then, AfterLRem, CheckerTypeOK
  <2> QED BY <2>1, <2>2, <2>3 DEF Recorded, InWait
<1>3. CASE FailStalled(w)
  <2>1. /\ UNCHANGED <<wait, prioritized, delayed, active, completed, hash>>
        /\ failed' = failed \cup {cjob[w]}
    BY <1>3 DEF FailStalled
  <2> QED BY <2>1 DEF Recorded, InWait
<1>4. CASE StoreReason(w)
  <2>1. Recorded(j)' <=> Recorded(j)
    BY <1>4, RecordedSame DEF StoreReason
  <2>2. "job" \in hash'[j] => "job" \in hash[j]
    BY <1>4 DEF StoreReason, HSetResult, KeysTypeOK
  <2> QED BY <1>4, <2>1, <2>2 DEF StoreReason
<1>5. CASE Requeue(w)
  <2>1. chk[w] = "lpush" /\ UNCHANGED <<prioritized, delayed, active, completed, failed, hash>>
    BY <1>5 DEF Requeue
  <2>2. PICK c \in Jobs : c = cjob[w]
    BY <2>1 DEF CheckerTypeOK
  <2>3. InWait(c)' /\ (InWait(j) => InWait(j)')
    BY <1>5, <2>2, PushFacts DEF Requeue, KeysTypeOK
  <2> QED BY <2>1, <2>2, <2>3 DEF Recorded
<1>6. CASE StoreRecovery(w)
  <2>1. Recorded(j)' <=> Recorded(j)
    BY <1>6, RecordedSame DEF StoreRecovery
  <2>2. "job" \in hash'[j] => "job" \in hash[j]
    BY <1>6 DEF StoreRecovery, HSetAttempts, KeysTypeOK
  <2> QED BY <1>6, <2>1, <2>2 DEF StoreRecovery
<1> QED BY <1>1, <1>2, <1>3, <1>4, <1>5, <1>6 DEF CheckerStep

\* A step of the checker of w assigns no other checker.
LEMMA CheckerStepLocal ==
  ASSUME CheckerTypeOK, NEW w \in Workers, NEW v \in Workers, v # w,
         CheckerStep(w) \/ Scan(w) \/ CheckerCommandFails(w) \/ GoOn(w, Nobody)
  PROVE  /\ chk'[v] = chk[v] /\ cjob'[v] = cjob[v]
         /\ \A j \in Jobs : CheckerHolds(v, j)' <=> CheckerHolds(v, j)
<1>1. ASSUME NEW rest, GoOn(w, rest) PROVE chk'[v] = chk[v] /\ cjob'[v] = cjob[v]
  BY <1>1 DEF GoOn, CheckerTypeOK
<1>2. ASSUME NEW label, Advance(w, label) PROVE chk'[v] = chk[v] /\ cjob'[v] = cjob[v]
  BY <1>1, <1>2 DEF Advance, CheckerTypeOK
<1>3. ASSUME Scan(w) \/ Exists(w) \/ LoadStalled(w) PROVE chk'[v] = chk[v] /\ cjob'[v] = cjob[v]
  BY <1>1, <1>3 DEF Scan, Exists, LoadStalled, CheckerTypeOK
<1>4. ASSUME LRemStalled(w) \/ FailStalled(w) \/ StoreReason(w) \/ Requeue(w) \/ StoreRecovery(w)
      PROVE  chk'[v] = chk[v] /\ cjob'[v] = cjob[v]
  BY <1>2, <1>4 DEF LRemStalled, FailStalled, StoreReason, Requeue, StoreRecovery
<1>5. ASSUME CheckerCommandFails(w) PROVE chk'[v] = chk[v] /\ cjob'[v] = cjob[v]
  BY <1>1, <1>2, <1>5 DEF CheckerCommandFails
<1> QED BY <1>1, <1>3, <1>4, <1>5 DEF CheckerStep, CheckerHolds

\* A step of a checker loses no job.
LEMMA CheckKeeps ==
  ASSUME TypeOK, NEW w \in Workers, Check(w), NEW j \in Jobs, Conserved(j) PROVE Conserved(j)'
<1>1. CheckerStep(w) /\ KeysTypeOK /\ CheckerTypeOK
  BY DEF Check, TypeOK
<1>2. /\ Recorded(j) => Recorded(j)' \/ CheckerHolds(w, j)'
      /\ CheckerHolds(w, j) => Recorded(j)' \/ CheckerHolds(w, j)'
      /\ "job" \in hash'[j] => "job" \in hash[j]
  BY <1>1, CheckerMoves
<1>3. \A v \in Workers : v # w => (CheckerHolds(v, j)' <=> CheckerHolds(v, j))
  BY <1>1, CheckerStepLocal
<1>4. \A s \in Slots : SlotHolds(s, j)' <=> SlotHolds(s, j)
  BY DEF Check, SlotHolds, slotVars
<1> QED BY <1>2, <1>3, <1>4 DEF Conserved, Kept, Check, history

\* A scan that starts loses no job.
LEMMA StartScanKeeps ==
  ASSUME TypeOK, NEW w \in Workers, StartScan(w), NEW j \in Jobs, Conserved(j) PROVE Conserved(j)'
<1>1. Scan(w) /\ CheckerTypeOK
  BY DEF StartScan, TypeOK
<1>2. Recorded(j)' <=> Recorded(j)
  BY <1>1, RecordedSame DEF Scan, keys
<1>3. \A v \in Workers : CheckerHolds(v, j) => CheckerHolds(v, j)'
  <2>1. ~CheckerHolds(w, j)
    BY <1>1 DEF Scan, CheckerHolds
  <2> QED BY <1>1, <2>1, CheckerStepLocal
<1>4. \A s \in Slots : SlotHolds(s, j)' <=> SlotHolds(s, j)
  BY DEF StartScan, SlotHolds, slotVars
<1> QED BY <1>1, <1>2, <1>3, <1>4 DEF Conserved, Kept, StartScan, Scan, keys

\* Add puts the id of a queued job in a key; its other steps concern ids not added yet.
LEMMA AddKeeps ==
  ASSUME TypeOK, NEW k \in Jobs, Add(k), NEW j \in Jobs, Conserved(j) PROVE Conserved(j)'
<1> USE DEF pending, finished, hashes
<1>1. /\ \A s \in Slots : SlotHolds(s, j)' <=> SlotHolds(s, j)
      /\ \A w \in Workers : CheckerHolds(w, j)' <=> CheckerHolds(w, j)
      /\ atRisk' = atRisk
  BY DEF Add, SlotHolds, CheckerHolds, slotVars, checkerVars, history
<1>2. CASE StoreJobHash(k)
  <2>1. Recorded(j)' <=> Recorded(j)
    BY <1>2, RecordedSame DEF StoreJobHash
  <2>2. add'[j] = "added" => j # k /\ add[j] = "added" /\ hash'[j] = hash[j]
    BY <1>2 DEF StoreJobHash, TypeOK, ProducerTypeOK, KeysTypeOK
  <2> QED BY <1>1, <2>1, <2>2 DEF Conserved, Kept
<1>3. CASE EnqueueJob(k)
  <2>1. wait' = wait \/ LPushWait(k)
    BY <1>3 DEF EnqueueJob
  <2>2. Recorded(j) => Recorded(j)'
    BY <1>3, <2>1, PushFacts DEF EnqueueJob, Recorded, InWait, TypeOK, KeysTypeOK
  <2>3. Recorded(k)'
    BY <1>3, PushFacts DEF EnqueueJob, Recorded, TypeOK, KeysTypeOK
  <2>4. j # k => add'[j] = add[j]
    BY <1>3 DEF EnqueueJob, TypeOK, ProducerTypeOK
  <2>5. hash' = hash
    BY <1>3 DEF EnqueueJob
  <2> QED BY <1>1, <2>2, <2>3, <2>4, <2>5 DEF Conserved, Kept
<1> QED BY <1>2, <1>3 DEF Add

\* Pausing, resuming and lapsing locks lose no job.
LEMMA QueueStepKeeps ==
  ASSUME TypeOK, PauseQueue \/ ResumeQueue \/ \E k \in Jobs : LockExpires(k) \/ AddFails(k),
         NEW j \in Jobs, Conserved(j)
  PROVE  Conserved(j)'
<1> USE DEF pending, finished, hashes, keys, slotVars, checkerVars, history
<1>1. /\ UNCHANGED <<wait, prioritized, delayed, active, completed, failed, hash>>
      /\ UNCHANGED <<pc, job, chk, cjob, atRisk>>
      /\ add'[j] = "added" => add[j] = "added"
  BY DEF PauseQueue, ResumeQueue, LockExpires, AddFails, Pause, Resume, EnqueueFails,
         TypeOK, ProducerTypeOK
<1>2. Recorded(j)' <=> Recorded(j)
  BY <1>1, RecordedSame
<1> QED BY <1>1, <1>2 DEF Conserved, Kept, SlotHolds, CheckerHolds

\* A crash puts at risk what the worker held, and keeps everything else.
LEMMA CrashKeeps ==
  ASSUME TypeOK, NEW w \in Workers, Crash(w), NEW j \in Jobs, Conserved(j) PROVE Conserved(j)'
<1>1. Recorded(j)' <=> Recorded(j)
  BY RecordedSame DEF Crash, keys
<1>2. ASSUME NEW s \in Slots, SlotHolds(s, j) PROVE j \in atRisk' \/ SlotHolds(s, j)'
  BY <1>2 DEF Crash, HeldBy, SlotHolds
<1>3. ASSUME NEW v \in Workers, CheckerHolds(v, j) PROVE j \in atRisk' \/ CheckerHolds(v, j)'
  BY <1>3, CheckerStepLocal DEF Crash, HeldBy, TypeOK
<1> QED BY <1>1, <1>2, <1>3 DEF Conserved, Kept, Crash, keys

\* A failing command of a slot keeps the job, or puts it at risk.
LEMMA WorkFailsKeeps ==
  ASSUME TypeOK, NEW s \in Slots, WorkFails(s), NEW j \in Jobs, Conserved(j) PROVE Conserved(j)'
<1> USE DEF pending, finished, hashes, keys
<1>1. KeysTypeOK /\ WorkerTypeOK /\ UNCHANGED <<add, hash>>
  BY DEF WorkFails, TypeOK, PopReplyLost, CommandFails
<1>2. \A w \in Workers : CheckerHolds(w, j)' <=> CheckerHolds(w, j)
  BY DEF WorkFails, CheckerHolds, checkerVars
<1>3. \A t \in Slots : t # s => (SlotHolds(t, j)' <=> SlotHolds(t, j))
  BY <1>1, OtherSlots, SlotStepLocal DEF WorkFails
<1>4. CASE PopReplyLost(s) /\ atRisk' = atRisk \cup (prioritized \ prioritized')
                                              \cup (IF wait' # wait THEN {WaitTail} ELSE {})
  <2>1. InWait(j) => InWait(j)' \/ j \in atRisk'
    <3>1. CASE wait' = wait
      BY <3>1 DEF InWait
    <3>2. CASE wait' # wait
      BY <1>1, <1>4, <3>2, PopFacts DEF PopReplyLost, KeysTypeOK
    <3> QED BY <3>1, <3>2
  <2>2. Recorded(j) => Recorded(j)' \/ j \in atRisk'
    BY <1>4, <2>1 DEF Recorded, PopReplyLost
  <2>3. ~SlotHolds(s, j)
    BY <1>4 DEF PopReplyLost, SlotHolds
  <2> QED BY <1>1, <1>2, <1>3, <1>4, <2>2, <2>3 DEF Conserved, Kept
<1>5. CASE CommandFails(s) /\ atRisk' = atRisk \cup { k \in Jobs : /\ SlotHolds(s, k)
                                                   /\ pc[s] \notin {"returnvalue", "failrelease"} }
  <2>1. Recorded(j)' <=> Recorded(j)
    BY <1>5, RecordedSame DEF CommandFails
  <2>2. SlotHolds(s, j) => SlotHolds(s, j)' \/ j \in atRisk'
    <3>1. ASSUME SlotHolds(s, j), pc[s] \in {"returnvalue", "failrelease"} PROVE SlotHolds(s, j)'
      <4>1. Goto(s, After(s))
        BY <1>5, <3>1 DEF CommandFails
      <4>2. After(s) \in {"remove", "completed", "failed", "faildel"}
        BY <3>1 DEF After, AfterReturnValue, AfterFailRelease
      <4> QED BY <1>1, <3>1, <4>1, <4>2 DEF Goto, SlotHolds, WorkerTypeOK
    <3> QED BY <1>5, <3>1
  <2> QED BY <1>1, <1>2, <1>3, <1>5, <2>1, <2>2 DEF Conserved, Kept
<1> QED BY <1>4, <1>5 DEF WorkFails

\* A failing command of a checker keeps the job, or puts it at risk.
LEMMA CheckFailsKeeps ==
  ASSUME TypeOK, NEW w \in Workers, CheckFails(w), NEW j \in Jobs, Conserved(j) PROVE Conserved(j)'
<1>1. CheckerCommandFails(w) /\ UNCHANGED keys /\ CheckerTypeOK
  BY DEF CheckFails, CheckerCommandFails, TypeOK
<1>2. Recorded(j)' <=> Recorded(j)
  BY <1>1, RecordedSame DEF keys
<1>3. \A v \in Workers : v # w => (CheckerHolds(v, j)' <=> CheckerHolds(v, j))
  BY <1>1, CheckerStepLocal
<1>4. \A s \in Slots : SlotHolds(s, j)' <=> SlotHolds(s, j)
  BY DEF CheckFails, SlotHolds, slotVars
<1>5. CheckerHolds(w, j) => j \in atRisk'
  BY DEF CheckFails
<1> QED BY <1>1, <1>2, <1>3, <1>4, <1>5 DEF Conserved, Kept, CheckFails, keys

\* So does every step.
LEMMA NextKeeps ==
  ASSUME TypeOK, [Next]_vars, NEW j \in Jobs, Conserved(j) PROVE Conserved(j)'
<1>1. CASE UNCHANGED vars
  BY <1>1 DEF vars, keys, slotVars, checkerVars, history, Conserved, Kept, Recorded, InWait,
              SlotHolds, CheckerHolds
<1>2. CASE Next
  BY <1>2, AddKeeps, QueueStepKeeps, WorkKeeps, WorkFailsKeeps, StartScanKeeps, CheckKeeps,
     CrashKeeps, CheckFailsKeeps DEF Next
<1> QED BY <1>1, <1>2

\* No order of the steps of any number of producers, workers and checkers loses a job that
\* was queued: it leaves the keys only with its hash, or in a crash or a failing command
\* between the two commands that move it.
THEOREM JobsConserved == Spec => []JobConserved
<1>1. Init => JobConserved
  BY DEF Init, ProducerInit, JobConserved, Conserved
<1>2. TypeOK /\ JobConserved /\ [Next]_vars => JobConserved'
  BY NextKeeps DEF JobConserved
<1> QED BY <1>1, <1>2, TypeCorrect, PTL DEF Spec

-----------------------------------------------------------------------------
(* The pause *)

\* Nothing is counted before the pause, one pickup of a worker runs at a time, and a worker
\* that popped a job since the pause pops no more.
Popping == {"zpop", "rpop"}
PauseInv ==
  /\ \A w \in Workers : overrun[w] \in {0, 1}
  /\ ~paused => \A w \in Workers : overrun[w] = 0
  /\ \A s, t \in Slots :
       s # t /\ WorkerOf[s] = WorkerOf[t] /\ pc[s] \in Pickup => pc[t] \notin Pickup
  /\ paused => \A s \in Slots : pc[s] \in Popping => overrun[WorkerOf[s]] = 0

\* A slot comes to a pickup only by Begin, and to SETEX only by a pop.
LEMMA PickupMoves ==
  ASSUME WorkerTypeOK, NEW s \in Slots, SlotStep(s) \/ PopReplyLost(s) \/ CommandFails(s)
  PROVE  /\ paused' = paused
         /\ \A t \in Slots : t # s => pc'[t] = pc[t]
         /\ pc'[s] \in Pickup => pc[s] \in Pickup \/ Begin(s)
         /\ pc'[s] \in Popping => pc[s] \in Popping \/ Begin(s)
         /\ pc'[s] = "setex" => pc[s] \in Popping
<1> USE DEF Popping, Pickup
<1>1. pc' = [pc EXCEPT ![s] = pc'[s]]
  BY SlotStepLocal
<1>2. \A t \in Slots : t # s => pc'[t] = pc[t]
  BY <1>1 DEF WorkerTypeOK
<1>3. ASSUME NEW label, Goto(s, label) PROVE pc'[s] = label
  BY <1>3 DEF Goto, WorkerTypeOK
<1>4. ASSUME NEW k, Take(s, k) PROVE pc'[s] = "setex"
  BY <1>4 DEF Take, WorkerTypeOK
<1>5. pc[s] \in {"fail", "retry", "returnvalue", "failreason", "remove", "faildel", "completed",
                 "failed", "removelock", "release", "failrelease", "unlock", "delay", "attempts"}
      => After(s) \notin Pickup
  BY DEF After, AfterReturnValue, AfterFailRelease
<1>6. CASE Begin(s)
  BY <1>2, <1>3, <1>6 DEF Begin, keys
<1>7. CASE ZPopMin(s) \/ RPop(s) \/ PopReplyLost(s)
  BY <1>2, <1>3, <1>4, <1>7 DEF ZPopMin, RPop, PopReplyLost
<1>8. CASE SetEx(s) \/ Activate(s)
  BY <1>2, <1>3, <1>8 DEF SetEx, Activate
<1>9. CASE Load(s) \/ Succeed(s) \/ ProcessorFails(s)
  <2>1. pc'[s] \in {"idle", "work", "complete", "fail", "retry"} /\ paused' = paused
    BY <1>3, <1>9 DEF Load, Succeed, ProcessorFails, WorkerTypeOK, keys
  <2> QED BY <1>2, <2>1
<1>10. CASE LRem(s)
  <2>1. pc'[s] \notin Pickup /\ paused' = paused
    BY <1>3, <1>5, <1>10 DEF LRem, AfterReturnValue
  <2> QED BY <1>2, <2>1
<1>11. CASE StoreResult(s) \/ RemoveHash(s) \/ ZAddFinished(s) \/ Unlock(s) \/ ZAddDelayed(s)
            \/ StoreAttempts(s)
  <2>1. pc'[s] \notin Pickup /\ paused' = paused
    BY <1>3, <1>5, <1>11 DEF StoreResult, RemoveHash, ZAddFinished, Unlock, ZAddDelayed, StoreAttempts
  <2> QED BY <1>2, <2>1
<1>12. CASE CommandFails(s)
  <2>1. paused' = paused
    BY <1>12 DEF CommandFails, keys
  <2>2. CASE pc[s] \in {"setex", "load", "complete", "activate"}
    <3>1. pc'[s] = "idle" \/ (pc[s] = "activate" /\ pc'[s] = "unlock")
      BY <1>3, <1>12, <2>2 DEF CommandFails
    <3> QED BY <1>2, <2>1, <3>1
  <2>3. CASE pc[s] \notin {"setex", "load", "complete", "activate"}
    <3>1. pc'[s] = After(s)
      BY <1>3, <1>12, <2>3 DEF CommandFails
    <3>2. pc[s] \in {"fail", "retry", "returnvalue", "failreason", "remove", "faildel", "completed",
                 "failed", "removelock", "release", "failrelease", "unlock", "delay", "attempts"}
      BY <1>12, <2>3 DEF CommandFails, WorkerTypeOK, Labels, Finish, Fail, Retry
    <3> QED BY <1>2, <1>5, <2>1, <3>1, <3>2
  <2> QED BY <2>2, <2>3
<1> QED
  BY <1>6, <1>7, <1>8, <1>9, <1>10, <1>11, <1>12 DEF SlotStep

\* Steps that leave every slot where it is, and count nothing, keep the invariant, unless
\* they resume the queue.
LEMMA PauseElsewhere ==
  ASSUME PauseInv, UNCHANGED <<pc, overrun>>, paused' = paused \/ paused' = TRUE
  PROVE  PauseInv'
<1>1. ASSUME ~paused PROVE \A s \in Slots : overrun'[WorkerOf[s]] = 0
  BY <1>1 DEF PauseInv
<1> QED BY <1>1 DEF PauseInv

\* The invariant survives every step.
LEMMA PauseStep == TypeOK /\ PauseInv /\ [Next]_vars => PauseInv'
<1> SUFFICES ASSUME TypeOK, PauseInv, [Next]_vars PROVE PauseInv'
  OBVIOUS
<1>0. WorkerTypeOK /\ overrun \in [Workers -> Nat] /\ \A s \in Slots : WorkerOf[s] \in Workers
  BY DEF TypeOK
<1>1. ASSUME NEW s \in Slots, Work(s) PROVE PauseInv'
  <2>1. SlotStep(s) /\ overrun' = [overrun EXCEPT ![WorkerOf[s]] =
          IF paused /\ pc[s] # "setex" /\ pc'[s] = "setex" THEN @ + 1 ELSE @]
    BY <1>1 DEF Work
  <2>2. /\ paused' = paused
        /\ \A t \in Slots : t # s => pc'[t] = pc[t]
        /\ pc'[s] \in Pickup => pc[s] \in Pickup \/ Begin(s)
        /\ pc'[s] \in Popping => pc[s] \in Popping \/ Begin(s)
        /\ pc'[s] = "setex" => pc[s] \in Popping
    BY <1>0, <2>1, PickupMoves
  <2>3. Begin(s) => ~paused /\ \A t \in Slots : WorkerOf[t] = WorkerOf[s] => pc[t] \notin Pickup
    BY DEF Begin
  <2>4. Popping \subseteq Pickup /\ "setex" \notin Popping
    BY DEF Popping, Pickup
  <2>5. \A t, u \in Slots :
          t # u /\ WorkerOf[t] = WorkerOf[u] /\ pc'[t] \in Pickup => pc'[u] \notin Pickup
    BY <2>2, <2>3 DEF PauseInv
  <2>6. CASE paused /\ pc[s] # "setex" /\ pc'[s] = "setex"
    <3>1. overrun[WorkerOf[s]] = 0 /\ pc[s] \in Pickup
      BY <2>2, <2>4, <2>6 DEF PauseInv
    <3>2. \A w \in Workers : overrun'[w] = IF w = WorkerOf[s] THEN 1 ELSE overrun[w]
      BY <1>0, <2>1, <2>6, <3>1
    <3>3. \A t \in Slots : pc'[t] \in Popping => WorkerOf[t] # WorkerOf[s] /\ pc[t] \in Popping
      BY <2>2, <2>4, <2>6, <3>1 DEF PauseInv
    <3> QED BY <1>0, <2>2, <2>5, <2>6, <3>2, <3>3 DEF PauseInv
  <2>7. CASE ~(paused /\ pc[s] # "setex" /\ pc'[s] = "setex")
    <3>1. \A w \in Workers : overrun'[w] = overrun[w]
      BY <1>0, <2>1, <2>7
    <3> QED BY <1>0, <2>2, <2>3, <2>5, <3>1 DEF PauseInv
  <2> QED BY <2>6, <2>7
<1>2. ASSUME NEW s \in Slots, WorkFails(s) PROVE PauseInv'
  <2>1. (PopReplyLost(s) \/ CommandFails(s)) /\ overrun' = overrun
    BY <1>2 DEF WorkFails
  <2>2. /\ paused' = paused
        /\ \A t \in Slots : t # s => pc'[t] = pc[t]
        /\ pc'[s] \in Pickup => pc[s] \in Pickup \/ Begin(s)
        /\ pc'[s] \in Popping => pc[s] \in Popping \/ Begin(s)
    BY <1>0, <2>1, PickupMoves
  <2>3. ~Begin(s)
    BY <2>1 DEF Begin, PopReplyLost, CommandFails
  <2> QED BY <1>0, <2>1, <2>2, <2>3 DEF PauseInv
<1>3. ASSUME NEW w \in Workers, Crash(w) PROVE PauseInv'
  <2>1. UNCHANGED <<paused, overrun>> /\ \A s \in Slots : pc'[s] = pc[s] \/ pc'[s] = "idle"
    BY <1>3 DEF Crash, keys
  <2>2. "idle" \notin Pickup /\ "idle" \notin Popping
    BY DEF Pickup, Popping
  <2> QED BY <2>1, <2>2 DEF PauseInv
<1>4. ASSUME ResumeQueue PROVE PauseInv'
  <2>1. UNCHANGED pc /\ paused' = FALSE /\ \A w \in Workers : overrun'[w] = 0
    BY <1>4 DEF ResumeQueue, Resume, slotVars
  <2> QED BY <2>1 DEF PauseInv
<1>5. ASSUME PauseQueue \/ \E j \in Jobs : Add(j) \/ LockExpires(j) \/ AddFails(j) PROVE PauseInv'
  <2>1. UNCHANGED <<pc, overrun>> /\ (paused' = paused \/ paused' = TRUE)
    BY <1>5 DEF PauseQueue, Pause, Add, StoreJobHash, EnqueueJob, LockExpires, AddFails,
                EnqueueFails, slotVars, history, keys
  <2> QED BY <2>1, PauseElsewhere
<1>6. ASSUME \E w \in Workers : StartScan(w) \/ Check(w) \/ CheckFails(w) PROVE PauseInv'
  <2>1. UNCHANGED <<pc, overrun>> /\ paused' = paused
    BY <1>6 DEF StartScan, Scan, Check, CheckerStep, Exists, LoadStalled, LRemStalled, FailStalled,
                StoreReason, Requeue, StoreRecovery, CheckFails, CheckerCommandFails, slotVars,
                history, keys
  <2> QED BY <2>1, PauseElsewhere
<1>7. ASSUME UNCHANGED vars PROVE PauseInv'
  <2>1. UNCHANGED <<pc, overrun>> /\ paused' = paused
    BY <1>7 DEF vars, keys, slotVars, history
  <2> QED BY <2>1, PauseElsewhere
<1> QED BY <1>1, <1>2, <1>3, <1>4, <1>5, <1>6, <1>7 DEF Next

\* A paused queue hands out at most the one job each worker was popping when Pause came,
\* whatever crashes, fails or is resumed meanwhile.
THEOREM PauseBounded == Spec => []PauseOverrun
<1>1. Init => PauseInv
  BY DEF Init, WorkerInit, PauseInv, Pickup, Popping
<1>2. PauseInv => PauseOverrun
  BY DEF PauseInv, PauseOverrun
<1> QED BY <1>1, <1>2, PauseStep, TypeCorrect, PTL DEF Spec

-----------------------------------------------------------------------------
(* The attempt counters *)

\* From the HGETALL of a job to the end of processJob a slot has its options in memory.
Loaded == {"work"} \cup Finish \cup Fail \cup Retry

\* An id that its Add has not enqueued is in no place from which a command could take it,
\* and nothing touches the hash that Add stored.
Unknown(j) ==
  /\ add[j] = "stored" => "job" \in hash[j]
  /\ ~InWait(j) /\ j \notin prioritized /\ active[j] = 0
  /\ \A s \in Slots : job[s] # j
  /\ \A w \in Workers : cjob[w] # j /\ todo[w][j] = 0

\* While the hash is there, a slot that has loaded the job has its options.
Remembers(s, j) ==
  job[s] = j => tries[s] <= Bound(opts[j]) /\ (pc[s] \in Loaded => cfg[s] = opts[j])

\* Counted, with the options in memory: it is inductive together with Unknown.
Lines(j) ==
  "job" \in hash[j] => attemptsMade[j] <= Bound(opts[j]) /\ \A s \in Slots : Remembers(s, j)

AttemptsInv ==
  /\ \A s \in Slots : pc[s] \notin Loaded => tries[s] = 0
  /\ \A j \in Jobs : (add[j] # "added" => Unknown(j)) /\ Lines(j)

\* LPUSH and RPOP bring no other id into the wait list.
LEMMA PushOnly ==
  ASSUME wait \in Seq(Jobs), NEW j \in Jobs, LPushWait(j), NEW k \in Jobs, InWait(k)'
  PROVE  k = j \/ InWait(k)
<1>1. <<j>> \in Seq(Jobs) /\ Len(<<j>>) = 1 /\ <<j>>[1] = j /\ Len(wait) \in Nat
  OBVIOUS
<1>2. /\ Len(wait') = 1 + Len(wait)
      /\ \A i \in 1..(1 + Len(wait)) : wait'[i] = IF i <= 1 THEN <<j>>[i] ELSE wait[i - 1]
  BY <1>1, ConcatProperties DEF LPushWait
<1>3. PICK i \in 1..Len(wait') : wait'[i] = k
  BY DEF InWait
<1>4. CASE i = 1
  BY <1>1, <1>2, <1>3, <1>4
<1>5. CASE i # 1
  <2>1. i - 1 \in 1..Len(wait) /\ wait[i - 1] = k
    BY <1>1, <1>2, <1>3, <1>5
  <2> QED BY <2>1 DEF InWait
<1> QED BY <1>4, <1>5

\* RPOP returns a member of the list and brings no id into it.
LEMMA PopOnly ==
  ASSUME wait \in Seq(Jobs), wait # << >>, RPopWait
  PROVE  InWait(WaitTail) /\ \A k \in Jobs : InWait(k)' => InWait(k)
<1>1. Len(wait) \in Nat /\ Len(wait) > 0 /\ \A i \in 1..Len(wait) : wait[i] \in Jobs
  BY EmptySeq, ElementOfSeq
<1>2. InWait(WaitTail)
  BY <1>1 DEF InWait, WaitTail
<1>3. ASSUME NEW k \in Jobs, InWait(k)' PROVE InWait(k)
  <2> DEFINE n == Len(wait) - 1
  <2>1. /\ Len(SubSeq(wait, 1, n)) = IF 1 <= n THEN n - 1 + 1 ELSE 0
        /\ \A i \in 1 .. (n - 1 + 1) : SubSeq(wait, 1, n)[i] = wait[1 + i - 1]
    <3>1. /\ 1 \in Int /\ n \in Int /\ \A i \in 1..n : wait[i] \in Jobs
      BY <1>1
    <3> HIDE DEF n
    <3> QED BY <3>1, SubSeqProperties
  <2>2. PICK i \in 1..Len(wait') : wait'[i] = k
    BY <1>3 DEF InWait
  <2>3. n \in Nat /\ n - 1 + 1 = n /\ wait' = SubSeq(wait, 1, n)
    BY <1>1 DEF RPopWait
  <2>4. i \in 1..n
    BY <2>1, <2>2, <2>3
  <2>5. SubSeq(wait, 1, n)[i] = wait[i]
    <3>1. i \in 1..(n - 1 + 1) /\ 1 + i - 1 = i
      BY <2>3, <2>4
    <3> QED BY <2>1, <3>1
  <2>6. i \in 1..Len(wait) /\ wait[i] = k
    BY <1>1, <2>2, <2>3, <2>4, <2>5
  <2> QED BY <2>6 DEF InWait
<1> QED BY <1>2, <1>3

\* What a step of slot s may do to the keys of job j.
SlotLeaves(s, j) ==
  /\ InWait(j)' => InWait(j)
  /\ prioritized' \subseteq prioritized
  /\ j # job[s] => active'[j] = active[j] /\ hash'[j] = hash[j]
  /\ "job" \in hash'[j] =>
       /\ "job" \in hash[j] /\ opts'[j] = opts[j]
       /\ \/ attemptsMade'[j] = attemptsMade[j]
          \/ j = job[s] /\ attemptsMade'[j] = tries[s]

\* What a command of a slot, sent or failing, leaves of a job in the keys.
LEMMA SlotKeys ==
  ASSUME KeysTypeOK, WorkerTypeOK, NEW s \in Slots,
         SlotStep(s) \/ PopReplyLost(s) \/ CommandFails(s), NEW j \in Jobs
  PROVE  SlotLeaves(s, j)
<1> USE DEF pending, finished, hashes, keys, SlotLeaves
<1>1. CASE UNCHANGED keys
  BY <1>1 DEF InWait
<1>2. CASE Begin(s) \/ Load(s) \/ Succeed(s) \/ ProcessorFails(s) \/ CommandFails(s)
  BY <1>1, <1>2 DEF Begin, Load, Succeed, ProcessorFails, CommandFails
<1>3. CASE ZPopMin(s) \/ SetEx(s) \/ ZAddFinished(s) \/ Unlock(s) \/ ZAddDelayed(s)
  <2>1. UNCHANGED <<wait, active, hash, attemptsMade, opts>> /\ prioritized' \subseteq prioritized
    BY <1>3 DEF ZPopMin, SetEx, ZAddFinished, Unlock, ZAddDelayed
  <2> QED BY <2>1 DEF InWait
<1>4. CASE RPop(s) \/ PopReplyLost(s)
  <2>1. /\ UNCHANGED <<active, hash, attemptsMade, opts>> /\ prioritized' \subseteq prioritized
        /\ wait' = wait \/ (wait # << >> /\ RPopWait)
    BY <1>4 DEF RPop, PopReplyLost
  <2>2. InWait(j)' => InWait(j)
    <3>1. CASE wait' = wait
      BY <3>1 DEF InWait
    <3>2. CASE wait # << >> /\ RPopWait
      BY <3>2, PopOnly DEF KeysTypeOK
    <3> QED BY <2>1, <3>1, <3>2
  <2> QED BY <2>1, <2>2
<1>5. CASE Activate(s) \/ LRem(s)
  <2>1. UNCHANGED <<wait, prioritized, hash, attemptsMade, opts>>
    BY <1>5 DEF Activate, LRem
  <2>2. j # job[s] => active'[j] = active[j]
    BY <1>5 DEF Activate, LRem, LPushActive, LRemActive, KeysTypeOK
  <2> QED BY <2>1, <2>2 DEF InWait
<1>6. CASE StoreResult(s)
  <2>1. UNCHANGED <<wait, prioritized, active, attemptsMade, opts>>
    BY <1>6 DEF StoreResult, HSetResult
  <2>2. (j # job[s] => hash'[j] = hash[j]) /\ ("job" \in hash'[j] => "job" \in hash[j])
    BY <1>6 DEF StoreResult, HSetResult, KeysTypeOK
  <2> QED BY <2>1, <2>2 DEF InWait
<1>7. CASE RemoveHash(s)
  <2>1. UNCHANGED <<wait, prioritized, active>>
    BY <1>7 DEF RemoveHash
  <2>2. /\ hash'[j] = IF j = job[s] THEN {} ELSE hash[j]
        /\ j # job[s] => attemptsMade'[j] = attemptsMade[j] /\ opts'[j] = opts[j]
    BY <1>7 DEF RemoveHash, DelJob, KeysTypeOK
  <2> QED BY <2>1, <2>2 DEF InWait
<1>8. CASE StoreAttempts(s)
  <2>1. UNCHANGED <<wait, prioritized, active, opts>>
    BY <1>8 DEF StoreAttempts, HSetAttempts
  <2>2. /\ (j # job[s] => hash'[j] = hash[j]) /\ ("job" \in hash'[j] => "job" \in hash[j])
        /\ attemptsMade'[j] = IF j = job[s] THEN tries[s] ELSE attemptsMade[j]
    BY <1>8 DEF StoreAttempts, HSetAttempts, KeysTypeOK
  <2> QED BY <2>1, <2>2 DEF InWait
<1> QED BY <1>2, <1>3, <1>4, <1>5, <1>6, <1>7, <1>8 DEF SlotStep

\* What it may do to the memory of the slot: nothing, forget the job, take one from a key,
\* read the hash, or count a retry.
Forgets(s) == pc'[s] = "idle" /\ job'[s] = NoJob /\ tries'[s] = 0 /\ cfg'[s] = ZeroOptions
Takes(s) ==
  /\ pc'[s] = "setex" /\ pc[s] \notin Loaded /\ tries'[s] = tries[s] /\ cfg'[s] = cfg[s]
  /\ \E k \in Jobs : job'[s] = k /\ (k \in prioritized \/ InWait(k))
Reads(s) ==
  /\ pc[s] = "load" /\ pc'[s] = "work" /\ job'[s] = job[s] /\ UNCHANGED keys
  /\ tries'[s] = attemptsMade[job[s]] /\ cfg'[s] = opts[job[s]]
Counts(s) ==
  /\ pc[s] = "work" /\ pc'[s] = "retry" /\ job'[s] = job[s] /\ UNCHANGED keys
  /\ tries[s] < cfg[s].attempts /\ tries'[s] = tries[s] + 1 /\ cfg'[s] = cfg[s]
Holds(s) ==
  /\ job'[s] = job[s] /\ tries'[s] = tries[s] /\ cfg'[s] = cfg[s]
  /\ pc[s] \in Loaded <=> pc'[s] \in Loaded

\* What it changes in the memory of its slot; the other slots keep theirs.
LEMMA SlotMemory ==
  ASSUME KeysTypeOK, WorkerTypeOK, NEW s \in Slots,
         SlotStep(s) \/ PopReplyLost(s) \/ CommandFails(s)
  PROVE  /\ Holds(s) \/ Forgets(s) \/ Takes(s) \/ Reads(s) \/ Counts(s)
         /\ \A t \in Slots : t # s => /\ pc'[t] = pc[t] /\ job'[t] = job[t]
                                      /\ tries'[t] = tries[t] /\ cfg'[t] = cfg[t]
<1> DEFINE Others == \A t \in Slots : t # s => /\ pc'[t] = pc[t] /\ job'[t] = job[t]
                                              /\ tries'[t] = tries[t] /\ cfg'[t] = cfg[t]
<1> USE DEF Loaded, Finish, Fail, Retry
<1>1. ASSUME NEW label, Goto(s, label), label # "idle", pc[s] \in Loaded <=> label \in Loaded
      PROVE  Holds(s) /\ Others
  BY <1>1 DEF Goto, WorkerTypeOK, Holds
<1>2. ASSUME Goto(s, "idle") PROVE Forgets(s) /\ Others
  BY <1>2 DEF Goto, WorkerTypeOK, Forgets
<1>3. ASSUME NEW k \in Jobs, Take(s, k), pc[s] \notin Loaded, k \in prioritized \/ InWait(k)
      PROVE  Takes(s) /\ Others
  BY <1>3 DEF Take, WorkerTypeOK, Takes
<1>4. ASSUME Goto(s, After(s)), pc[s] \in Loaded \ {"work", "complete"}
      PROVE  (Holds(s) \/ Forgets(s)) /\ Others
  <2>1. After(s) = "idle" \/ (After(s) # "idle" /\ After(s) \in Loaded)
    BY <1>4 DEF After, AfterReturnValue, AfterFailRelease
  <2> QED BY <1>1, <1>2, <1>4, <2>1
<1>5. CASE Begin(s) \/ SetEx(s) \/ Activate(s) \/ Succeed(s)
  BY <1>1, <1>5 DEF Begin, SetEx, Activate, Succeed
<1>6. CASE ZPopMin(s)
  BY <1>1, <1>3, <1>6 DEF ZPopMin, Foremost, KeysTypeOK
<1>7. CASE RPop(s)
  <2>1. CASE wait # << >> /\ RPopWait /\ Take(s, WaitTail)
    BY <1>3, <1>7, <2>1, PopFacts, PopOnly DEF RPop, KeysTypeOK
  <2>2. CASE Goto(s, "idle")
    BY <1>2, <2>2
  <2> QED BY <1>7, <2>1, <2>2 DEF RPop
<1>8. CASE PopReplyLost(s)
  BY <1>2, <1>8 DEF PopReplyLost
<1>9. CASE Load(s)
  <2>1. CASE Goto(s, "idle")
    BY <1>2, <2>1
  <2>2. CASE ~Goto(s, "idle")
    BY <1>9, <2>2 DEF Load, Reads, WorkerTypeOK
  <2> QED BY <2>1, <2>2
<1>10. CASE ProcessorFails(s)
  <2>1. CASE Goto(s, "fail")
    BY <1>1, <1>10, <2>1 DEF ProcessorFails
  <2>2. CASE ~Goto(s, "fail")
    <3>1. PICK permanent \in BOOLEAN : ~GiveUp(s, permanent)
      BY <1>10, <2>2 DEF ProcessorFails
    <3>2. tries[s] \in Nat /\ cfg[s].attempts \in Nat
      BY DEF WorkerTypeOK, OptionsType
    <3>3. tries[s] < cfg[s].attempts
      BY <3>1, <3>2 DEF GiveUp
    <3> QED BY <1>10, <2>2, <3>3 DEF ProcessorFails, Counts, WorkerTypeOK
  <2> QED BY <2>1, <2>2
<1>11. CASE LRem(s)
  <2>1. CASE pc[s] = "complete"
    <3>1. PICK next \in {"returnvalue", AfterReturnValue(s)} : Goto(s, next)
      BY <1>11, <2>1 DEF LRem
    <3>2. next # "idle" /\ next \in Loaded
      BY DEF AfterReturnValue
    <3> QED BY <1>1, <2>1, <3>1, <3>2
  <2> QED BY <1>4, <1>11, <2>1 DEF LRem
<1>12. CASE StoreResult(s) \/ RemoveHash(s) \/ ZAddFinished(s) \/ ZAddDelayed(s) \/ StoreAttempts(s)
  BY <1>4, <1>12 DEF StoreResult, RemoveHash, ZAddFinished, ZAddDelayed, StoreAttempts
<1>13. CASE Unlock(s)
  <2>1. CASE pc[s] = "unlock"
    BY <1>2, <1>13, <2>1 DEF Unlock, After
  <2>2. CASE pc[s] # "unlock"
    BY <1>4, <1>13, <2>2 DEF Unlock
  <2> QED BY <2>1, <2>2
<1>14. CASE CommandFails(s)
  <2>1. CASE pc[s] \in {"setex", "load", "complete"}
    BY <1>2, <1>14, <2>1 DEF CommandFails
  <2>2. CASE pc[s] = "activate"
    BY <1>1, <1>14, <2>2 DEF CommandFails
  <2>3. CASE pc[s] = "unlock"
    BY <1>2, <1>14, <2>3 DEF CommandFails, After
  <2>4. CASE pc[s] \notin {"setex", "load", "complete", "activate", "unlock"}
    <3>1. pc[s] \in Loaded \ {"work", "complete"} /\ Goto(s, After(s))
      BY <1>14, <2>4 DEF CommandFails, WorkerTypeOK, Labels, Pickup
    <3> QED BY <1>4, <3>1
  <2> QED BY <2>1, <2>2, <2>3, <2>4
<1> QED
  BY <1>5, <1>6, <1>7, <1>8, <1>9, <1>10, <1>11, <1>12, <1>13, <1>14 DEF SlotStep

\* A step of a slot, or a failing command of it, keeps the invariant: it writes to the hash
\* of a job only what its memory holds for that job.
LEMMA SlotCounts ==
  ASSUME TypeOK, AttemptsInv, NEW s \in Slots, SlotStep(s) \/ PopReplyLost(s) \/ CommandFails(s),
         UNCHANGED <<add, checkerVars>>
  PROVE  AttemptsInv'
<1>0. KeysTypeOK /\ WorkerTypeOK
  BY DEF TypeOK
<1>1. /\ Holds(s) \/ Forgets(s) \/ Takes(s) \/ Reads(s) \/ Counts(s)
      /\ \A t \in Slots : t # s => /\ pc'[t] = pc[t] /\ job'[t] = job[t]
                                   /\ tries'[t] = tries[t] /\ cfg'[t] = cfg[t]
  BY <1>0, SlotMemory
<1>2. \A j \in Jobs : SlotLeaves(s, j)
  BY <1>0, SlotKeys
<1>3. ASSUME NEW t \in Slots, pc'[t] \notin Loaded PROVE tries'[t] = 0
  <2>1. CASE t # s
    BY <1>1, <1>3, <2>1 DEF AttemptsInv
  <2>2. CASE t = s
    BY <1>1, <1>3, <2>2 DEF AttemptsInv, Holds, Forgets, Takes, Reads, Counts, Loaded, Retry
  <2> QED BY <2>1, <2>2
<1>4. ASSUME NEW j \in Jobs, add'[j] # "added" PROVE Unknown(j)'
  <2>1. Unknown(j)
    BY <1>4 DEF AttemptsInv
  <2>2. ASSUME NEW t \in Slots PROVE job'[t] # j
    <3>1. CASE t # s
      BY <1>1, <2>1, <3>1 DEF Unknown
    <3>2. CASE t = s
      BY <1>1, <2>1, <3>2 DEF Unknown, Holds, Forgets, Takes, Reads, Counts
    <3> QED BY <3>1, <3>2
  <2>3. j # job[s]
    BY <2>1 DEF Unknown
  <2>4. /\ InWait(j)' => InWait(j)
        /\ prioritized' \subseteq prioritized
        /\ active'[j] = active[j] /\ hash'[j] = hash[j]
    BY <1>2, <2>3 DEF SlotLeaves
  <2> QED BY <2>1, <2>2, <2>4 DEF Unknown, checkerVars
<1>5. ASSUME NEW j \in Jobs, "job" \in hash'[j]
      PROVE  attemptsMade'[j] <= Bound(opts'[j]) /\ \A t \in Slots : Remembers(t, j)'
  <2>1. /\ "job" \in hash[j] /\ opts'[j] = opts[j]
        /\ attemptsMade'[j] = attemptsMade[j] \/ (j = job[s] /\ attemptsMade'[j] = tries[s])
    BY <1>2, <1>5 DEF SlotLeaves
  <2>2. attemptsMade[j] <= Bound(opts[j]) /\ \A t \in Slots : Remembers(t, j)
    BY <2>1 DEF AttemptsInv, Lines
  <2>3. attemptsMade'[j] <= Bound(opts'[j])
    BY <2>1, <2>2 DEF Remembers
  <2>4. ASSUME NEW t \in Slots, job'[t] = j
        PROVE  tries'[t] <= Bound(opts'[j]) /\ (pc'[t] \in Loaded => cfg'[t] = opts'[j])
    <3>1. CASE t # s
      BY <1>1, <2>1, <2>2, <2>4, <3>1 DEF Remembers
    <3>2. CASE t = s /\ Holds(s)
      BY <2>1, <2>2, <2>4, <3>2 DEF Remembers, Holds
    <3>3. CASE t = s /\ Forgets(s)
      BY <2>4, <3>3 DEF Forgets
    <3>4. CASE t = s /\ Takes(s)
      <4>1. tries'[s] = 0 /\ pc'[s] \notin Loaded
        BY <3>4 DEF Takes, AttemptsInv, Loaded, Finish, Fail, Retry
      <4>2. 0 <= Bound(opts[j])
        BY <1>0 DEF Bound, KeysTypeOK, OptionsType
      <4> QED BY <2>1, <3>4, <4>1, <4>2
    <3>5. CASE t = s /\ Reads(s)
      BY <2>1, <2>2, <2>4, <3>5 DEF Reads
    <3>6. CASE t = s /\ Counts(s)
      <4>1. job[s] = j /\ cfg[s] = opts[j] /\ tries'[s] = tries[s] + 1 /\ tries[s] < cfg[s].attempts
        BY <2>2, <2>4, <3>6 DEF Counts, Remembers, Loaded
      <4>2. opts[j].attempts \in Nat /\ tries[s] \in Nat
        BY <1>0 DEF KeysTypeOK, WorkerTypeOK, OptionsType
      <4>3. tries[s] + 1 <= Bound(opts[j])
        BY <4>1, <4>2 DEF Bound
      <4> QED BY <2>1, <3>6, <4>1, <4>3 DEF Counts
    <3> QED BY <1>1, <3>1, <3>2, <3>3, <3>4, <3>5, <3>6
  <2> QED BY <2>3, <2>4 DEF Remembers
<1> QED BY <1>3, <1>4, <1>5 DEF AttemptsInv, Lines

\* What a step of the checker of w, or a failing command of it, may do to the keys of job j
\* and to its own memory: it knows only ids that it read, and writes at most 2.
CheckerLeaves(w, j) ==
  /\ UNCHANGED <<prioritized, opts>>
  /\ j # cjob[w] => active'[j] = active[j] /\ hash'[j] = hash[j] /\ (InWait(j)' => InWait(j))
  /\ "job" \in hash'[j] => /\ "job" \in hash[j]
                           /\ attemptsMade'[j] = attemptsMade[j] \/ attemptsMade'[j] \in 0..2
  /\ \/ cjob'[w] \in {cjob[w], NoJob}
     \/ \E k \in Jobs : cjob'[w] = k /\ todo[w][k] > 0
  /\ todo[w][j] = 0 => todo'[w][j] = 0
  /\ \A v \in Workers : v # w => cjob'[v] = cjob[v] /\ todo'[v] = todo[v]

\* What a command of a checker leaves of a job in the keys.
LEMMA CheckerKeys ==
  ASSUME KeysTypeOK, CheckerTypeOK, NEW w \in Workers,
         CheckerStep(w) \/ CheckerCommandFails(w), NEW j \in Jobs
  PROVE  CheckerLeaves(w, j)
<1> DEFINE Own == /\ \/ cjob'[w] \in {cjob[w], NoJob}
                     \/ \E k \in Jobs : cjob'[w] = k /\ todo[w][k] > 0
                  /\ todo[w][j] = 0 => todo'[w][j] = 0
                  /\ \A v \in Workers : v # w => cjob'[v] = cjob[v] /\ todo'[v] = todo[v]
<1> USE DEF pending, finished, hashes, keys, CheckerLeaves
<1>1. ASSUME NEW k \in Jobs, todo[w][k] > 0
      PROVE  Rest(w, k)[j] = (IF j = k THEN todo[w][j] - 1 ELSE todo[w][j])
  BY <1>1 DEF Rest, CheckerTypeOK
<1>2. ASSUME NEW rest, GoOn(w, rest), rest = todo[w] \/ \E k \in Jobs : todo[w][k] > 0 /\ rest = Rest(w, k)
      PROVE  Own
  <2>1. todo[w][j] = 0 => rest[j] = 0
    BY <1>1, <1>2
  <2> QED BY <1>2, <2>1 DEF GoOn, CheckerTypeOK
<1>3. ASSUME NEW label, Advance(w, label) PROVE Own
  BY <1>2, <1>3 DEF Advance
<1>4. CASE Exists(w)
  <2>1. PICK k \in Jobs :
          /\ todo[w][k] > 0
          /\ \/ GoOn(w, Rest(w, k))
             \/ /\ todo' = [todo EXCEPT ![w] = Rest(w, k)]
                /\ cjob' = [cjob EXCEPT ![w] = k]
    BY <1>4 DEF Exists
  <2>2. todo[w][j] = 0 => Rest(w, k)[j] = 0
    BY <1>1, <2>1
  <2>3. Own
    <3>1. CASE GoOn(w, Rest(w, k))
      BY <1>2, <2>1, <3>1
    <3>2. CASE todo' = [todo EXCEPT ![w] = Rest(w, k)] /\ cjob' = [cjob EXCEPT ![w] = k]
      BY <2>1, <2>2, <3>2 DEF CheckerTypeOK
    <3> QED BY <2>1, <3>1, <3>2
  <2> QED BY <1>4, <2>3 DEF Exists, InWait
<1>5. CASE LoadStalled(w)
  BY <1>5 DEF LoadStalled, InWait
<1>6. CASE CheckerCommandFails(w)
  BY <1>2, <1>3, <1>6 DEF CheckerCommandFails, InWait
<1>7. CASE LRemStalled(w)
  <2>1. UNCHANGED <<wait, prioritized, hash, attemptsMade, opts>> /\ Own
    BY <1>3, <1>7 DEF LRemStalled
  <2>2. j # cjob[w] => active'[j] = active[j]
    BY <1>7 DEF LRemStalled, LRemActive, KeysTypeOK
  <2> QED BY <2>1, <2>2 DEF InWait
<1>8. CASE FailStalled(w)
  BY <1>3, <1>8 DEF FailStalled, InWait
<1>9. CASE StoreReason(w)
  <2>1. UNCHANGED <<wait, prioritized, active, attemptsMade, opts>> /\ Own
    BY <1>3, <1>9 DEF StoreReason, HSetResult
  <2>2. (j # cjob[w] => hash'[j] = hash[j]) /\ ("job" \in hash'[j] => "job" \in hash[j])
    BY <1>9 DEF StoreReason, HSetResult, KeysTypeOK
  <2> QED BY <2>1, <2>2 DEF InWait
<1>10. CASE Requeue(w)
  <2>1. UNCHANGED <<prioritized, active, hash, attemptsMade, opts>> /\ Own
    BY <1>3, <1>10 DEF Requeue
  <2>2. PICK c \in Jobs : c = cjob[w]
    BY <1>10 DEF Requeue, CheckerTypeOK
  <2>3. j # cjob[w] => (InWait(j)' => InWait(j))
    BY <1>10, <2>2, PushOnly DEF Requeue, KeysTypeOK
  <2> QED BY <2>1, <2>3
<1>11. CASE StoreRecovery(w)
  <2>1. UNCHANGED <<wait, prioritized, active, opts>> /\ Own
    BY <1>3, <1>11 DEF StoreRecovery, HSetAttempts
  <2>2. /\ (j # cjob[w] => hash'[j] = hash[j]) /\ ("job" \in hash'[j] => "job" \in hash[j])
        /\ attemptsMade'[j] = IF j = cjob[w] THEN recovery[w] ELSE attemptsMade[j]
    BY <1>11 DEF StoreRecovery, HSetAttempts, KeysTypeOK
  <2>3. recovery[w] \in 0..2
    BY DEF CheckerTypeOK
  <2> QED BY <2>1, <2>2, <2>3 DEF InWait
<1> QED BY <1>4, <1>5, <1>6, <1>7, <1>8, <1>9, <1>10, <1>11 DEF CheckerStep

\* A recovery keeps the invariant: 2 is within every bound.
LEMMA CheckerCounts ==
  ASSUME TypeOK, AttemptsInv, NEW w \in Workers, CheckerStep(w) \/ CheckerCommandFails(w),
         UNCHANGED <<add, slotVars>>
  PROVE  AttemptsInv'
<1>0. KeysTypeOK /\ CheckerTypeOK /\ UNCHANGED <<pc, job, tries, cfg>>
  BY DEF TypeOK, slotVars
<1>1. \A j \in Jobs : CheckerLeaves(w, j)
  BY <1>0, CheckerKeys
<1>2. ASSUME NEW j \in Jobs, add'[j] # "added" PROVE Unknown(j)'
  <2>1. Unknown(j) /\ CheckerLeaves(w, j)
    BY <1>1, <1>2 DEF AttemptsInv
  <2>2. j # cjob[w] /\ todo[w][j] = 0
    BY <2>1 DEF Unknown
  <2>3. \A v \in Workers : cjob'[v] # j /\ todo'[v][j] = 0
    <3>1. cjob'[w] # j /\ todo'[w][j] = 0
      BY <2>1, <2>2 DEF CheckerLeaves
    <3> QED BY <2>1, <3>1 DEF CheckerLeaves, Unknown
  <2> QED BY <1>0, <2>1, <2>2, <2>3 DEF CheckerLeaves, Unknown
<1>3. ASSUME NEW j \in Jobs PROVE Lines(j)'
  <2>1. Lines(j) /\ CheckerLeaves(w, j)
    BY <1>1 DEF AttemptsInv
  <2>2. \A n \in 0..2 : n <= Bound(opts[j])
    BY <1>0 DEF Bound, KeysTypeOK, OptionsType
  <2> QED BY <1>0, <2>1, <2>2 DEF CheckerLeaves, Lines, Remembers
<1> QED BY <1>0, <1>2, <1>3 DEF AttemptsInv

\* Add writes a hash that no slot and no checker knows, and only then makes the id known.
LEMMA AddCounts == ASSUME TypeOK, AttemptsInv, NEW k \in Jobs, Add(k) PROVE AttemptsInv'
<1> USE DEF pending, finished, hashes
<1>0. KeysTypeOK /\ ProducerTypeOK /\ UNCHANGED <<pc, job, tries, cfg, chk, todo, cjob>>
  BY DEF TypeOK, Add, slotVars, checkerVars
<1>1. CASE StoreJobHash(k)
  <2>1. Unknown(k)
    BY <1>1 DEF StoreJobHash, AttemptsInv
  <2>2. /\ add' = [add EXCEPT ![k] = "stored"] /\ UNCHANGED <<wait, prioritized, active>>
        /\ attemptsMade'[k] = 0 /\ opts'[k] \in OptionsType
    BY <1>0, <1>1, WithDefaultsType DEF StoreJobHash, KeysTypeOK
  <2>3. ASSUME NEW j \in Jobs, j # k
        PROVE  hash'[j] = hash[j] /\ attemptsMade'[j] = attemptsMade[j] /\ opts'[j] = opts[j]
               /\ add'[j] = add[j]
    BY <1>0, <1>1, <2>2, <2>3 DEF StoreJobHash, KeysTypeOK, ProducerTypeOK
  <2>4. Lines(k)' /\ Unknown(k)'
    <3>1. 0 <= Bound(opts'[k])
      BY <2>2 DEF Bound, OptionsType
    <3>2. "job" \in hash'[k]
      BY <1>0, <1>1 DEF StoreJobHash, KeysTypeOK
    <3>3. Unknown(k)'
      BY <1>0, <2>1, <2>2, <3>2 DEF Unknown, InWait
    <3> QED BY <1>0, <2>1, <2>2, <3>1, <3>3 DEF Lines, Remembers, Unknown
  <2>5. ASSUME NEW j \in Jobs, j # k PROVE (add'[j] # "added" => Unknown(j)') /\ Lines(j)'
    BY <1>0, <2>2, <2>3, <2>5 DEF AttemptsInv, Unknown, Lines, Remembers, InWait
  <2> QED BY <1>0, <2>4, <2>5 DEF AttemptsInv
<1>2. CASE EnqueueJob(k)
  <2>1. UNCHANGED <<active, hash, attemptsMade, opts>>
    BY <1>2 DEF EnqueueJob
  <2>2. ASSUME NEW j \in Jobs, add'[j] # "added" PROVE Unknown(j)'
    <3>1. j # k /\ add'[j] = add[j]
      BY <1>0, <1>2, <2>2 DEF EnqueueJob, ProducerTypeOK
    <3>2. Unknown(j)
      BY <2>2, <3>1 DEF AttemptsInv
    <3>3. InWait(j)' => InWait(j)
      <4>1. CASE wait' = wait
        BY <4>1 DEF InWait
      <4>2. CASE LPushWait(k)
        BY <1>0, <3>1, <4>2, PushOnly DEF KeysTypeOK
      <4> QED BY <1>2, <4>1, <4>2 DEF EnqueueJob
    <3>4. j \in prioritized' => j \in prioritized
      BY <1>2, <3>1 DEF EnqueueJob
    <3> QED BY <1>0, <2>1, <3>1, <3>2, <3>3, <3>4 DEF Unknown
  <2> QED BY <1>0, <2>1, <2>2 DEF AttemptsInv, Lines, Remembers
<1> QED BY <1>1, <1>2 DEF Add

\* A scan reads ids that are in `active`.
LEMMA ScanCounts == ASSUME TypeOK, AttemptsInv, NEW w \in Workers, StartScan(w) PROVE AttemptsInv'
<1>0. CheckerTypeOK /\ UNCHANGED <<keys, add, slotVars, cjob>> /\ todo' = [todo EXCEPT ![w] = active]
  BY DEF TypeOK, StartScan, Scan
<1>1. ASSUME NEW j \in Jobs, Unknown(j) PROVE Unknown(j)'
  <2>1. \A v \in Workers : todo'[v][j] = 0
    BY <1>0, <1>1 DEF Unknown, CheckerTypeOK
  <2> QED BY <1>0, <1>1, <2>1 DEF Unknown, InWait, keys, slotVars
<1> QED BY <1>0, <1>1 DEF AttemptsInv, Lines, Remembers, keys, slotVars

\* A process that dies forgets.
LEMMA CrashCounts == ASSUME TypeOK, AttemptsInv, NEW w \in Workers, Crash(w) PROVE AttemptsInv'
<1>0. /\ KeysTypeOK /\ WorkerTypeOK /\ CheckerTypeOK /\ UNCHANGED <<keys, add>>
      /\ \A s \in Slots :
           \/ /\ pc'[s] = pc[s] /\ job'[s] = job[s] /\ tries'[s] = tries[s] /\ cfg'[s] = cfg[s]
           \/ pc'[s] = "idle" /\ job'[s] = NoJob /\ tries'[s] = 0
  BY DEF TypeOK, Crash
<1>1. \A v \in Workers : \/ cjob'[v] = NoJob /\ todo'[v] = Nobody
                         \/ cjob'[v] = cjob[v] /\ todo'[v] = todo[v]
  BY <1>0 DEF Crash, GoOn, CheckerTypeOK
<1>2. ASSUME NEW j \in Jobs, Unknown(j) PROVE Unknown(j)'
  <2>1. \A v \in Workers : cjob'[v] # j /\ todo'[v][j] = 0
    BY <1>1, <1>2 DEF Unknown, Nobody
  <2> QED BY <1>0, <1>2, <2>1 DEF Unknown, InWait, keys
<1>3. ASSUME NEW j \in Jobs, Lines(j) PROVE Lines(j)'
  BY <1>0, <1>3 DEF Lines, Remembers, keys
<1> QED BY <1>0, <1>2, <1>3 DEF AttemptsInv, keys

\* The invariant survives every step.
LEMMA AttemptsStep == TypeOK /\ AttemptsInv /\ [Next]_vars => AttemptsInv'
<1> SUFFICES ASSUME TypeOK, AttemptsInv, [Next]_vars PROVE AttemptsInv'
  OBVIOUS
<1>1. ASSUME NEW s \in Slots, Work(s) \/ WorkFails(s) PROVE AttemptsInv'
  BY <1>1, SlotCounts DEF Work, WorkFails
<1>2. ASSUME NEW w \in Workers, Check(w) \/ CheckFails(w) PROVE AttemptsInv'
  BY <1>2, CheckerCounts DEF Check, CheckFails
<1>3. ASSUME PauseQueue \/ ResumeQueue \/ UNCHANGED vars \/ \E j \in Jobs : LockExpires(j) \/ AddFails(j)
      PROVE  AttemptsInv'
  <2>1. /\ UNCHANGED <<wait, prioritized, active, hash, attemptsMade, opts>>
        /\ UNCHANGED <<pc, job, tries, cfg, cjob, todo>>
        /\ \A j \in Jobs : add'[j] = add[j] \/ (add[j] = "stored" /\ add'[j] = "gaveup")
    BY <1>3 DEF PauseQueue, Pause, ResumeQueue, Resume, LockExpires, AddFails, EnqueueFails, vars,
                keys, pending, hashes, slotVars, checkerVars, TypeOK, ProducerTypeOK
  <2> QED BY <2>1 DEF AttemptsInv, Unknown, Lines, Remembers, InWait
<1> QED BY <1>1, <1>2, <1>3, AddCounts, ScanCounts, CrashCounts DEF Next

\* It holds at the start.
LEMMA AttemptsStart == Init => AttemptsInv
<1> SUFFICES ASSUME Init PROVE AttemptsInv
  OBVIOUS
<1>1. \A s \in Slots : tries[s] = 0 /\ job[s] = NoJob
  BY DEF Init, WorkerInit
<1>2. ASSUME NEW j \in Jobs PROVE Unknown(j)
  <2>1. ~InWait(j) /\ j \notin prioritized /\ active[j] = 0 /\ add[j] = "new"
    BY DEF Init, KeysInit, ProducerInit, InWait
  <2>2. \A w \in Workers : cjob[w] # j /\ todo[w][j] = 0
    BY DEF Init, CheckerInit, Nobody
  <2>3. \A s \in Slots : job[s] # j
    BY <1>1
  <2> QED BY <2>1, <2>2, <2>3 DEF Unknown
<1>3. \A j \in Jobs : hash[j] = {}
  BY DEF Init, KeysInit
<1> QED BY <1>1, <1>2, <1>3 DEF AttemptsInv, Lines

\* While a job has its hash, no order of runs, recoveries, lapsing locks and late writes
\* takes its counter past Attempts, or the 2 of a recovery, in Redis or in any slot.
THEOREM AttemptsNeverExceed == Spec => []AttemptsBounded
<1>1. AttemptsInv => AttemptsBounded
  BY DEF AttemptsInv, AttemptsBounded, Counted, Lines, Remembers
<1> QED BY <1>1, AttemptsStart, AttemptsStep, TypeCorrect, PTL DEF Spec

-----------------------------------------------------------------------------
(* The custody of jobs *)

\* What a step does to the jobs as JobCustody sees them, told of one keeper k: it has
\* nothing to do with them, or takes an id, stores, discards or loses the one it has.
SamePhases    == \A j \in Jobs : PhaseOf(j)' = PhaseOf(j)
SameStored(i) == \A j \in Jobs : j # i => (Recorded(j)' <=> Recorded(j))
Rests(k)      == InHand(k)' = InHand(k) /\ SamePhases /\ SameStored(NoJob)
Grasps(k, j)  == /\ InHand(k) = NoJob /\ InHand(k)' = j
                 /\ PhaseOf(j) # "new" /\ SamePhases
                 /\ SameStored(j) /\ (Recorded(j)' => Recorded(j))
Stores(k, j)  == /\ InHand(k) = j /\ InHand(k)' = NoJob
                 /\ SamePhases
                 /\ SameStored(j) /\ Recorded(j)'
Destroys(k, j) == /\ InHand(k) = j /\ InHand(k)' = NoJob
                  /\ PhaseOf(j)' = "gone" /\ \A i \in Jobs : i # j => PhaseOf(i)' = PhaseOf(i)
                  /\ SameStored(NoJob)
Loses(K)      == /\ \A k \in Keepers : InHand(k)' = IF k \in K THEN NoJob ELSE InHand(k)
                 /\ SamePhases /\ SameStored(NoJob)
                 /\ atRisk' = atRisk \cup { j \in Jobs : \E k \in K : InHand(k) = j }
HandsElsewhere(k) == \A i \in Keepers : i # k => InHand(i)' = InHand(i)

\* The keepers are the slots and the checkers.
LEMMA KeeperForms ==
  /\ \A k \in Keepers : (\E s \in Slots : k = <<"slot", s>>) \/ (\E w \in Workers : k = <<"checker", w>>)
  /\ \A s \in Slots : /\ <<"slot", s>> \in Keepers
                      /\ InHand(<<"slot", s>>) = SlotHand(s)
                      /\ InHand(<<"slot", s>>)' = SlotHand(s)'
  /\ \A w \in Workers : /\ <<"checker", w>> \in Keepers
                        /\ InHand(<<"checker", w>>) = CheckerHand(w)
                        /\ InHand(<<"checker", w>>)' = CheckerHand(w)'
<1>1. /\ \A s \in Slots : <<"slot", s>>[1] = "slot" /\ <<"slot", s>>[2] = s
      /\ \A w \in Workers : <<"checker", w>>[1] = "checker" /\ <<"checker", w>>[2] = w
  OBVIOUS
<1>2. \A s \in Slots : InHand(<<"slot", s>>) = SlotHand(s) /\ InHand(<<"slot", s>>)' = SlotHand(s)'
  BY <1>1 DEF InHand
<1>3. \A w \in Workers : /\ InHand(<<"checker", w>>) = CheckerHand(w)
                         /\ InHand(<<"checker", w>>)' = CheckerHand(w)'
  BY <1>1 DEF InHand
<1> QED BY <1>2, <1>3 DEF Keepers

\* What a keeper has in hand is a job, or nothing.
LEMMA HandType == ASSUME NEW k \in Keepers, InHand(k) # NoJob, TypeOK PROVE InHand(k) \in Jobs
<1>1. \A s \in Slots : SlotHand(s) # NoJob => SlotHand(s) \in Jobs
  BY DEF SlotHand, SlotHolds, TypeOK, WorkerTypeOK
<1>2. \A w \in Workers : CheckerHand(w) # NoJob => CheckerHand(w) \in Jobs
  BY DEF CheckerHand, CheckerHolds, TypeOK, CheckerTypeOK
<1> QED BY <1>1, <1>2, KeeperForms

\* Each of these is a step of JobCustody.
LEMMA KeeperSteps ==
  ASSUME TypeOK, NEW k \in Keepers, HandsElsewhere(k), UNCHANGED atRisk,
         Rests(k) \/ \E j \in Jobs : Grasps(k, j) \/ Stores(k, j) \/ Destroys(k, j)
  PROVE  [Custody!Next]_(Custody!custodyVars)
<1> DEFINE Hands  == [i \in Keepers |-> InHand(i)]
           Phase  == [j \in Jobs |-> PhaseOf(j)]
           Stored == { j \in Jobs : Recorded(j) }
<1>0. NoJob \notin Jobs
  OBVIOUS
<1>1. Hands' = [Hands EXCEPT ![k] = InHand(k)']
  BY DEF HandsElsewhere
<1>2. SamePhases => Phase' = Phase
  BY DEF SamePhases
<1>3. SameStored(NoJob) => Stored' = Stored
  BY <1>0 DEF SameStored
<1>4. CASE Rests(k)
  <2>1. Hands' = Hands
    BY <1>4 DEF Rests, HandsElsewhere
  <2> QED BY <1>2, <1>3, <1>4, <2>1 DEF Rests, Custody!custodyVars
<1>5. ASSUME NEW j \in Jobs, Grasps(k, j) PROVE Custody!Next
  <2>1. Stored' \in {Stored, Stored \ {j}}
    BY <1>5 DEF Grasps, SameStored
  <2>2. Hands[k] = NoJob /\ Hands' = [Hands EXCEPT ![k] = j]
    BY <1>1, <1>5 DEF Grasps
  <2>3. Phase[j] # "new" /\ Phase' = Phase
    BY <1>2, <1>5 DEF Grasps
  <2>4. Custody!Take(k, j)
    BY <2>1, <2>2, <2>3 DEF Custody!Take
  <2> QED BY <2>4 DEF Custody!Next
<1>6. ASSUME NEW j \in Jobs, Stores(k, j) PROVE Custody!Next
  <2>1. Stored' = Stored \cup {j}
    BY <1>6 DEF Stores, SameStored
  <2>2. Hands[k] = j /\ Hands' = [Hands EXCEPT ![k] = NoJob]
    BY <1>1, <1>6 DEF Stores
  <2>3. Phase' = Phase
    BY <1>2, <1>6 DEF Stores
  <2>4. Custody!Put(k)
    BY <1>0, <2>1, <2>2, <2>3 DEF Custody!Put
  <2> QED BY <2>4 DEF Custody!Next
<1>7. ASSUME NEW j \in Jobs, Destroys(k, j) PROVE Custody!Next
  <2>1. Stored' = Stored
    BY <1>3, <1>7 DEF Destroys
  <2>2. Hands[k] = j /\ Hands' = [Hands EXCEPT ![k] = NoJob]
    BY <1>1, <1>7 DEF Destroys
  <2>3. Phase' = [Phase EXCEPT ![j] = "gone"]
    BY <1>7 DEF Destroys
  <2>4. Custody!Discard(k)
    BY <1>0, <2>1, <2>2, <2>3 DEF Custody!Discard
  <2> QED BY <2>4 DEF Custody!Next
<1> QED BY <1>4, <1>5, <1>6, <1>7

\* So is the loss of what some keepers have in hand.
LEMMA LossSteps ==
  ASSUME TypeOK, NEW K \in SUBSET Keepers, Loses(K)
  PROVE  [Custody!Next]_(Custody!custodyVars)
<1> DEFINE Hands  == [i \in Keepers |-> InHand(i)]
           Phase  == [j \in Jobs |-> PhaseOf(j)]
           Stored == { j \in Jobs : Recorded(j) }
           Dying  == { k \in K : InHand(k) # NoJob }
<1>1. Phase' = Phase /\ Stored' = Stored
  BY DEF Loses, SamePhases, SameStored
<1>2. Hands' = [k \in Keepers |-> IF k \in Dying THEN NoJob ELSE Hands[k]]
  BY DEF Loses
<1>3. atRisk' = atRisk \cup { j \in Jobs : \E k \in Dying : Hands[k] = j }
  BY DEF Loses
<1>4. Custody!Die(Dying)
  BY <1>1, <1>2, <1>3 DEF Custody!Die
<1>5. Dying \in SUBSET Custody!Busy
  BY DEF Custody!Busy
<1> QED BY <1>4, <1>5 DEF Custody!Next

\* Where a slot has an id in hand.
Window == {"setex", "activate", "returnvalue", "remove", "completed", "failrelease", "failed",
           "faildel", "delay"}

\* A phase is told by `add` and by whether the hash is whole.
LEMMA PhasesStay ==
  ASSUME UNCHANGED add, \A j \in Jobs : "job" \in hash'[j] <=> "job" \in hash[j]
  PROVE  SamePhases
  BY DEF SamePhases, PhaseOf

\* A step of slot s rests, or is one of the steps of a keeper.
LEMMA SlotCustody ==
  ASSUME TypeOK, AttemptsInv, NEW s \in Slots, SlotStep(s), UNCHANGED add, NEW k,
         InHand(k) = SlotHand(s), InHand(k)' = SlotHand(s)'
  PROVE  Rests(k) \/ \E j \in Jobs : Grasps(k, j) \/ Stores(k, j) \/ Destroys(k, j)
<1> USE DEF pending, finished, hashes, keys
<1>0. KeysTypeOK /\ WorkerTypeOK /\ NoJob \notin Jobs
  BY DEF TypeOK
<1>1. /\ InHand(k) = IF pc[s] \in Window THEN job[s] ELSE NoJob
      /\ InHand(k)' = IF pc'[s] \in Window THEN job'[s] ELSE NoJob
  BY DEF SlotHand, SlotHolds, Window
<1>2. ASSUME NEW label, Goto(s, label)
      PROVE  pc'[s] = label /\ (label # "idle" => job'[s] = job[s])
  BY <1>0, <1>2 DEF Goto, WorkerTypeOK
<1>3. ASSUME NEW j \in Jobs, InWait(j) \/ j \in prioritized \/ job[s] = j PROVE PhaseOf(j) # "new"
  BY <1>3 DEF AttemptsInv, Unknown, PhaseOf
<1>4. UNCHANGED hash => SamePhases
  BY PhasesStay
<1>5. UNCHANGED <<wait, prioritized, delayed, active, completed, failed>> => SameStored(NoJob)
  BY RecordedSame DEF SameStored
<1>6. CASE Begin(s) \/ Load(s) \/ Succeed(s) \/ ProcessorFails(s)
  <2>1. UNCHANGED keys /\ pc[s] \notin Window /\ pc'[s] \notin Window
    BY <1>0, <1>2, <1>6 DEF Begin, Load, Succeed, ProcessorFails, WorkerTypeOK, Window
  <2> QED BY <1>1, <1>4, <1>5, <2>1 DEF Rests
<1>7. CASE ZPopMin(s)
  <2>1. pc[s] = "zpop" /\ UNCHANGED <<wait, delayed, active, completed, failed, hash>>
    BY <1>7 DEF ZPopMin
  <2>2. ASSUME NEW j \in Foremost, prioritized' = prioritized \ {j}, Take(s, j)
        PROVE  \E i \in Jobs : Grasps(k, i)
    <3>1. j \in Jobs /\ j \in prioritized /\ pc'[s] = "setex" /\ job'[s] = j
      BY <1>0, <2>2 DEF Foremost, Take, WorkerTypeOK, KeysTypeOK
    <3>2. SameStored(j) /\ (Recorded(j)' => Recorded(j))
      BY <2>1, <2>2, <3>1 DEF SameStored, Recorded, InWait
    <3>3. Grasps(k, j)
      BY <1>1, <1>3, <1>4, <2>1, <3>1, <3>2 DEF Grasps, Window
    <3> QED BY <3>1, <3>3
  <2>3. ASSUME Goto(s, "rpop"), UNCHANGED prioritized PROVE Rests(k)
    BY <1>1, <1>2, <1>4, <1>5, <2>1, <2>3 DEF Rests, Window
  <2> QED BY <1>7, <2>2, <2>3 DEF ZPopMin
<1>8. CASE RPop(s)
  <2>1. pc[s] = "rpop" /\ UNCHANGED <<prioritized, delayed, active, completed, failed, hash>>
    BY <1>8 DEF RPop
  <2>2. ASSUME wait # << >>, RPopWait, Take(s, WaitTail) PROVE \E i \in Jobs : Grasps(k, i)
    <3>1. /\ WaitTail \in Jobs /\ InWait(WaitTail)
          /\ \A j \in Jobs : j # WaitTail => (InWait(j)' <=> InWait(j))
      BY <1>0, <2>2, PopFacts, PopOnly DEF KeysTypeOK
    <3> DEFINE t == WaitTail
    <3>2. pc'[s] = "setex" /\ job'[s] = t
      BY <1>0, <2>2 DEF Take, WorkerTypeOK
    <3> HIDE DEF t
    <3>3. SameStored(t) /\ (Recorded(t)' => Recorded(t))
      BY <2>1, <3>1 DEF SameStored, Recorded, t
    <3>4. Grasps(k, t)
      BY <1>1, <1>3, <1>4, <2>1, <3>1, <3>2, <3>3 DEF Grasps, Window, t
    <3> QED BY <3>1, <3>4 DEF t
  <2>3. ASSUME Goto(s, "idle"), UNCHANGED wait PROVE Rests(k)
    BY <1>1, <1>2, <1>4, <1>5, <2>1, <2>3 DEF Rests, Window
  <2> QED BY <1>8, <2>2, <2>3 DEF RPop
<1>9. CASE SetEx(s)
  <2>1. pc[s] = "setex" /\ pc'[s] = "activate" /\ job'[s] = job[s]
    BY <1>2, <1>9 DEF SetEx
  <2>2. UNCHANGED <<wait, prioritized, delayed, active, completed, failed, hash>>
    BY <1>9 DEF SetEx
  <2> QED BY <1>1, <1>4, <1>5, <2>1, <2>2 DEF Rests, Window
<1>10. CASE Activate(s)
  <2>1. pc[s] = "activate" /\ pc'[s] = "load" /\ job[s] \in Jobs
    BY <1>0, <1>2, <1>10 DEF Activate, WorkerTypeOK
  <2>2. PICK c \in Jobs : c = job[s]
    BY <2>1
  <2>3. UNCHANGED <<wait, prioritized, delayed, completed, failed, hash>>
        /\ active' = [active EXCEPT ![job[s]] = @ + 1]
    BY <1>10 DEF Activate, LPushActive
  <2>4. Recorded(c)' /\ SameStored(c)
    BY <1>0, <2>1, <2>2, <2>3 DEF Recorded, SameStored, InWait, KeysTypeOK
  <2>5. Stores(k, c)
    BY <1>1, <1>4, <2>1, <2>2, <2>3, <2>4 DEF Stores, Window
  <2> QED BY <2>5
<1>11. CASE LRem(s)
  <2>1. /\ pc[s] \notin Window /\ pc'[s] \in Window
        /\ job'[s] = job[s] /\ job[s] \in Jobs
    BY <1>0, <1>2, <1>11 DEF LRem, WorkerTypeOK, Window, After, AfterReturnValue
  <2>2. PICK c \in Jobs : c = job[s]
    BY <2>1
  <2>3. /\ UNCHANGED <<wait, prioritized, delayed, completed, failed, hash>>
        /\ active' = [active EXCEPT ![job[s]] = IF @ > 0 THEN @ - 1 ELSE 0]
    BY <1>11 DEF LRem, LRemActive
  <2>4. SameStored(c) /\ (Recorded(c)' => Recorded(c))
    <3>1. \A j \in Jobs : j # c => active'[j] = active[j]
      BY <1>0, <2>2, <2>3 DEF KeysTypeOK
    <3>2. active'[c] > 0 => active[c] > 0
      BY <1>0, <2>2, <2>3 DEF KeysTypeOK
    <3> QED BY <2>3, <3>1, <3>2 DEF Recorded, SameStored, InWait
  <2>5. Grasps(k, c)
    BY <1>1, <1>3, <1>4, <2>1, <2>2, <2>3, <2>4 DEF Grasps
  <2> QED BY <2>5
<1>12. CASE StoreResult(s)
  <2>1. UNCHANGED <<wait, prioritized, delayed, active, completed, failed>>
    BY <1>12 DEF StoreResult
  <2>2. \A j \in Jobs : "job" \in hash'[j] <=> "job" \in hash[j]
    BY <1>0, <1>12 DEF StoreResult, HSetResult, KeysTypeOK
  <2>3. \/ pc[s] = "returnvalue" /\ pc'[s] \in Window /\ job'[s] = job[s]
        \/ pc[s] = "failreason" /\ pc'[s] = "idle"
    BY <1>2, <1>12 DEF StoreResult, After, AfterReturnValue, Window
  <2> QED BY <1>1, <1>5, <2>1, <2>2, <2>3, PhasesStay DEF Rests, Window
<1>13. CASE RemoveHash(s)
  <2>1. UNCHANGED <<wait, prioritized, delayed, active, completed, failed>>
        /\ pc[s] \in {"remove", "faildel"} /\ job[s] \in Jobs
    BY <1>0, <1>13 DEF RemoveHash, WorkerTypeOK
  <2>2. PICK c \in Jobs : c = job[s]
    BY <2>1
  <2>3. \A j \in Jobs : hash'[j] = IF j = job[s] THEN {} ELSE hash[j]
    BY <1>0, <1>13 DEF RemoveHash, DelJob, KeysTypeOK
  <2>4. pc'[s] \in {"removelock", "idle"}
    BY <1>2, <1>13 DEF RemoveHash, After
  <2>5. PhaseOf(c)' = "gone" /\ \A i \in Jobs : i # c => PhaseOf(i)' = PhaseOf(i)
    BY <1>3, <2>1, <2>2, <2>3 DEF PhaseOf
  <2>6. Destroys(k, c)
    BY <1>1, <1>5, <2>1, <2>2, <2>4, <2>5 DEF Destroys, Window
  <2> QED BY <2>6
<1>14. CASE ZAddFinished(s)
  <2>1. UNCHANGED <<wait, prioritized, delayed, active, hash>> /\ pc[s] \in {"completed", "failed"}
        /\ job[s] \in Jobs
        /\ \/ completed' = completed \cup {job[s]} /\ UNCHANGED failed
           \/ failed' = failed \cup {job[s]} /\ UNCHANGED completed
    BY <1>0, <1>14 DEF ZAddFinished, WorkerTypeOK
  <2>2. PICK c \in Jobs : c = job[s]
    BY <2>1
  <2>3. pc'[s] \in {"release", "failreason"}
    BY <1>2, <1>14 DEF ZAddFinished, After
  <2>4. Recorded(c)' /\ SameStored(c)
    BY <2>2, <2>1 DEF Recorded, SameStored, InWait
  <2>5. Stores(k, c)
    BY <1>1, <1>4, <2>1, <2>2, <2>3, <2>4 DEF Stores, Window
  <2> QED BY <2>5
<1>15. CASE Unlock(s)
  <2>1. UNCHANGED <<wait, prioritized, delayed, active, completed, failed, hash>>
    BY <1>15 DEF Unlock
  <2>2. \/ pc[s] = "failrelease" /\ pc'[s] \in Window /\ job'[s] = job[s]
        \/ pc[s] \notin Window /\ pc'[s] \notin Window
    BY <1>2, <1>15 DEF Unlock, After, AfterFailRelease, Window
  <2> QED BY <1>1, <1>4, <1>5, <2>1, <2>2 DEF Rests, Window
<1>16. CASE ZAddDelayed(s)
  <2>1. UNCHANGED <<wait, prioritized, active, completed, failed, hash>> /\ pc[s] = "delay"
        /\ job[s] \in Jobs /\ delayed' = delayed \cup {job[s]} /\ pc'[s] = "attempts"
    BY <1>0, <1>2, <1>16 DEF ZAddDelayed, WorkerTypeOK, After
  <2>2. PICK c \in Jobs : c = job[s]
    BY <2>1
  <2>3. Recorded(c)' /\ SameStored(c)
    BY <2>2, <2>1 DEF Recorded, SameStored, InWait
  <2>4. Stores(k, c)
    BY <1>1, <1>4, <2>1, <2>2, <2>3 DEF Stores, Window
  <2> QED BY <2>4
<1>17. CASE StoreAttempts(s)
  <2>1. UNCHANGED <<wait, prioritized, delayed, active, completed, failed>>
    BY <1>17 DEF StoreAttempts
  <2>2. \A j \in Jobs : "job" \in hash'[j] <=> "job" \in hash[j]
    BY <1>0, <1>17 DEF StoreAttempts, HSetAttempts, KeysTypeOK
  <2>3. pc[s] \notin Window /\ pc'[s] \notin Window
    BY <1>2, <1>17 DEF StoreAttempts, After, Window
  <2> QED BY <1>1, <1>5, <2>1, <2>2, <2>3, PhasesStay DEF Rests
<1> QED
  BY <1>6, <1>7, <1>8, <1>9, <1>10, <1>11, <1>12, <1>13, <1>14, <1>15, <1>16, <1>17 DEF SlotStep

\* So does a step of the checker of w.
LEMMA CheckerCustody ==
  ASSUME TypeOK, AttemptsInv, NEW w \in Workers, CheckerStep(w), UNCHANGED add, NEW k,
         InHand(k) = CheckerHand(w), InHand(k)' = CheckerHand(w)'
  PROVE  Rests(k) \/ \E j \in Jobs : Grasps(k, j) \/ Stores(k, j) \/ Destroys(k, j)
<1> USE DEF pending, finished, hashes, keys
<1>0. KeysTypeOK /\ CheckerTypeOK /\ NoJob \notin Jobs
  BY DEF TypeOK
<1>1. /\ InHand(k) = IF chk[w] \in {"zadd", "lpush"} THEN cjob[w] ELSE NoJob
      /\ InHand(k)' = IF chk'[w] \in {"zadd", "lpush"} THEN cjob'[w] ELSE NoJob
  BY DEF CheckerHand, CheckerHolds
<1>2. ASSUME NEW label, label # "exists", Advance(w, label) PROVE chk'[w] = label /\ cjob'[w] = cjob[w]
  BY <1>0, <1>2 DEF Advance, CheckerTypeOK
<1>3. ASSUME NEW rest, GoOn(w, rest) PROVE chk'[w] \in {"off", "exists"}
  BY <1>0, <1>3 DEF GoOn, CheckerTypeOK
<1>4. UNCHANGED hash => SamePhases
  BY PhasesStay
<1>5. UNCHANGED <<wait, prioritized, delayed, active, completed, failed>> => SameStored(NoJob)
  BY RecordedSame DEF SameStored
<1>6. CASE Exists(w) \/ LoadStalled(w)
  <2>1. UNCHANGED keys /\ chk[w] \notin {"zadd", "lpush"} /\ chk'[w] \notin {"zadd", "lpush"}
    BY <1>0, <1>3, <1>6 DEF Exists, LoadStalled, CheckerTypeOK
  <2> QED BY <1>1, <1>4, <1>5, <2>1 DEF Rests
<1>7. CASE LRemStalled(w)
  <2>1. chk[w] = "lrem" /\ cjob[w] \in Jobs /\ chk'[w] \in {"zadd", "lpush"} /\ cjob'[w] = cjob[w]
    BY <1>0, <1>2, <1>7 DEF LRemStalled, CheckerTypeOK, Then, AfterLRem
  <2>2. PICK c \in Jobs : c = cjob[w]
    BY <2>1
  <2>3. /\ UNCHANGED <<wait, prioritized, delayed, completed, failed, hash>>
        /\ active' = [active EXCEPT ![cjob[w]] = IF @ > 0 THEN @ - 1 ELSE 0]
    BY <1>7 DEF LRemStalled, LRemActive
  <2>4. SameStored(c) /\ (Recorded(c)' => Recorded(c))
    <3>1. \A j \in Jobs : j # c => active'[j] = active[j]
      BY <1>0, <2>2, <2>3 DEF KeysTypeOK
    <3>2. active'[c] > 0 => active[c] > 0
      BY <1>0, <2>2, <2>3 DEF KeysTypeOK
    <3> QED BY <2>3, <3>1, <3>2 DEF Recorded, SameStored, InWait
  <2>5. PhaseOf(c) # "new"
    BY <2>2, <2>1 DEF AttemptsInv, Unknown, PhaseOf
  <2>6. Grasps(k, c)
    BY <1>1, <1>4, <2>1, <2>2, <2>3, <2>4, <2>5 DEF Grasps
  <2> QED BY <2>6
<1>8. CASE FailStalled(w)
  <2>1. /\ UNCHANGED <<wait, prioritized, delayed, active, completed, hash>>
        /\ failed' = failed \cup {cjob[w]} /\ cjob[w] \in Jobs
        /\ chk[w] = "zadd" /\ chk'[w] = "reason"
    BY <1>0, <1>2, <1>8 DEF FailStalled, CheckerTypeOK, Then
  <2>2. PICK c \in Jobs : c = cjob[w]
    BY <2>1
  <2>3. Recorded(c)' /\ SameStored(c)
    BY <2>2, <2>1 DEF Recorded, SameStored, InWait
  <2>4. Stores(k, c)
    BY <1>1, <1>4, <2>1, <2>2, <2>3 DEF Stores
  <2> QED BY <2>4
<1>9. CASE Requeue(w)
  <2>1. /\ UNCHANGED <<prioritized, delayed, active, completed, failed, hash>>
        /\ LPushWait(cjob[w]) /\ cjob[w] \in Jobs
        /\ chk[w] = "lpush" /\ chk'[w] = "attempts"
    BY <1>0, <1>2, <1>9 DEF Requeue, CheckerTypeOK, Then
  <2>2. PICK c \in Jobs : c = cjob[w]
    BY <2>1
  <2>3. InWait(c)' /\ \A j \in Jobs : j # c => (InWait(j)' <=> InWait(j))
    BY <1>0, <2>1, <2>2, PushFacts, PushOnly DEF KeysTypeOK
  <2>4. Recorded(c)' /\ SameStored(c)
    BY <2>1, <2>3 DEF Recorded, SameStored
  <2>5. Stores(k, c)
    BY <1>1, <1>4, <2>1, <2>2, <2>4 DEF Stores
  <2> QED BY <2>5
<1>10. CASE StoreReason(w) \/ StoreRecovery(w)
  <2>1. UNCHANGED <<wait, prioritized, delayed, active, completed, failed>>
    BY <1>10 DEF StoreReason, StoreRecovery
  <2>2. \A j \in Jobs : "job" \in hash'[j] <=> "job" \in hash[j]
    <3>1. CASE StoreReason(w)
      BY <1>0, <3>1 DEF StoreReason, HSetResult, KeysTypeOK
    <3>2. CASE StoreRecovery(w)
      BY <1>0, <3>2 DEF StoreRecovery, HSetAttempts, KeysTypeOK
    <3> QED BY <1>10, <3>1, <3>2
  <2>3. chk[w] \in {"reason", "attempts"} /\ chk'[w] \in {"off", "exists"}
    BY <1>3, <1>10 DEF StoreReason, StoreRecovery, Then, Advance
  <2> QED BY <1>1, <1>5, <2>1, <2>2, <2>3, PhasesStay DEF Rests
<1> QED BY <1>6, <1>7, <1>8, <1>9, <1>10 DEF CheckerStep

\* A step that changes nothing JobCustody sees is none of its steps.
LEMMA NoCustodyStep ==
  ASSUME SameStored(NoJob), SamePhases, UNCHANGED atRisk,
         \A k \in Keepers : InHand(k)' = InHand(k)
  PROVE  [Custody!Next]_(Custody!custodyVars)
<1> DEFINE Hands  == [i \in Keepers |-> InHand(i)]
           Phase  == [j \in Jobs |-> PhaseOf(j)]
           Stored == { j \in Jobs : Recorded(j) }
<1>1. Hands' = Hands /\ Phase' = Phase /\ Stored' = Stored
  BY DEF SameStored, SamePhases
<1> QED BY <1>1 DEF Custody!custodyVars

\* A command of slot s changes what is in no other hands.
LEMMA SlotElsewhere ==
  ASSUME TypeOK, NEW s \in Slots, SlotStep(s) \/ PopReplyLost(s) \/ CommandFails(s),
         UNCHANGED checkerVars
  PROVE  HandsElsewhere(<<"slot", s>>)
<1>1. pc' = [pc EXCEPT ![s] = pc'[s]] /\ job' = [job EXCEPT ![s] = job'[s]]
  BY SlotStepLocal DEF TypeOK
<1>2. \A t \in Slots : t # s => SlotHand(t)' = SlotHand(t)
  BY <1>1 DEF TypeOK, WorkerTypeOK, SlotHand, SlotHolds
<1>3. \A w \in Workers : CheckerHand(w)' = CheckerHand(w)
  BY DEF CheckerHand, CheckerHolds, checkerVars
<1> QED BY <1>2, <1>3, KeeperForms DEF HandsElsewhere

\* The same of the checker of w.
LEMMA CheckerElsewhere ==
  ASSUME TypeOK, NEW w \in Workers, CheckerStep(w) \/ Scan(w) \/ CheckerCommandFails(w),
         UNCHANGED slotVars
  PROVE  HandsElsewhere(<<"checker", w>>)
<1>1. \A v \in Workers : v # w => CheckerHand(v)' = CheckerHand(v)
  BY CheckerStepLocal DEF TypeOK, CheckerHand, CheckerHolds
<1>2. \A s \in Slots : SlotHand(s)' = SlotHand(s)
  BY DEF SlotHand, SlotHolds, slotVars
<1> QED BY <1>1, <1>2, KeeperForms DEF HandsElsewhere

\* Add accepts the id when it enqueues it; the hash it stored first is not missing then.
LEMMA AddCustody ==
  ASSUME TypeOK, AttemptsInv, NEW j \in Jobs, Add(j) PROVE [Custody!Next]_(Custody!custodyVars)
<1> USE DEF pending, finished, hashes
<1>0. KeysTypeOK /\ ProducerTypeOK /\ NoJob \notin Jobs
  BY DEF TypeOK
<1>1. UNCHANGED atRisk /\ \A k \in Keepers : InHand(k)' = InHand(k)
  BY DEF Add, InHand, SlotHand, SlotHolds, CheckerHand, CheckerHolds, slotVars, checkerVars, history
<1>2. CASE StoreJobHash(j)
  <2>1. SameStored(NoJob)
    BY <1>2, RecordedSame DEF StoreJobHash, SameStored
  <2>2. /\ add[j] = "new" /\ add'[j] = "stored"
        /\ \A i \in Jobs : i # j => hash'[i] = hash[i] /\ add'[i] = add[i]
    BY <1>0, <1>2 DEF StoreJobHash, KeysTypeOK, ProducerTypeOK
  <2>3. SamePhases
    BY <2>2 DEF SamePhases, PhaseOf
  <2> QED BY <1>1, <2>1, <2>3, NoCustodyStep
<1>3. CASE EnqueueJob(j)
  <2> DEFINE Hands  == [i \in Keepers |-> InHand(i)]
             Phase  == [i \in Jobs |-> PhaseOf(i)]
             Stored == { i \in Jobs : Recorded(i) }
  <2>1. /\ add[j] = "stored" /\ add'[j] = "added" /\ hash' = hash
        /\ \A i \in Jobs : i # j => add'[i] = add[i]
    BY <1>0, <1>3 DEF EnqueueJob, ProducerTypeOK
  <2>2. "job" \in hash[j]
    BY <2>1 DEF AttemptsInv, Unknown
  <2>3. Phase[j] = "new" /\ Phase' = [Phase EXCEPT ![j] = "owed"]
    BY <2>1, <2>2 DEF PhaseOf
  <2>4. /\ UNCHANGED <<active, completed, failed>>
        /\ \/ delayed' = delayed \cup {j} /\ UNCHANGED <<wait, prioritized>>
           \/ prioritized' = prioritized \cup {j} /\ UNCHANGED <<wait, delayed>>
           \/ LPushWait(j) /\ UNCHANGED <<prioritized, delayed>>
    BY <1>3 DEF EnqueueJob
  <2>5. Recorded(j)' /\ \A i \in Jobs : i # j => (Recorded(i)' <=> Recorded(i))
    <3>1. CASE LPushWait(j) /\ UNCHANGED <<prioritized, delayed>>
      <4>1. InWait(j)' /\ \A i \in Jobs : i # j => (InWait(i)' <=> InWait(i))
        BY <1>0, <3>1, PushFacts, PushOnly DEF KeysTypeOK
      <4> QED BY <2>4, <3>1, <4>1 DEF Recorded
    <3>2. CASE ~(LPushWait(j) /\ UNCHANGED <<prioritized, delayed>>)
      BY <2>4, <3>2 DEF Recorded, InWait
    <3> QED BY <3>1, <3>2
  <2>6. Stored' = Stored \cup {j} /\ Hands' = Hands
    BY <1>1, <2>5
  <2>7. Custody!Accept(j)
    BY <1>1, <2>3, <2>6 DEF Custody!Accept
  <2> QED BY <2>7 DEF Custody!Next
<1> QED BY <1>2, <1>3 DEF Add

\* Pausing, resuming, lapsing locks and a failing enqueue are none of its steps.
LEMMA QueueStepCustody ==
  ASSUME TypeOK,
         PauseQueue \/ ResumeQueue \/ UNCHANGED vars \/ \E k \in Jobs : LockExpires(k) \/ AddFails(k)
  PROVE  [Custody!Next]_(Custody!custodyVars)
<1>1. /\ UNCHANGED <<wait, prioritized, delayed, active, completed, failed, hash>>
      /\ UNCHANGED <<pc, job, chk, cjob, atRisk>>
      /\ \A j \in Jobs : add'[j] = add[j] \/ (add[j] # "added" /\ add'[j] # "added")
  BY DEF PauseQueue, ResumeQueue, LockExpires, AddFails, Pause, Resume, EnqueueFails, vars,
         pending, finished, hashes, keys, slotVars, checkerVars, history, TypeOK, ProducerTypeOK
<1>2. SameStored(NoJob)
  BY <1>1, RecordedSame DEF SameStored
<1>3. SamePhases
  BY <1>1 DEF SamePhases, PhaseOf
<1>4. \A k \in Keepers : InHand(k)' = InHand(k)
  BY <1>1 DEF InHand, SlotHand, SlotHolds, CheckerHand, CheckerHolds
<1> QED BY <1>1, <1>2, <1>3, <1>4, NoCustodyStep

\* A scan only reads.
LEMMA ScanCustody ==
  ASSUME TypeOK, NEW w \in Workers, StartScan(w) PROVE [Custody!Next]_(Custody!custodyVars)
<1>1. Scan(w) /\ UNCHANGED <<keys, add, slotVars, atRisk>>
  BY DEF StartScan, Scan
<1>2. SameStored(NoJob)
  BY <1>1, RecordedSame DEF SameStored, keys
<1>3. SamePhases
  BY <1>1, PhasesStay DEF keys
<1>4. CheckerHand(w)' = CheckerHand(w)
  BY <1>1 DEF Scan, CheckerHand, CheckerHolds, TypeOK, CheckerTypeOK
<1>5. \A k \in Keepers : InHand(k)' = InHand(k)
  BY <1>1, <1>4, CheckerElsewhere, KeeperForms DEF HandsElsewhere
<1> QED BY <1>1, <1>2, <1>3, <1>5, NoCustodyStep

\* In a crash the slots and the checker of the worker die with what they have in hand.
LEMMA CrashCustody ==
  ASSUME TypeOK, NEW w \in Workers, Crash(w) PROVE [Custody!Next]_(Custody!custodyVars)
<1> DEFINE K == { <<"slot", s>> : s \in { s \in Slots : WorkerOf[s] = w } } \cup {<<"checker", w>>}
<1>0. WorkerTypeOK /\ CheckerTypeOK /\ NoJob \notin Jobs /\ UNCHANGED <<keys, add>>
  BY DEF TypeOK, Crash
<1>1. /\ K \in SUBSET Keepers
      /\ \A s \in Slots : <<"slot", s>> \in K <=> WorkerOf[s] = w
      /\ \A v \in Workers : <<"checker", v>> \in K <=> v = w
  BY DEF Keepers
<1>2. \A s \in Slots : SlotHand(s)' = IF WorkerOf[s] = w THEN NoJob ELSE SlotHand(s)
  BY <1>0 DEF Crash, SlotHand, SlotHolds, WorkerTypeOK
<1>3. \A v \in Workers : CheckerHand(v)' = IF v = w THEN NoJob ELSE CheckerHand(v)
  BY <1>0 DEF Crash, GoOn, CheckerHand, CheckerHolds, CheckerTypeOK
<1>4. ASSUME NEW j \in Jobs PROVE j \in HeldBy(w) <=> \E k \in K : InHand(k) = j
  <2>1. \A s \in Slots : SlotHolds(s, j) <=> SlotHand(s) = j
    BY <1>0 DEF SlotHand, SlotHolds
  <2>2. CheckerHolds(w, j) <=> CheckerHand(w) = j
    BY <1>0 DEF CheckerHand, CheckerHolds
  <2>3. (\E k \in K : InHand(k) = j) <=> \/ \E s \in Slots : WorkerOf[s] = w /\ SlotHand(s) = j
                                         \/ CheckerHand(w) = j
    <3> HIDE DEF K
    <3>1. ASSUME NEW k \in K, InHand(k) = j
          PROVE  (\E s \in Slots : WorkerOf[s] = w /\ SlotHand(s) = j) \/ CheckerHand(w) = j
      BY <1>1, <3>1, KeeperForms
    <3>2. ASSUME NEW s \in Slots, WorkerOf[s] = w, SlotHand(s) = j PROVE \E k \in K : InHand(k) = j
      BY <1>1, <3>2, KeeperForms
    <3>3. CheckerHand(w) = j => \E k \in K : InHand(k) = j
      BY <1>1, KeeperForms
    <3> QED BY <3>1, <3>2, <3>3
  <2> QED BY <2>1, <2>2, <2>3 DEF HeldBy
<1>5. \A k \in Keepers : InHand(k)' = IF k \in K THEN NoJob ELSE InHand(k)
  <2> HIDE DEF K
  <2> QED BY <1>1, <1>2, <1>3, KeeperForms
<1>6. atRisk' = atRisk \cup { j \in Jobs : \E k \in K : InHand(k) = j }
  <2> HIDE DEF K
  <2>1. HeldBy(w) \subseteq Jobs
    BY DEF HeldBy
  <2>2. HeldBy(w) = { j \in Jobs : \E k \in K : InHand(k) = j }
    BY <1>4, <2>1
  <2> QED BY <2>2 DEF Crash
<1>7. SamePhases /\ SameStored(NoJob)
  BY <1>0, PhasesStay, RecordedSame DEF SameStored, keys
<1>8. Loses(K)
  BY <1>5, <1>6, <1>7 DEF Loses
<1> HIDE DEF K
<1> QED BY <1>1, <1>8, LossSteps

\* A failing command of a slot: the reply of a pop is lost, an id that was in hand is given
\* up, or the command counts as done.
LEMMA WorkFailsCustody ==
  ASSUME TypeOK, AttemptsInv, NEW s \in Slots, WorkFails(s)
  PROVE  [Custody!Next]_(Custody!custodyVars)
<1> USE DEF pending, finished, hashes, keys
<1> DEFINE k == <<"slot", s>>
<1>0. /\ KeysTypeOK /\ WorkerTypeOK /\ NoJob \notin Jobs /\ UNCHANGED <<add, hash, checkerVars>>
      /\ PopReplyLost(s) \/ CommandFails(s)
  BY DEF TypeOK, WorkFails, PopReplyLost, CommandFails
<1>1. k \in Keepers /\ InHand(k) = SlotHand(s) /\ InHand(k)' = SlotHand(s)'
  BY KeeperForms
<1>2. /\ InHand(k) = IF pc[s] \in Window THEN job[s] ELSE NoJob
      /\ InHand(k)' = IF pc'[s] \in Window THEN job'[s] ELSE NoJob
  BY <1>1 DEF SlotHand, SlotHolds, Window
<1>3. HandsElsewhere(k)
  BY <1>0, SlotElsewhere
<1>4. SamePhases
  BY <1>0, PhasesStay
<1>5. ASSUME NEW label, Goto(s, label)
      PROVE  pc'[s] = label /\ (label # "idle" => job'[s] = job[s])
  BY <1>0, <1>5 DEF Goto, WorkerTypeOK
<1> HIDE DEF k
<1>6. CASE PopReplyLost(s) /\ atRisk' = atRisk \cup (prioritized \ prioritized')
                                              \cup (IF wait' # wait THEN {WaitTail} ELSE {})
  <2>1. pc[s] \in {"zpop", "rpop"} /\ pc'[s] = "idle" /\ UNCHANGED <<delayed, active, completed, failed>>
    BY <1>5, <1>6 DEF PopReplyLost
  <2>2. \A i \in Keepers : InHand(i)' = InHand(i)
    BY <1>2, <1>3, <2>1 DEF HandsElsewhere, Window
  <2>3. ASSUME NEW j \in Jobs, atRisk' = atRisk \cup {j}, SameStored(j), Recorded(j)
        PROVE  Custody!Next
    <3> DEFINE Hands  == [i \in Keepers |-> InHand(i)]
               Phase  == [i \in Jobs |-> PhaseOf(i)]
               Stored == { i \in Jobs : Recorded(i) }
    <3>1. Hands' = Hands /\ Phase' = Phase
      BY <1>4, <2>2 DEF SamePhases
    <3>2. j \in Stored /\ Stored' \in {Stored, Stored \ {j}}
      BY <2>3 DEF SameStored
    <3>3. Custody!Drop(j)
      BY <2>3, <3>1, <3>2 DEF Custody!Drop
    <3> QED BY <3>3 DEF Custody!Next
  <2>4. ASSUME NEW j \in Foremost, prioritized' = prioritized \ {j}, UNCHANGED wait
        PROVE  Custody!Next
    <3>1. j \in Jobs /\ j \in prioritized
      BY <1>0 DEF Foremost, KeysTypeOK
    <3>2. SameStored(j) /\ Recorded(j)
      BY <2>1, <2>4, <3>1 DEF SameStored, Recorded, InWait
    <3>3. atRisk' = atRisk \cup {j}
      BY <1>6, <2>4, <3>1
    <3> QED BY <2>3, <3>1, <3>2, <3>3
  <2>5. ASSUME wait # << >>, RPopWait, UNCHANGED prioritized, wait' # wait
        PROVE  Custody!Next
    <3>1. /\ WaitTail \in Jobs /\ InWait(WaitTail)
          /\ \A j \in Jobs : j # WaitTail => (InWait(j)' <=> InWait(j))
      BY <1>0, <2>5, PopFacts, PopOnly DEF KeysTypeOK
    <3>2. PICK t \in Jobs : t = WaitTail
      BY <3>1
    <3>3. SameStored(t) /\ Recorded(t)
      BY <2>1, <2>5, <3>1, <3>2 DEF SameStored, Recorded
    <3>4. atRisk' = atRisk \cup {t}
      BY <1>6, <2>5, <3>2
    <3> QED BY <2>3, <3>3, <3>4
  <2>6. ASSUME UNCHANGED <<wait, prioritized>> PROVE [Custody!Next]_(Custody!custodyVars)
    <3>1. SameStored(NoJob) /\ UNCHANGED atRisk
      BY <1>6, <2>1, <2>6, RecordedSame DEF SameStored
    <3> QED BY <1>4, <2>2, <3>1, NoCustodyStep
  <2> QED BY <1>6, <2>4, <2>5, <2>6 DEF PopReplyLost
<1>7. CASE CommandFails(s) /\ atRisk' = atRisk \cup { j \in Jobs : /\ SlotHolds(s, j)
                                                   /\ pc[s] \notin {"returnvalue", "failrelease"} }
  <2>1. SameStored(NoJob)
    BY <1>7, RecordedSame DEF CommandFails, SameStored
  <2>2. \A j \in Jobs : SlotHolds(s, j) <=> InHand(k) = j
    BY <1>0, <1>2 DEF SlotHolds, Window
  <2>3. CASE pc[s] \in Window \ {"returnvalue", "failrelease"}
    <3>1. pc'[s] \notin Window
      <4>1. CASE pc[s] \in {"setex", "activate"}
        BY <1>5, <1>7, <4>1 DEF CommandFails, Window
      <4>2. CASE pc[s] \notin {"setex", "activate"}
        BY <1>5, <1>7, <2>3, <4>2 DEF CommandFails, After, Window
      <4> QED BY <4>1, <4>2
    <3>2. \A i \in Keepers : InHand(i)' = IF i \in {k} THEN NoJob ELSE InHand(i)
      BY <1>2, <1>3, <3>1 DEF HandsElsewhere
    <3>3. atRisk' = atRisk \cup { j \in Jobs : \E i \in {k} : InHand(i) = j }
      BY <1>7, <2>2, <2>3
    <3>4. Loses({k})
      BY <1>4, <2>1, <3>2, <3>3 DEF Loses
    <3> QED BY <1>1, <3>4, LossSteps
  <2>4. CASE pc[s] \notin Window \ {"returnvalue", "failrelease"}
    <3>1. UNCHANGED atRisk
      BY <1>7, <2>4 DEF SlotHolds, Window
    <3>2. CASE pc[s] \in {"fail", "retry"}
      <4>1. job[s] \in Jobs /\ job'[s] = job[s] /\ pc[s] \notin Window /\ pc'[s] \in Window
        BY <1>0, <1>5, <1>7, <3>2 DEF CommandFails, After, Window, WorkerTypeOK
      <4>2. PICK c \in Jobs : c = job[s]
        BY <4>1
      <4>3. PhaseOf(c) # "new"
        BY <4>2 DEF AttemptsInv, Unknown, PhaseOf
      <4>4. SameStored(c) /\ (Recorded(c)' => Recorded(c))
        BY <1>0, <2>1 DEF SameStored
      <4>5. Grasps(k, c)
        BY <1>2, <1>4, <4>1, <4>2, <4>3, <4>4 DEF Grasps
      <4> QED BY <1>1, <1>3, <3>1, <4>5, KeeperSteps
    <3>3. CASE pc[s] \in {"returnvalue", "failrelease"}
      <4>1. job'[s] = job[s] /\ pc[s] \in Window /\ pc'[s] \in Window
        BY <1>5, <1>7, <3>3 DEF CommandFails, After, AfterReturnValue, AfterFailRelease, Window
      <4>2. Rests(k)
        BY <1>2, <1>4, <2>1, <4>1 DEF Rests
      <4> QED BY <1>1, <1>3, <3>1, <4>2, KeeperSteps
    <3>4. CASE pc[s] \notin {"fail", "retry", "returnvalue", "failrelease"}
      <4>1. pc[s] \notin Window /\ pc'[s] \notin Window
        <5>1. pc[s] \in {"load", "complete", "unlock", "removelock", "release", "failreason", "attempts"}
          BY <1>0, <1>7, <2>4, <3>4 DEF CommandFails, Window, WorkerTypeOK, Labels, Pickup, Finish,
                                        Fail, Retry
        <5> QED BY <1>5, <1>7, <5>1 DEF CommandFails, After, Window
      <4>2. Rests(k)
        BY <1>2, <1>4, <2>1, <4>1 DEF Rests
      <4> QED BY <1>1, <1>3, <3>1, <4>2, KeeperSteps
    <3> QED BY <3>2, <3>3, <3>4
  <2> QED BY <2>3, <2>4
<1> QED BY <1>6, <1>7 DEF WorkFails

\* A failing command of a checker: the same.
LEMMA CheckFailsCustody ==
  ASSUME TypeOK, AttemptsInv, NEW w \in Workers, CheckFails(w)
  PROVE  [Custody!Next]_(Custody!custodyVars)
<1> DEFINE k == <<"checker", w>>
<1>0. /\ CheckerTypeOK /\ NoJob \notin Jobs /\ UNCHANGED <<keys, add, slotVars>>
      /\ CheckerCommandFails(w)
  BY DEF TypeOK, CheckFails, CheckerCommandFails
<1>1. k \in Keepers /\ InHand(k) = CheckerHand(w) /\ InHand(k)' = CheckerHand(w)'
  BY KeeperForms
<1>2. /\ InHand(k) = IF chk[w] \in {"zadd", "lpush"} THEN cjob[w] ELSE NoJob
      /\ InHand(k)' = IF chk'[w] \in {"zadd", "lpush"} THEN cjob'[w] ELSE NoJob
  BY <1>1 DEF CheckerHand, CheckerHolds
<1>3. HandsElsewhere(k)
  BY <1>0, CheckerElsewhere
<1> HIDE DEF k
<1>4. SamePhases /\ SameStored(NoJob)
  BY <1>0, PhasesStay, RecordedSame DEF SameStored, keys
<1>5. \A j \in Jobs : CheckerHolds(w, j) <=> InHand(k) = j
  BY <1>0, <1>2 DEF CheckerHolds
<1>6. ASSUME NEW rest, GoOn(w, rest) PROVE chk'[w] \in {"off", "exists"}
  BY <1>0, <1>6 DEF GoOn, CheckerTypeOK
<1>7. ASSUME NEW label, Advance(w, label)
      PROVE  IF label = "exists" THEN chk'[w] \in {"off", "exists"}
                                 ELSE chk'[w] = label /\ cjob'[w] = cjob[w]
  BY <1>0, <1>6, <1>7 DEF Advance, CheckerTypeOK
<1>8. CASE chk[w] \in {"zadd", "lpush"}
  <2>1. chk'[w] \in {"reason", "attempts"}
    BY <1>0, <1>7, <1>8 DEF CheckerCommandFails, Then
  <2>2. \A i \in Keepers : InHand(i)' = IF i \in {k} THEN NoJob ELSE InHand(i)
    BY <1>2, <1>3, <2>1 DEF HandsElsewhere
  <2>3. atRisk' = atRisk \cup { j \in Jobs : \E i \in {k} : InHand(i) = j }
    BY <1>5 DEF CheckFails
  <2>4. Loses({k})
    BY <1>4, <2>2, <2>3 DEF Loses
  <2> QED BY <1>1, <2>4, LossSteps
<1>9. CASE chk[w] \notin {"zadd", "lpush"}
  <2>1. UNCHANGED atRisk
    BY <1>9 DEF CheckFails, CheckerHolds
  <2>2. CASE chk[w] = "lrem"
    <3>1. cjob[w] \in Jobs /\ cjob'[w] = cjob[w] /\ chk'[w] \in {"zadd", "lpush"}
      BY <1>0, <1>7, <2>2 DEF CheckerCommandFails, Then, AfterLRem, CheckerTypeOK
    <3>2. PICK c \in Jobs : c = cjob[w]
      BY <3>1
    <3>3. PhaseOf(c) # "new"
      BY <3>2 DEF AttemptsInv, Unknown, PhaseOf
    <3>4. SameStored(c) /\ (Recorded(c)' => Recorded(c))
      BY <1>0, <1>4 DEF SameStored
    <3>5. Grasps(k, c)
      BY <1>2, <1>4, <2>2, <3>1, <3>2, <3>3, <3>4 DEF Grasps
    <3> QED BY <1>1, <1>3, <2>1, <3>5, KeeperSteps
  <2>3. CASE chk[w] # "lrem"
    <3>1. chk'[w] \in {"off", "exists"}
      <4>1. CASE chk[w] = "exists"
        BY <1>0, <1>6, <4>1 DEF CheckerCommandFails
      <4>2. CASE chk[w] # "exists"
        <5>1. chk[w] \in {"load", "reason", "attempts"}
          BY <1>0, <1>9, <2>3, <4>2 DEF CheckerCommandFails, CheckerTypeOK, ChkLabels
        <5> QED BY <1>0, <1>7, <5>1 DEF CheckerCommandFails, Then
      <4> QED BY <4>1, <4>2
    <3>2. Rests(k)
      BY <1>2, <1>4, <1>9, <3>1 DEF Rests
    <3> QED BY <1>1, <1>3, <2>1, <3>2, KeeperSteps
  <2> QED BY <2>2, <2>3
<1> QED BY <1>8, <1>9

\* Whatever producers, slots, checkers, lapsing locks, crashes and failing commands do, and
\* in whatever order: no id is taken before its Add has enqueued it, none leaves the keys but
\* into the hands of one slot or checker, and none leaves those but into a key, with the hash
\* of the job, or in a crash or failing command that atRisk tells of.
THEOREM JobsInCustody == Spec => CustodyKept
<1>1. Init => Custody!Init
  <2> SUFFICES ASSUME Init PROVE Custody!Init
    OBVIOUS
  <2>1. ASSUME NEW j \in Jobs PROVE PhaseOf(j) = "new" /\ ~Recorded(j)
    <3>1. add[j] = "new" /\ active[j] = 0
      BY DEF Init, KeysInit, ProducerInit
    <3>2. ~InWait(j)
      BY <3>1, AttemptsStart DEF AttemptsInv, Unknown
    <3>3. prioritized = {} /\ delayed = {} /\ completed = {} /\ failed = {}
      BY DEF Init, KeysInit
    <3>4. ~(active[j] > 0)
      BY <3>1
    <3> QED BY <3>1, <3>2, <3>3, <3>4 DEF PhaseOf, Recorded
  <2>2. \A s \in Slots : SlotHand(s) = NoJob
    BY DEF Init, WorkerInit, SlotHand, SlotHolds
  <2>3. \A w \in Workers : CheckerHand(w) = NoJob
    BY DEF Init, CheckerInit, CheckerHand, CheckerHolds
  <2>4. \A k \in Keepers : InHand(k) = NoJob
    BY <2>2, <2>3, KeeperForms
  <2>5. atRisk = {}
    BY DEF Init
  <2> QED BY <2>1, <2>4, <2>5 DEF Custody!Init
<1>2. TypeOK /\ AttemptsInv /\ [Next]_vars => [Custody!Next]_(Custody!custodyVars)
  <2> SUFFICES ASSUME TypeOK, AttemptsInv, [Next]_vars PROVE [Custody!Next]_(Custody!custodyVars)
    OBVIOUS
  <2>1. ASSUME NEW s \in Slots, Work(s) PROVE [Custody!Next]_(Custody!custodyVars)
    <3>1. SlotStep(s) /\ UNCHANGED <<add, checkerVars, atRisk>>
      BY <2>1 DEF Work
    <3> QED BY <3>1, SlotCustody, SlotElsewhere, KeeperForms, KeeperSteps
  <2>2. ASSUME NEW w \in Workers, Check(w) PROVE [Custody!Next]_(Custody!custodyVars)
    <3>1. CheckerStep(w) /\ UNCHANGED <<add, slotVars, atRisk>>
      BY <2>2 DEF Check, history
    <3> QED BY <3>1, CheckerCustody, CheckerElsewhere, KeeperForms, KeeperSteps
  <2> QED BY <2>1, <2>2, AddCustody, QueueStepCustody, ScanCustody, CrashCustody, WorkFailsCustody,
             CheckFailsCustody DEF Next
<1> QED BY <1>1, <1>2, AttemptsStart, AttemptsStep, TypeCorrect, PTL DEF Spec, CustodyKept, Custody!Spec

\* A step of JobCustody keeps what it promises, whatever the mapping gives it.
LEMMA CustodyAnswersStep ==
  Custody!Answered /\ [Custody!Next]_(Custody!custodyVars) => Custody!Answered'
<1> SUFFICES ASSUME Custody!Answered, [Custody!Next]_(Custody!custodyVars)
             PROVE  Custody!Answered'
  OBVIOUS
<1> DEFINE Hands  == [k \in Keepers |-> InHand(k)]
           Phase  == [j \in Jobs |-> PhaseOf(j)]
           Stored == { j \in Jobs : Recorded(j) }
           HasKeeper(j) == j \in Stored \cup atRisk \/ \E k \in Keepers : Hands[k] = j
           AllAnswered == \A j \in Jobs : Phase[j] = "owed" => HasKeeper(j)
<1>1. AllAnswered
  BY DEF Custody!Answered
<1>2. AllAnswered' => Custody!Answered'
  BY DEF Custody!Answered
<1>3. Hands = [k \in Keepers |-> Hands[k]] /\ Phase = [j \in Jobs |-> Phase[j]]
  OBVIOUS
<1>4. CASE UNCHANGED <<Phase, Stored, Hands, atRisk>>
  <2> HIDE DEF Hands, Phase, Stored
  <2> QED BY <1>1, <1>2, <1>4
<1>5. ASSUME NEW j \in Jobs, Custody!Accept(j) PROVE AllAnswered'
  <2>1. /\ Phase' = [Phase EXCEPT ![j] = "owed"]
        /\ Stored' = Stored \cup {j} /\ UNCHANGED <<Hands, atRisk>>
    BY <1>5 DEF Custody!Accept
  <2> HIDE DEF Hands, Phase, Stored
  <2> QED BY <1>1, <1>3, <2>1
<1>6. ASSUME NEW j \in Jobs, Custody!Drop(j) PROVE AllAnswered'
  <2>1. /\ Stored' \in {Stored, Stored \ {j}}
        /\ atRisk' = atRisk \cup {j} /\ UNCHANGED <<Phase, Hands>>
    BY <1>6 DEF Custody!Drop
  <2> HIDE DEF Hands, Phase, Stored
  <2> QED BY <1>1, <2>1
<1>7. ASSUME NEW k \in Keepers, NEW j \in Jobs, Custody!Take(k, j) PROVE AllAnswered'
  <2>1. /\ Hands[k] = NoJob /\ Hands' = [Hands EXCEPT ![k] = j]
        /\ Stored' \in {Stored, Stored \ {j}} /\ UNCHANGED <<Phase, atRisk>>
    BY <1>7 DEF Custody!Take
  <2> HIDE DEF Hands, Phase, Stored
  <2> QED BY <1>1, <1>3, <2>1
<1>8. ASSUME NEW k \in Keepers, Custody!Put(k) PROVE AllAnswered'
  <2>1. /\ Stored' = Stored \cup {Hands[k]} /\ Hands' = [Hands EXCEPT ![k] = NoJob]
        /\ UNCHANGED <<Phase, atRisk>>
    BY <1>8 DEF Custody!Put
  <2> HIDE DEF Hands, Phase, Stored
  <2> QED BY <1>1, <1>3, <2>1
<1>9. ASSUME NEW k \in Keepers, Custody!Discard(k) PROVE AllAnswered'
  <2>1. /\ Phase' = [Phase EXCEPT ![Hands[k]] = "gone"] /\ Hands' = [Hands EXCEPT ![k] = NoJob]
        /\ UNCHANGED <<Stored, atRisk>>
    BY <1>9 DEF Custody!Discard
  <2> HIDE DEF Hands, Phase, Stored
  <2> QED BY <1>1, <1>3, <2>1
<1>10. ASSUME NEW K \in SUBSET Custody!Busy, Custody!Die(K) PROVE AllAnswered'
  <2>1. /\ atRisk' = atRisk \cup {j \in Jobs : \E k \in K : Hands[k] = j}
        /\ Hands' = [k \in Keepers |-> IF k \in K THEN NoJob ELSE Hands[k]]
        /\ UNCHANGED <<Phase, Stored>>
    BY <1>10 DEF Custody!Die, Custody!Busy
  <2> HIDE DEF Hands, Phase, Stored
  <2> QED BY <1>1, <2>1
<1> HIDE DEF AllAnswered
<1> QED BY <1>2, <1>4, <1>5, <1>6, <1>7, <1>8, <1>9, <1>10 DEF Custody!Next, Custody!custodyVars

\* What the implementation of JobCustody amounts to: a job that is owed a run is stored, in
\* the hands of a slot or checker, or known to be at risk.
THEOREM CustodyAnswers == Spec => []Custody!Answered
<1>1. Custody!Init => Custody!Answered
  BY DEF Custody!Init, Custody!Answered
<1> QED BY <1>1, CustodyAnswersStep, JobsInCustody, PTL DEF CustodyKept, Custody!Spec
=============================================================================
