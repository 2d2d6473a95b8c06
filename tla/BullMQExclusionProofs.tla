----------------------- MODULE BullMQExclusionProofs -----------------------
(***************************************************************************)
(* When a worker never runs a job twice at a time.  With one worker, locks *)
(* kept alive by the heartbeats, no failing command and no removal of      *)
(* finished jobs, BullMQ excludes it for any number of jobs, slots, scans, *)
(* crashes and pauses; the claims of BullMQClaims show that it does not    *)
(* without these conditions.                                               *)
(***************************************************************************)
EXTENDS BullMQProofs

USE KeysAssumption, WorkerAssumption, CheckerAssumption, BullMQAssumption
    DEF KeysAssumption, WorkerAssumption, CheckerAssumption, BullMQAssumption

-----------------------------------------------------------------------------
(* The conditions and the invariant *)

KeepsJob(o) == ~o.removeOnComplete /\ ~o.removeOnFail
Careful ==
  /\ \A v, w \in Workers : v = w
  /\ LocksOutliveHolder
  /\ Limits["fault"] = 0
  /\ \A o \in JobOptions : KeepsJob(o)

\* Where a slot has popped an id, where the id is in `active` for it, and where the lock is
\* its own.
Popped   == {"setex", "activate"}
Running  == {"load", "work", "complete", "fail", "retry"}
Locking  == {"activate", "returnvalue", "completed", "release", "failrelease", "delay",
             "attempts"} \cup Running
Handling == Popped \cup Locking
Removing == {"unlock", "remove", "removelock", "faildel"}
Has(s, j, labels) == job[s] = j /\ pc[s] \in labels
Queued(j)         == InWait(j) \/ j \in prioritized
Recovers(w, j)    == cjob[w] = j /\ chk[w] \in {"load", "lrem", "zadd", "lpush"}

\* An id is queued once, or in the hands of one slot, or left in `active`, or being recovered.
QueuedOnce(j) ==
  /\ \A i, k \in 1..Len(wait) : wait[i] = j /\ wait[k] = j => i = k
  /\ InWait(j) => j \notin prioritized
  /\ Queued(j) => active[j] = 0 /\ \A s \in Slots : ~Has(s, j, Handling)
OneHolder(j) ==
  \A s, t \in Slots : Has(s, j, Handling) /\ Has(t, j, Handling) => s = t
HolderLocks(j) ==
  /\ active[j] <= 1
  /\ \A s \in Slots : /\ Has(s, j, Locking) => lock[j] = s
                      /\ Has(s, j, Running) => active[j] = 1
                      /\ Has(s, j, Popped) => active[j] = 0
RecoveredOnce(j) ==
  \A w \in Workers :
    /\ todo[w][j] <= 1
    /\ todo[w][j] > 0 => ~Queued(j) /\ ~Recovers(w, j) /\ \A s \in Slots : ~Has(s, j, Popped)
    /\ Recovers(w, j) => ~Queued(j) /\ \A s \in Slots : ~Has(s, j, Handling)
    /\ Recovers(w, j) /\ chk[w] \in {"zadd", "lpush"} => active[j] = 0
NotYetAdded(j) ==
  add[j] # "added" => /\ ~Queued(j) /\ active[j] = 0
                      /\ \A s \in Slots : job[s] # j
                      /\ \A w \in Workers : cjob[w] # j /\ todo[w][j] = 0
OneCopy(j) ==
  QueuedOnce(j) /\ OneHolder(j) /\ HolderLocks(j) /\ RecoveredOnce(j) /\ NotYetAdded(j)

ExclusionInv ==
  /\ \A s \in Slots : KeepsJob(cfg[s]) /\ pc[s] \notin Removing
  /\ \A j \in Jobs : KeepsJob(opts[j]) /\ OneCopy(j)

-----------------------------------------------------------------------------
(* Steps of a slot *)

\* A step of a slot that changes no list and no lock, and brings no id to a place where it
\* has to be alone.
LEMMA QuietStep ==
  ASSUME NEW s \in Slots, NEW j \in Jobs, OneCopy(j),
         UNCHANGED <<wait, prioritized, active, lock, add, checkerVars>>,
         job'[s] \in {job[s], NoJob},
         pc'[s] \in Running => pc[s] \in Running,
         pc'[s] \in Locking => pc[s] \in Locking,
         pc'[s] \in Popped => pc[s] \in Popped,
         \A t \in Slots : t # s => pc'[t] = pc[t] /\ job'[t] = job[t]
  PROVE  OneCopy(j)'
<1>1. /\ Queued(j)' <=> Queued(j)
      /\ InWait(j)' <=> InWait(j)
      /\ \A w \in Workers : Recovers(w, j)' <=> Recovers(w, j)
  BY DEF Queued, InWait, Recovers, checkerVars
<1>2. ASSUME NEW t \in Slots
      PROVE  /\ Has(t, j, Running)' => Has(t, j, Running)
             /\ Has(t, j, Locking)' => Has(t, j, Locking)
             /\ Has(t, j, Popped)' => Has(t, j, Popped)
             /\ Has(t, j, Handling)' => Has(t, j, Handling)
             /\ job'[t] = j => job[t] = j
  <2>1. CASE t = s
    BY <2>1 DEF Has, Handling
  <2>2. CASE t # s
    BY <2>2 DEF Has
  <2> QED BY <2>1, <2>2
<1>3. QueuedOnce(j)'
  BY <1>1, <1>2 DEF OneCopy, QueuedOnce
<1>4. OneHolder(j)'
  BY <1>2 DEF OneCopy, OneHolder
<1>5. HolderLocks(j)'
  BY <1>2 DEF OneCopy, HolderLocks
<1>6. RecoveredOnce(j)'
  BY <1>1, <1>2 DEF OneCopy, RecoveredOnce, checkerVars
<1>7. NotYetAdded(j)'
  BY <1>1, <1>2 DEF OneCopy, NotYetAdded, checkerVars
<1> QED BY <1>3, <1>4, <1>5, <1>6, <1>7 DEF OneCopy

\* RPOP leaves a prefix of the list.
LEMMA PopPrefix ==
  ASSUME wait \in Seq(Jobs), wait # << >>, RPopWait
  PROVE  /\ Len(wait) \in Nat /\ Len(wait) > 0 /\ Len(wait') = Len(wait) - 1
         /\ \A i \in 1..Len(wait') : wait'[i] = wait[i]
<1>1. Len(wait) \in Nat /\ Len(wait) > 0 /\ \A i \in 1..Len(wait) : wait[i] \in Jobs
  BY EmptySeq, ElementOfSeq
<1> DEFINE n == Len(wait) - 1
<1>2. n \in Nat /\ n - 1 + 1 = n /\ wait' = SubSeq(wait, 1, n)
  BY <1>1 DEF RPopWait
<1>3. /\ Len(SubSeq(wait, 1, n)) = IF 1 <= n THEN n - 1 + 1 ELSE 0
      /\ \A i \in 1 .. (n - 1 + 1) : SubSeq(wait, 1, n)[i] = wait[1 + i - 1]
  <2>1. 1 \in Int /\ n \in Int /\ \A i \in 1..n : wait[i] \in Jobs
    BY <1>1
  <2> HIDE DEF n
  <2> QED BY <2>1, SubSeqProperties
<1>4. ASSUME NEW i \in 1..n PROVE SubSeq(wait, 1, n)[i] = wait[i]
  <2>1. i \in 1..(n - 1 + 1) /\ 1 + i - 1 = i
    BY <1>2
  <2> QED BY <1>3, <2>1
<1>5. Len(wait') = n
  BY <1>2, <1>3
<1> QED BY <1>1, <1>2, <1>4, <1>5

\* LPUSH moves the list by one place.
LEMMA PushShift ==
  ASSUME wait \in Seq(Jobs), NEW k \in Jobs, LPushWait(k)
  PROVE  /\ Len(wait) \in Nat /\ Len(wait') = Len(wait) + 1 /\ wait'[1] = k
         /\ \A i \in 2..Len(wait') : i - 1 \in 1..Len(wait) /\ wait'[i] = wait[i - 1]
<1>1. <<k>> \in Seq(Jobs) /\ Len(<<k>>) = 1 /\ <<k>>[1] = k /\ Len(wait) \in Nat
  OBVIOUS
<1>2. /\ Len(wait') = 1 + Len(wait)
      /\ \A i \in 1..(1 + Len(wait)) : wait'[i] = IF i <= 1 THEN <<k>>[i] ELSE wait[i - 1]
  BY <1>1, ConcatProperties DEF LPushWait
<1> QED BY <1>1, <1>2

\* What a pop does to the lists, for the id it returns and for the others.
LEMMA PopLists ==
  ASSUME KeysTypeOK, \A j \in Jobs : QueuedOnce(j), NEW k \in Jobs,
         \/ k \in prioritized /\ prioritized' = prioritized \ {k} /\ UNCHANGED wait
         \/ wait # << >> /\ RPopWait /\ k = WaitTail /\ UNCHANGED prioritized
  PROVE  /\ Queued(k) /\ ~Queued(k)'
         /\ \A j \in Jobs : (Queued(j)' => Queued(j)) /\ (InWait(j)' => j \notin prioritized')
         /\ \A j \in Jobs, i, m \in 1..Len(wait') : wait'[i] = j /\ wait'[m] = j => i = m
<1>1. CASE k \in prioritized /\ prioritized' = prioritized \ {k} /\ UNCHANGED wait
  BY <1>1 DEF Queued, InWait, QueuedOnce
<1>2. CASE wait # << >> /\ RPopWait /\ k = WaitTail /\ UNCHANGED prioritized
  <2>0. wait \in Seq(Jobs)
    BY DEF KeysTypeOK
  <2>1. /\ Len(wait) \in Nat /\ Len(wait) > 0 /\ Len(wait') = Len(wait) - 1
        /\ \A i \in 1..Len(wait') : wait'[i] = wait[i]
    BY <1>2, <2>0, PopPrefix
  <2>2. \A i \in 1..Len(wait') : i \in 1..Len(wait) /\ i # Len(wait)
    BY <2>1
  <2>3. InWait(k) /\ wait[Len(wait)] = k /\ Len(wait) \in 1..Len(wait)
    BY <1>2, <2>0, <2>1, PopOnly DEF WaitTail
  <2>4. \A j \in Jobs : InWait(j)' => InWait(j)
    BY <1>2, <2>0, PopOnly
  <2>5. ~InWait(k)'
    BY <2>1, <2>2, <2>3 DEF InWait, QueuedOnce
  <2>6. \A j \in Jobs, i, m \in 1..Len(wait') : wait'[i] = j /\ wait'[m] = j => i = m
    BY <2>1, <2>2 DEF QueuedOnce
  <2> QED BY <1>2, <2>3, <2>4, <2>5, <2>6 DEF Queued, QueuedOnce
<1> QED BY <1>1, <1>2

\* A pop moves an id from a list into the hands of one slot.
LEMMA PopStep ==
  ASSUME KeysTypeOK, WorkerTypeOK, \A j \in Jobs : OneCopy(j), NEW s \in Slots, NEW k \in Jobs,
         \/ k \in prioritized /\ prioritized' = prioritized \ {k} /\ UNCHANGED wait
         \/ wait # << >> /\ RPopWait /\ k = WaitTail /\ UNCHANGED prioritized,
         Take(s, k), UNCHANGED <<active, lock, add, checkerVars>>, NEW j \in Jobs
  PROVE  OneCopy(j)'
<1>1. /\ Queued(k) /\ ~Queued(k)'
      /\ \A i \in Jobs : (Queued(i)' => Queued(i)) /\ (InWait(i)' => i \notin prioritized')
      /\ \A i, m \in 1..Len(wait') : wait'[i] = j /\ wait'[m] = j => i = m
  BY PopLists DEF OneCopy
<1>2. \A t \in Slots : /\ t # s => pc'[t] = pc[t] /\ job'[t] = job[t]
                       /\ t = s => pc'[t] = "setex" /\ job'[t] = k
  BY DEF Take, WorkerTypeOK
<1>3. \A w \in Workers : Recovers(w, j)' <=> Recovers(w, j)
  BY DEF Recovers, checkerVars
<1>4. CASE j = k
  <2>1. /\ active[k] = 0 /\ \A t \in Slots : ~Has(t, k, Handling)
        /\ \A w \in Workers : todo[w][k] <= 1 /\ ~(todo[w][k] > 0) /\ ~Recovers(w, k)
        /\ add[k] = "added"
    BY <1>1 DEF OneCopy, QueuedOnce, RecoveredOnce, NotYetAdded
  <2>2. \A t \in Slots : /\ t # s => ~Has(t, k, Handling)'
                         /\ ~Has(t, k, Locking)' /\ ~Has(t, k, Running)'
    BY <1>2, <2>1 DEF Has, Popped, Locking, Running, Handling
  <2>3. QueuedOnce(j)' /\ OneHolder(j)'
    BY <1>1, <1>4, <2>2 DEF QueuedOnce, OneHolder, Queued
  <2>4. HolderLocks(j)' /\ RecoveredOnce(j)' /\ NotYetAdded(j)'
    BY <1>3, <1>4, <2>1, <2>2 DEF HolderLocks, RecoveredOnce, NotYetAdded, checkerVars
  <2> QED BY <2>3, <2>4 DEF OneCopy
<1>5. CASE j # k
  <2>1. \A t \in Slots : /\ Has(t, j, Handling)' => Has(t, j, Handling)
                         /\ Has(t, j, Popped)' => Has(t, j, Popped)
                         /\ Has(t, j, Locking)' => Has(t, j, Locking)
                         /\ Has(t, j, Running)' => Has(t, j, Running)
                         /\ job'[t] = j => job[t] = j
    BY <1>2, <1>5 DEF Has
  <2>2. QueuedOnce(j)' /\ OneHolder(j)'
    BY <1>1, <2>1 DEF OneCopy, QueuedOnce, OneHolder
  <2>3. HolderLocks(j)'
    BY <2>1 DEF OneCopy, HolderLocks
  <2>4. RecoveredOnce(j)'
    BY <1>1, <1>3, <2>1 DEF OneCopy, RecoveredOnce, checkerVars
  <2>5. NotYetAdded(j)'
    BY <1>1, <2>1 DEF OneCopy, NotYetAdded, checkerVars
  <2> QED BY <2>2, <2>3, <2>4, <2>5 DEF OneCopy
<1> QED BY <1>4, <1>5

\* SETEX, LPUSH, LREM and DEL by the slot that holds the id.  An id in another's hands is not
\* touched.
LEMMA HolderStep ==
  ASSUME KeysTypeOK, WorkerTypeOK, \A j \in Jobs : OneCopy(j), NEW s \in Slots,
         UNCHANGED <<wait, prioritized, add, checkerVars>>,
         \/ SetEx(s) \/ Activate(s)
         \/ LRem(s) /\ pc'[s] \in {"returnvalue", "completed", "failrelease", "delay"}
         \/ Unlock(s) /\ pc[s] \in {"release", "failrelease"} /\ pc'[s] \in {"idle", "failed"},
         \A t \in Slots : t # s => pc'[t] = pc[t] /\ job'[t] = job[t],
         job'[s] \in {job[s], NoJob}, pc'[s] # "idle" => job'[s] = job[s],
         NEW j \in Jobs
  PROVE  OneCopy(j)'
<1>0. /\ Queued(j)' <=> Queued(j)
      /\ InWait(j)' <=> InWait(j)
      /\ \A w \in Workers : Recovers(w, j)' <=> Recovers(w, j)
  BY DEF Queued, InWait, Recovers, checkerVars
<1>1. CASE job[s] # j
  <2>1. \A t \in Slots : \A labels : Has(t, j, labels)' => Has(t, j, labels)
    BY <1>1 DEF Has
  <2>2. \A t \in Slots : job'[t] = j => job[t] = j
    BY <1>1
  <2>3. active'[j] = active[j] /\ lock'[j] = lock[j]
    BY <1>1 DEF SetEx, Activate, LRem, Unlock, SetLock, DelLock, LPushActive, LRemActive, KeysTypeOK
  <2>4. QueuedOnce(j)' /\ OneHolder(j)'
    BY <1>0, <2>1, <2>3 DEF OneCopy, QueuedOnce, OneHolder
  <2>5. HolderLocks(j)'
    BY <2>1, <2>3 DEF OneCopy, HolderLocks
  <2>6. RecoveredOnce(j)' /\ NotYetAdded(j)'
    BY <1>0, <2>1, <2>2, <2>3 DEF OneCopy, RecoveredOnce, NotYetAdded, checkerVars
  <2> QED BY <2>4, <2>5, <2>6 DEF OneCopy
<1>2. CASE job[s] = j
  <2>1. Has(s, j, Handling) /\ OneCopy(j)
    BY <1>2 DEF SetEx, Activate, LRem, Unlock, Has, Popped, Locking, Running, Handling
  <2>2. /\ ~Queued(j) /\ add[j] = "added" /\ \A w \in Workers : ~Recovers(w, j)
        /\ \A t \in Slots : t # s => ~Has(t, j, Handling)
    BY <1>2, <2>1 DEF OneCopy, QueuedOnce, OneHolder, RecoveredOnce, NotYetAdded
  <2>3. \A t \in Slots : t # s => /\ ~Has(t, j, Handling)' /\ ~Has(t, j, Popped)'
                                 /\ ~Has(t, j, Locking)' /\ ~Has(t, j, Running)'
    BY <2>2 DEF Has, Locking, Handling
  <2>4. QueuedOnce(j)' /\ OneHolder(j)' /\ NotYetAdded(j)'
    BY <1>0, <2>1, <2>2, <2>3 DEF OneCopy, QueuedOnce, OneHolder, NotYetAdded
  <2>5. active[j] \in Nat /\ lock \in [Jobs -> Slots \cup {NoLock}] /\ active \in [Jobs -> Nat]
    BY DEF KeysTypeOK
  <2>6. CASE SetEx(s)
    <3>1. /\ pc'[s] = "activate" /\ pc[s] = "setex" /\ lock'[j] = s /\ active' = active
      BY <1>2, <2>5, <2>6 DEF SetEx, SetLock, Goto, WorkerTypeOK
    <3>2. HolderLocks(j)'
      BY <2>1, <2>3, <3>1 DEF OneCopy, HolderLocks, Has, Popped, Locking, Running, Handling
    <3>3. RecoveredOnce(j)'
      BY <1>0, <1>2, <2>2, <2>3, <3>1 DEF OneCopy, RecoveredOnce, Has, Popped, checkerVars, Handling
    <3> QED BY <2>4, <3>2, <3>3 DEF OneCopy
  <2>7. CASE Activate(s)
    <3>1. /\ pc'[s] = "load" /\ pc[s] = "activate" /\ lock' = lock /\ active'[j] = active[j] + 1
      BY <1>2, <2>5, <2>7 DEF Activate, LPushActive, Goto, WorkerTypeOK
    <3>2. active[j] = 0 /\ lock[j] = s
      BY <1>2, <2>1, <3>1 DEF OneCopy, HolderLocks, Has, Popped, Locking, Handling
    <3>3. HolderLocks(j)'
      BY <2>3, <3>1, <3>2 DEF HolderLocks, Has, Popped, Locking, Running, Handling
    <3>4. RecoveredOnce(j)'
      BY <1>0, <1>2, <2>1, <2>2, <3>1 DEF OneCopy, RecoveredOnce, Has, Popped, checkerVars, Handling
    <3> QED BY <2>4, <3>3, <3>4 DEF OneCopy
  <2>8. CASE LRem(s)
    <3>1. /\ pc'[s] \in {"returnvalue", "completed", "failrelease", "delay"}
          /\ pc[s] \in {"complete", "fail", "retry"} /\ lock' = lock
          /\ active'[j] = IF active[j] > 0 THEN active[j] - 1 ELSE 0
      BY <1>2, <2>5, <2>8 DEF LRem, LRemActive, SetEx, Activate, Unlock
    <3>2. active[j] = 1 /\ lock[j] = s
      BY <1>2, <2>1, <3>1 DEF OneCopy, HolderLocks, Has, Running, Locking, Handling
    <3>3. HolderLocks(j)'
      BY <2>3, <3>1, <3>2 DEF HolderLocks, Has, Popped, Locking, Running, Handling
    <3>4. RecoveredOnce(j)'
      BY <1>0, <1>2, <2>1, <2>2, <2>3, <3>1 DEF OneCopy, RecoveredOnce, Has, Popped, checkerVars, Handling
    <3> QED BY <2>4, <3>3, <3>4 DEF OneCopy
  <2>9. CASE Unlock(s)
    <3>1. /\ pc'[s] \in {"idle", "failed"} /\ active' = active
          /\ pc[s] \in {"release", "failrelease"}
      BY <2>9 DEF Unlock, SetEx, Activate, LRem
    <3>2. HolderLocks(j)'
      BY <2>1, <2>3, <3>1 DEF OneCopy, HolderLocks, Has, Popped, Locking, Running, Handling
    <3>3. RecoveredOnce(j)'
      BY <1>0, <2>1, <2>2, <2>3, <3>1 DEF OneCopy, RecoveredOnce, Has, Popped, checkerVars, Handling
    <3> QED BY <2>4, <3>2, <3>3 DEF OneCopy
  <2> QED BY <2>6, <2>7, <2>8, <2>9
<1> QED BY <1>1, <1>2

\* Every step of a slot keeps every id in one place.
LEMMA SlotExcludes ==
  ASSUME KeysTypeOK, WorkerTypeOK, ExclusionInv, NEW s \in Slots, SlotStep(s),
         UNCHANGED <<add, checkerVars>>
  PROVE  pc'[s] \notin Removing /\ \A j \in Jobs : OneCopy(j)'
<1> USE DEF pending, finished, hashes, keys
<1>0. (\A j \in Jobs : OneCopy(j)) /\ KeepsJob(cfg[s]) /\ pc[s] \notin Removing
  BY DEF ExclusionInv
<1>1. \A t \in Slots : t # s => pc'[t] = pc[t] /\ job'[t] = job[t]
  BY SlotMemory
<1>2. ASSUME NEW label, Goto(s, label)
      PROVE  /\ pc'[s] = label /\ job'[s] \in {job[s], NoJob}
             /\ label # "idle" => job'[s] = job[s]
  BY <1>2 DEF Goto, WorkerTypeOK
<1> USE DEF Removing
<1>3. CASE Begin(s) \/ Succeed(s) \/ Load(s) \/ ProcessorFails(s)
  <2>1. UNCHANGED <<wait, prioritized, active, lock>> /\ job'[s] \in {job[s], NoJob}
    BY <1>2, <1>3 DEF Begin, Succeed, Load, ProcessorFails, WorkerTypeOK
  <2>2. \/ pc'[s] \in {"idle", "zpop"}
        \/ pc[s] \in {"load", "work"} /\ pc'[s] \in {"work", "complete", "fail", "retry"}
    BY <1>2, <1>3 DEF Begin, Succeed, Load, ProcessorFails, WorkerTypeOK
  <2> QED BY <1>0, <1>1, <2>1, <2>2, QuietStep DEF Running, Locking, Popped, Handling
<1>4. CASE ZPopMin(s)
  <2>1. CASE Goto(s, "rpop") /\ UNCHANGED prioritized
    BY <1>0, <1>1, <1>2, <1>4, <2>1, QuietStep DEF ZPopMin, Running, Locking, Popped, Handling
  <2>2. ASSUME NEW k \in Foremost, prioritized' = prioritized \ {k}, Take(s, k)
        PROVE  pc'[s] \notin Removing /\ \A j \in Jobs : OneCopy(j)'
    <3>1. k \in Jobs /\ k \in prioritized /\ UNCHANGED <<wait, active, lock>>
      BY <1>4, <2>2 DEF ZPopMin, Foremost, KeysTypeOK
    <3>2. pc'[s] = "setex"
      BY <2>2 DEF Take, WorkerTypeOK
    <3> QED BY <1>0, <2>2, <3>1, <3>2, PopStep
  <2> QED BY <1>4, <2>1, <2>2 DEF ZPopMin
<1>5. CASE RPop(s)
  <2>1. CASE Goto(s, "idle") /\ UNCHANGED wait
    <3>1. UNCHANGED <<wait, prioritized, active, lock>>
      BY <1>5, <2>1 DEF RPop
    <3>2. pc'[s] = "idle" /\ job'[s] \in {job[s], NoJob}
      BY <1>2, <2>1
    <3> QED BY <1>0, <1>1, <3>1, <3>2, QuietStep DEF Running, Locking, Popped, Handling
  <2>2. CASE wait # << >> /\ RPopWait /\ Take(s, WaitTail)
    <3>1. WaitTail \in Jobs /\ UNCHANGED <<prioritized, active, lock>>
      BY <1>5, <2>2, PopFacts DEF RPop, KeysTypeOK
    <3>2. pc'[s] = "setex"
      BY <2>2 DEF Take, WorkerTypeOK
    <3> QED BY <1>0, <2>2, <3>1, <3>2, PopStep
  <2> QED BY <1>5, <2>1, <2>2 DEF RPop
<1>6. CASE SetEx(s) \/ Activate(s)
  <2>1. UNCHANGED <<wait, prioritized>> /\ pc'[s] \in {"activate", "load"} /\ job'[s] = job[s]
    BY <1>2, <1>6 DEF SetEx, Activate
  <2>2. \A j \in Jobs : OneCopy(j)'
    BY <1>0, <1>1, <1>6, <2>1, HolderStep
  <2> QED BY <2>1, <2>2
<1>7. CASE LRem(s)
  <2>1. ~cfg[s].removeOnComplete /\ UNCHANGED <<wait, prioritized>>
    BY <1>0, <1>7 DEF KeepsJob, LRem
  <2>2. pc[s] # "complete" => pc[s] \in {"fail", "retry"}
    BY <1>7 DEF LRem
  <2>3. pc[s] # "complete" => After(s) \in {"failrelease", "delay"}
    BY <2>2 DEF After
  <2>4. pc'[s] \in {"returnvalue", "completed", "failrelease", "delay"} /\ job'[s] = job[s]
    BY <1>2, <1>7, <2>1, <2>3 DEF LRem, AfterReturnValue
  <2> QED BY <1>0, <1>1, <1>7, <2>1, <2>4, HolderStep
<1>8. CASE StoreResult(s)
  <2>1. After(s) \in {"completed", "idle"} /\ (After(s) = "completed" => pc[s] = "returnvalue")
    BY <1>0, <1>8 DEF StoreResult, After, AfterReturnValue, KeepsJob
  <2>2. pc'[s] = After(s) /\ job'[s] \in {job[s], NoJob} /\ UNCHANGED <<wait, prioritized, active, lock>>
    BY <1>2, <1>8 DEF StoreResult
  <2> QED BY <1>0, <1>1, <2>1, <2>2, QuietStep DEF Running, Locking, Popped, Handling
<1>9. CASE RemoveHash(s)
  BY <1>0, <1>9 DEF RemoveHash
<1>10. CASE ZAddFinished(s) \/ ZAddDelayed(s) \/ StoreAttempts(s)
  <2>1. /\ UNCHANGED <<wait, prioritized, active, lock>> /\ pc'[s] = After(s)
        /\ job'[s] \in {job[s], NoJob} /\ pc[s] \in {"completed", "failed", "delay", "attempts"}
    BY <1>2, <1>10 DEF ZAddFinished, ZAddDelayed, StoreAttempts, HSetAttempts
  <2>2. \/ pc[s] = "completed" /\ After(s) = "release"
        \/ pc[s] = "delay" /\ After(s) = "attempts"
        \/ After(s) \in {"failreason", "idle"}
    BY <2>1 DEF After
  <2> QED BY <1>0, <1>1, <2>1, <2>2, QuietStep DEF Running, Locking, Popped, Handling
<1>11. CASE Unlock(s)
  <2>1. pc[s] \in {"release", "failrelease"} /\ UNCHANGED <<wait, prioritized>>
    BY <1>0, <1>11 DEF Unlock
  <2>2. After(s) \in {"idle", "failed"}
    BY <1>0, <2>1 DEF After, AfterFailRelease, KeepsJob
  <2>3. pc'[s] = After(s) /\ job'[s] \in {job[s], NoJob} /\ (pc'[s] # "idle" => job'[s] = job[s])
    BY <1>2, <1>11 DEF Unlock
  <2> QED BY <1>0, <1>1, <1>11, <2>1, <2>2, <2>3, HolderStep
<1> QED
  BY <1>3, <1>4, <1>5, <1>6, <1>7, <1>8, <1>9, <1>10, <1>11 DEF SlotStep

\* The options in memory are those of the hash, which no step of a slot changes but by
\* deleting it.
LEMMA WorkExcludes ==
  ASSUME TypeOK, ExclusionInv, NEW s \in Slots, Work(s) PROVE ExclusionInv'
<1>1. SlotStep(s) /\ KeysTypeOK /\ WorkerTypeOK /\ UNCHANGED <<add, checkerVars>>
  BY DEF Work, TypeOK
<1>2. KeepsJob(ZeroOptions)
  BY DEF KeepsJob, ZeroOptions
<1>3. ASSUME NEW j \in Jobs PROVE KeepsJob(opts'[j])
  <2>1. opts'[j] \in {opts[j], ZeroOptions}
    BY <1>1 DEF SlotStep, Begin, ZPopMin, RPop, SetEx, Activate, Load, Succeed, ProcessorFails,
                LRem, StoreResult, HSetResult, RemoveHash, DelJob, ZAddFinished, Unlock,
                ZAddDelayed, StoreAttempts, HSetAttempts, hashes, keys, KeysTypeOK
  <2> QED BY <1>2, <2>1 DEF ExclusionInv
<1>4. ASSUME NEW t \in Slots PROVE KeepsJob(cfg'[t])
  <2>1. /\ Holds(s) \/ Forgets(s) \/ Takes(s) \/ Reads(s) \/ Counts(s)
        /\ \A u \in Slots : u # s => cfg'[u] = cfg[u]
    BY <1>1, SlotMemory
  <2>2. Reads(s) => cfg'[s] = opts[job[s]] /\ job[s] \in Jobs
    BY <1>1 DEF Reads, WorkerTypeOK
  <2> QED BY <1>2, <2>1, <2>2 DEF ExclusionInv, Holds, Forgets, Takes, Counts
<1>5. ASSUME NEW j \in Jobs PROVE OneCopy(j)'
  BY <1>1, SlotExcludes
<1>6. ASSUME NEW t \in Slots PROVE pc'[t] \notin Removing
  <2>1. \A u \in Slots : u # s => pc'[u] = pc[u]
    BY <1>1, SlotMemory
  <2> QED BY <1>1, <2>1, SlotExcludes DEF ExclusionInv
<1> QED BY <1>3, <1>4, <1>5, <1>6 DEF ExclusionInv

-----------------------------------------------------------------------------
(* Steps of the checker *)

\* A step of the only checker that leaves an id where it is: it looks at the id no more.
LEMMA QuietCheck ==
  ASSUME \A v, w \in Workers : v = w, NEW w \in Workers, NEW j \in Jobs, OneCopy(j),
         UNCHANGED <<wait, prioritized, active, lock, add, pc, job>>,
         Recovers(w, j)' => Recovers(w, j) /\ (chk'[w] \in {"zadd", "lpush"} => chk[w] \in {"zadd", "lpush"}),
         cjob'[w] \in {cjob[w], NoJob}, todo[w][j] \in Nat,
         todo'[w][j] = todo[w][j] \/ (todo'[w][j] = todo[w][j] - 1 /\ todo[w][j] > 0)
  PROVE  OneCopy(j)'
<1>1. (Queued(j)' <=> Queued(j)) /\ (InWait(j)' <=> InWait(j))
  BY DEF Queued, InWait
<1>2. \A s \in Slots : /\ Has(s, j, Popped)' <=> Has(s, j, Popped)
                       /\ Has(s, j, Locking)' <=> Has(s, j, Locking)
                       /\ Has(s, j, Running)' <=> Has(s, j, Running)
                       /\ Has(s, j, Handling)' <=> Has(s, j, Handling)
  BY DEF Has
<1>3. QueuedOnce(j)' /\ OneHolder(j)' /\ HolderLocks(j)'
  BY <1>1, <1>2 DEF OneCopy, QueuedOnce, OneHolder, HolderLocks
<1>4. RecoveredOnce(j)'
  <2>1. \A v \in Workers : v = w
    OBVIOUS
  <2>2. todo'[w][j] <= todo[w][j] /\ (todo'[w][j] > 0 => todo[w][j] > 0)
    OBVIOUS
  <2>3. /\ todo[w][j] <= 1
        /\ todo[w][j] > 0 => ~Queued(j) /\ ~Recovers(w, j) /\ \A s \in Slots : ~Has(s, j, Popped)
        /\ Recovers(w, j) => ~Queued(j) /\ \A s \in Slots : ~Has(s, j, Handling)
        /\ Recovers(w, j) /\ chk[w] \in {"zadd", "lpush"} => active[j] = 0
    BY DEF OneCopy, RecoveredOnce
  <2>4. todo'[w][j] <= 1
    BY <2>2, <2>3
  <2>5. /\ todo'[w][j] > 0 => ~Queued(j)' /\ ~Recovers(w, j)' /\ \A s \in Slots : ~Has(s, j, Popped)'
        /\ Recovers(w, j)' => ~Queued(j)' /\ \A s \in Slots : ~Has(s, j, Handling)'
        /\ Recovers(w, j)' /\ chk'[w] \in {"zadd", "lpush"} => active'[j] = 0
    BY <1>1, <1>2, <2>2, <2>3
  <2> QED BY <2>1, <2>4, <2>5 DEF RecoveredOnce
<1>5. NotYetAdded(j)'
  <2>1. \A v \in Workers : v = w
    OBVIOUS
  <2> QED BY <1>1, <2>1 DEF OneCopy, NotYetAdded
<1> QED BY <1>3, <1>4, <1>5 DEF OneCopy

\* Every step of the checker keeps every id in one place: an id without a lock that a scan
\* read is in no slot's hands, and nobody else brings it to them.
LEMMA CheckExcludes ==
  ASSUME KeysTypeOK, CheckerTypeOK, \A v, w \in Workers : v = w, \A j \in Jobs : OneCopy(j),
         NEW w \in Workers, CheckerStep(w), UNCHANGED <<add, pc, job>>, NEW j \in Jobs
  PROVE  OneCopy(j)'
<1> USE DEF pending, finished, hashes, keys
<1>0. /\ OneCopy(j) /\ (\A v \in Workers : v = w) /\ todo[w] \in [Jobs -> Nat]
      /\ lock \in [Jobs -> Slots \cup {NoLock}] /\ active \in [Jobs -> Nat] /\ todo[w][j] \in Nat
  BY DEF CheckerTypeOK, KeysTypeOK
<1>a. \A s \in Slots : /\ Has(s, j, Popped)' <=> Has(s, j, Popped)
                       /\ Has(s, j, Locking)' <=> Has(s, j, Locking)
                       /\ Has(s, j, Running)' <=> Has(s, j, Running)
                       /\ Has(s, j, Handling)' <=> Has(s, j, Handling)
  BY DEF Has
<1>1. ASSUME NEW k \in Jobs
      PROVE  Rest(w, k)[j] = (IF j = k THEN todo[w][j] - 1 ELSE todo[w][j])
  BY <1>0 DEF Rest
<1>2. ASSUME NEW rest, GoOn(w, rest)
      PROVE  chk'[w] \in {"off", "exists"} /\ todo'[w] = rest /\ cjob'[w] = NoJob
  BY <1>2 DEF GoOn, CheckerTypeOK
<1>3. ASSUME NEW label, label # "exists", Advance(w, label)
      PROVE  chk'[w] = label /\ UNCHANGED <<todo, cjob>>
  BY <1>3 DEF Advance, CheckerTypeOK
<1>4. CASE Exists(w)
  <2>1. UNCHANGED <<wait, prioritized, active, lock>>
    BY <1>4 DEF Exists
  <2>2. PICK k \in Jobs :
          /\ todo[w][k] > 0
          /\ \/ GoOn(w, Rest(w, k))
             \/ /\ lock[k] = NoLock
                /\ chk' = [chk EXCEPT ![w] = "load"]
                /\ todo' = [todo EXCEPT ![w] = Rest(w, k)]
                /\ cjob' = [cjob EXCEPT ![w] = k]
    BY <1>4 DEF Exists
  <2>3. CASE GoOn(w, Rest(w, k))
    <3>1. ~Recovers(w, j)' /\ cjob'[w] = NoJob
      BY <1>2, <2>3 DEF Recovers
    <3>2. todo'[w][j] = todo[w][j] \/ (todo'[w][j] = todo[w][j] - 1 /\ todo[w][j] > 0)
      <4>1. todo'[w] = Rest(w, k) /\ todo[w][k] > 0
        BY <1>2, <2>2, <2>3
      <4>2. Rest(w, k)[j] = (IF j = k THEN todo[w][j] - 1 ELSE todo[w][j])
        BY <1>1
      <4> QED BY <4>1, <4>2
    <3> QED BY <1>0, <2>1, <3>1, <3>2, QuietCheck
  <2>4. CASE /\ lock[k] = NoLock
             /\ chk' = [chk EXCEPT ![w] = "load"]
             /\ todo' = [todo EXCEPT ![w] = Rest(w, k)]
             /\ cjob' = [cjob EXCEPT ![w] = k]
    <3>1. chk'[w] = "load" /\ todo'[w] = Rest(w, k) /\ cjob'[w] = k
      BY <2>4 DEF CheckerTypeOK
    <3>2. (Queued(j)' <=> Queued(j)) /\ (InWait(j)' <=> InWait(j))
      BY <2>1 DEF Queued, InWait
    <3>4. QueuedOnce(j)' /\ OneHolder(j)' /\ HolderLocks(j)'
      BY <1>0, <2>1, <3>2, <1>a DEF OneCopy, QueuedOnce, OneHolder, HolderLocks
    <3>5. CASE j # k
      <4>1. ~Recovers(w, j)' /\ cjob'[w] # j /\ todo'[w][j] = todo[w][j]
        BY <1>1, <3>1, <3>5 DEF Recovers
      <4>2. RecoveredOnce(j)' /\ NotYetAdded(j)'
        <5>1. todo[w][j] > 0 => ~Queued(j) /\ \A s \in Slots : ~Has(s, j, Popped)
          BY <1>0 DEF OneCopy, RecoveredOnce
        <5>2. todo[w][j] <= 1
          BY <1>0 DEF OneCopy, RecoveredOnce
        <5>3. RecoveredOnce(j)'
          BY <1>0, <3>2, <1>a, <4>1, <5>1, <5>2 DEF RecoveredOnce
        <5>4. NotYetAdded(j)'
          BY <1>0, <2>1, <3>2, <4>1 DEF OneCopy, NotYetAdded
        <5> QED BY <5>3, <5>4
      <4> QED BY <3>4, <4>2 DEF OneCopy
    <3>6. CASE j = k
      <4>1. /\ todo[w][j] = 1 /\ ~Queued(j) /\ (\A s \in Slots : ~Has(s, j, Popped))
            /\ add[j] = "added"
        BY <1>0, <2>2, <3>6 DEF OneCopy, RecoveredOnce, NotYetAdded
      <4>2. \A s \in Slots : ~Has(s, j, Locking)
        BY <1>0, <2>4, <3>6 DEF OneCopy, HolderLocks
      <4>3. \A s \in Slots : ~Has(s, j, Handling)
        BY <4>1, <4>2 DEF Has, Handling
      <4>4. todo'[w][j] = 0
        BY <1>1, <3>1, <3>6, <4>1
      <4>5. RecoveredOnce(j)'
        <5>1. \A s \in Slots : ~Has(s, j, Handling)'
          BY <1>a, <4>3
        <5>2. chk'[w] \notin {"zadd", "lpush"} /\ todo'[w][j] <= 1 /\ ~(todo'[w][j] > 0) /\ ~Queued(j)'
          BY <3>1, <3>2, <4>1, <4>4
        <5> QED BY <1>0, <5>1, <5>2 DEF RecoveredOnce
      <4>6. NotYetAdded(j)'
        BY <4>1 DEF NotYetAdded
      <4> QED BY <3>4, <4>5, <4>6 DEF OneCopy
    <3> QED BY <3>5, <3>6
  <2> QED BY <2>2, <2>3, <2>4
<1>5. CASE LoadStalled(w)
  <2>1. /\ UNCHANGED <<wait, prioritized, active, lock, todo, cjob>> /\ chk[w] = "load"
        /\ chk'[w] = "lrem"
    BY <1>5 DEF LoadStalled, CheckerTypeOK
  <2> QED BY <1>0, <2>1, QuietCheck DEF Recovers
<1>6. CASE FailStalled(w)
  <2>1. /\ UNCHANGED <<wait, prioritized, active, lock>> /\ chk[w] = "zadd" /\ Advance(w, "reason")
    BY <1>6 DEF FailStalled, Then
  <2>2. chk'[w] = "reason" /\ UNCHANGED <<todo, cjob>>
    BY <1>3, <2>1
  <2> QED BY <1>0, <2>1, <2>2, QuietCheck DEF Recovers
<1>7. CASE StoreReason(w) \/ StoreRecovery(w)
  <2>1. UNCHANGED <<wait, prioritized, active, lock>> /\ GoOn(w, todo[w])
    BY <1>7 DEF StoreReason, StoreRecovery, Then, Advance
  <2>2. ~Recovers(w, j)' /\ cjob'[w] = NoJob /\ todo'[w] = todo[w]
    BY <1>2, <2>1 DEF Recovers
  <2> QED BY <1>0, <2>1, <2>2, QuietCheck
<1>8. CASE LRemStalled(w)
  <2>1. /\ UNCHANGED <<wait, prioritized, lock>> /\ chk[w] = "lrem" /\ cjob[w] \in Jobs
        /\ Advance(w, AfterLRem(w)) /\ AfterLRem(w) \in {"zadd", "lpush"}
    BY <1>8 DEF LRemStalled, Then, AfterLRem, CheckerTypeOK
  <2>2. chk'[w] \in {"zadd", "lpush"} /\ UNCHANGED <<todo, cjob>>
    BY <1>3, <2>1
  <2>3. active'[j] = IF j = cjob[w] /\ active[j] > 0 THEN active[j] - 1 ELSE active[j]
    BY <1>0, <1>8 DEF LRemStalled, LRemActive
  <2>4. (Queued(j)' <=> Queued(j)) /\ (InWait(j)' <=> InWait(j)) /\ (Recovers(w, j)' <=> Recovers(w, j))
    BY <2>1, <2>2 DEF Queued, InWait, Recovers
  <2>6. active[j] \in Nat /\ active[j] <= 1
    BY <1>0 DEF OneCopy, HolderLocks
  <2>7. CASE j # cjob[w]
    <3>1. active'[j] = active[j] /\ ~Recovers(w, j)
      BY <2>3, <2>7 DEF Recovers
    <3>2. QueuedOnce(j)' /\ OneHolder(j)' /\ HolderLocks(j)'
      BY <1>0, <2>1, <2>4, <1>a, <3>1 DEF OneCopy, QueuedOnce, OneHolder, HolderLocks
    <3>3. RecoveredOnce(j)' /\ NotYetAdded(j)'
      BY <1>0, <2>2, <2>4, <1>a, <3>1 DEF OneCopy, RecoveredOnce, NotYetAdded
    <3> QED BY <3>2, <3>3 DEF OneCopy
  <2>8. CASE j = cjob[w]
    <3>1. Recovers(w, j) /\ active'[j] = 0 /\ add[j] = "added"
      BY <1>0, <2>1, <2>3, <2>6, <2>8 DEF Recovers, OneCopy, NotYetAdded
    <3>2. ~Queued(j) /\ todo[w][j] <= 1 /\ ~(todo[w][j] > 0) /\ \A s \in Slots : ~Has(s, j, Handling)
      BY <1>0, <3>1 DEF OneCopy, RecoveredOnce
    <3>3. \A s \in Slots : ~Has(s, j, Popped)' /\ ~Has(s, j, Locking)' /\ ~Has(s, j, Running)'
                           /\ ~Has(s, j, Handling)'
      BY <1>a, <3>2 DEF Has, Popped, Locking, Handling
    <3>4. QueuedOnce(j)' /\ OneHolder(j)' /\ HolderLocks(j)'
      BY <1>0, <2>1, <2>4, <3>1, <3>2, <3>3 DEF OneCopy, QueuedOnce, OneHolder, HolderLocks
    <3>5. RecoveredOnce(j)' /\ NotYetAdded(j)'
      BY <1>0, <2>2, <2>4, <3>1, <3>2, <3>3 DEF RecoveredOnce, NotYetAdded
    <3> QED BY <3>4, <3>5 DEF OneCopy
  <2> QED BY <2>7, <2>8
<1>9. CASE Requeue(w)
  <2>1. /\ UNCHANGED <<prioritized, active, lock>> /\ chk[w] = "lpush" /\ Advance(w, "attempts")
        /\ cjob[w] \in Jobs /\ LPushWait(cjob[w]) /\ wait \in Seq(Jobs)
    BY <1>9 DEF Requeue, Then, CheckerTypeOK, KeysTypeOK
  <2>2. chk'[w] = "attempts" /\ UNCHANGED <<todo, cjob>>
    BY <1>3, <2>1
  <2>3. PICK k \in Jobs : k = cjob[w] /\ LPushWait(k)
    BY <2>1
  <2>4. /\ ~Queued(k) /\ active[k] = 0 /\ add[k] = "added" /\ todo[w][k] <= 1 /\ ~(todo[w][k] > 0)
        /\ \A s \in Slots : ~Has(s, k, Handling)
    <3>1. Recovers(w, k) /\ chk[w] \in {"zadd", "lpush"} /\ OneCopy(k)
      BY <2>1, <2>3 DEF Recovers
    <3> QED BY <3>1, <2>3 DEF OneCopy, RecoveredOnce, NotYetAdded
  <2>5. /\ Len(wait) \in Nat /\ Len(wait') = Len(wait) + 1 /\ wait'[1] = k
        /\ \A i \in 2..Len(wait') : i - 1 \in 1..Len(wait) /\ wait'[i] = wait[i - 1]
    BY <2>1, <2>3, PushShift
  <2>6. \A i, m \in 1..Len(wait') : wait'[i] = j /\ wait'[m] = j => i = m
    <3>1. ASSUME NEW i \in 1..Len(wait'), NEW m \in 1..Len(wait'), wait'[i] = j, wait'[m] = j PROVE i = m
      <4>1. \A n \in 1..Len(wait') : n = 1 \/ n \in 2..Len(wait')
        BY <2>5
      <4>2. ASSUME NEW n \in 2..Len(wait'), wait'[n] = j PROVE InWait(j) /\ j # k
        BY <2>4, <2>5, <4>2 DEF InWait, Queued
      <4>3. CASE i = 1 \/ m = 1
        BY <2>5, <3>1, <4>1, <4>2, <4>3
      <4>4. CASE i # 1 /\ m # 1
        <5>1. i - 1 \in 1..Len(wait) /\ m - 1 \in 1..Len(wait) /\ wait[i - 1] = j /\ wait[m - 1] = j
          BY <2>5, <3>1, <4>1, <4>4
        <5>2. i - 1 = m - 1
          BY <1>0, <5>1 DEF OneCopy, QueuedOnce
        <5> QED BY <5>2
      <4> QED BY <4>3, <4>4
    <3> QED BY <3>1
  <2>7. InWait(j)' => j = k \/ InWait(j)
    BY <2>1, <2>3, PushOnly
  <2>9. ~Recovers(w, j)'
    BY <2>2 DEF Recovers
  <2>10. HolderLocks(j)' /\ OneHolder(j)'
    BY <1>0, <2>1, <1>a DEF OneCopy, HolderLocks, OneHolder
  <2>11. CASE j = k
    <3>1. \A s \in Slots : ~Has(s, j, Popped)' /\ ~Has(s, j, Handling)'
      BY <2>4, <1>a, <2>11 DEF Has, Handling
    <3>2. QueuedOnce(j)'
      BY <2>1, <2>4, <2>6, <2>11, <3>1 DEF QueuedOnce, Queued
    <3>3. RecoveredOnce(j)' /\ NotYetAdded(j)'
      BY <1>0, <2>2, <2>4, <2>9, <2>11 DEF RecoveredOnce, NotYetAdded
    <3> QED BY <2>10, <3>2, <3>3 DEF OneCopy
  <2>12. CASE j # k
    <3>1. Queued(j)' => Queued(j)
      BY <2>1, <2>7, <2>12 DEF Queued
    <3>2. QueuedOnce(j)'
      BY <1>0, <2>1, <2>6, <2>7, <1>a, <2>12, <3>1 DEF OneCopy, QueuedOnce
    <3>3. RecoveredOnce(j)'
      BY <1>0, <2>2, <1>a, <2>9, <3>1 DEF OneCopy, RecoveredOnce
    <3>4. NotYetAdded(j)'
      BY <1>0, <2>1, <2>2, <3>1 DEF OneCopy, NotYetAdded
    <3> QED BY <2>10, <3>2, <3>3, <3>4 DEF OneCopy
  <2> QED BY <2>11, <2>12
<1> QED BY <1>4, <1>5, <1>6, <1>7, <1>8, <1>9 DEF CheckerStep

\* A step of the checker keeps the invariant.
LEMMA ScanStepExcludes ==
  ASSUME TypeOK, ExclusionInv, Careful, NEW w \in Workers, Check(w) PROVE ExclusionInv'
<1>1. /\ CheckerStep(w) /\ KeysTypeOK /\ CheckerTypeOK /\ UNCHANGED <<add, pc, job, cfg>>
      /\ \A u, v \in Workers : u = v
  BY DEF Check, TypeOK, slotVars, Careful
<1>2. \A j \in Jobs : OneCopy(j)'
  BY <1>1, CheckExcludes DEF ExclusionInv
<1>3. UNCHANGED opts
  BY <1>1 DEF CheckerStep, Exists, LoadStalled, LRemStalled, FailStalled, StoreReason, HSetResult,
              Requeue, StoreRecovery, HSetAttempts, hashes, keys
<1> QED BY <1>1, <1>2, <1>3 DEF ExclusionInv

\* A scan reads ids whose slot, if any, has them in `active`.
LEMMA StartScanExcludes ==
  ASSUME TypeOK, ExclusionInv, Careful, NEW w \in Workers, StartScan(w) PROVE ExclusionInv'
<1>1. /\ CheckerTypeOK /\ KeysTypeOK /\ UNCHANGED <<keys, add, slotVars, cjob>>
      /\ chk'[w] = "exists" /\ todo'[w] = active /\ \A v \in Workers : v = w
  BY DEF TypeOK, StartScan, Scan, Careful, CheckerTypeOK
<1>2. ASSUME NEW j \in Jobs PROVE OneCopy(j)'
  <2>1. (Queued(j)' <=> Queued(j)) /\ (InWait(j)' <=> InWait(j)) /\ ~Recovers(w, j)'
    BY <1>1 DEF Queued, InWait, Recovers, keys
  <2>2. \A s \in Slots : /\ Has(s, j, Popped)' <=> Has(s, j, Popped)
                         /\ Has(s, j, Locking)' <=> Has(s, j, Locking)
                         /\ Has(s, j, Running)' <=> Has(s, j, Running)
                         /\ Has(s, j, Handling)' <=> Has(s, j, Handling)
    BY <1>1 DEF Has, slotVars
  <2>3. OneCopy(j) /\ active[j] \in Nat
    BY <1>1 DEF ExclusionInv, KeysTypeOK
  <2>4. QueuedOnce(j)' /\ OneHolder(j)' /\ HolderLocks(j)'
    BY <1>1, <2>1, <2>2, <2>3 DEF OneCopy, QueuedOnce, OneHolder, HolderLocks, keys
  <2>5. active[j] <= 1 /\ (active[j] > 0 => ~Queued(j) /\ \A s \in Slots : ~Has(s, j, Popped))
    BY <2>3 DEF OneCopy, QueuedOnce, HolderLocks
  <2>6. RecoveredOnce(j)'
    BY <1>1, <2>1, <2>2, <2>5 DEF RecoveredOnce
  <2>7. NotYetAdded(j)'
    BY <1>1, <2>1, <2>3 DEF OneCopy, NotYetAdded, keys, slotVars
  <2> QED BY <2>4, <2>6, <2>7 DEF OneCopy
<1> QED BY <1>1, <1>2 DEF ExclusionInv, keys, slotVars

\* The only process dies: its slots hold nothing, and what it left in `active` a scan of the
\* next one finds.
LEMMA CrashExcludes ==
  ASSUME TypeOK, ExclusionInv, Careful, NEW w \in Workers, Crash(w) PROVE ExclusionInv'
<1>1. /\ UNCHANGED <<keys, add>> /\ \A v \in Workers : v = w
      /\ \A s \in Slots : pc'[s] = "idle" /\ job'[s] = NoJob /\ cfg'[s] = ZeroOptions
      /\ chk'[w] = "off" /\ todo'[w] = Nobody /\ cjob'[w] = NoJob
  BY DEF TypeOK, Crash, GoOn, CheckerTypeOK, Careful
<1>2. ASSUME NEW j \in Jobs PROVE OneCopy(j)'
  <2>1. /\ (Queued(j)' <=> Queued(j)) /\ (InWait(j)' <=> InWait(j)) /\ ~Recovers(w, j)'
        /\ todo'[w][j] = 0 /\ OneCopy(j)
    BY <1>1 DEF Queued, InWait, Recovers, keys, Nobody, ExclusionInv
  <2>2. \A s \in Slots : ~Has(s, j, Popped)' /\ ~Has(s, j, Locking)' /\ ~Has(s, j, Running)'
                         /\ ~Has(s, j, Handling)'
    BY <1>1 DEF Has
  <2>3. QueuedOnce(j)' /\ OneHolder(j)' /\ HolderLocks(j)'
    BY <1>1, <2>1, <2>2 DEF OneCopy, QueuedOnce, OneHolder, HolderLocks, keys
  <2>4. RecoveredOnce(j)'
    BY <1>1, <2>1 DEF RecoveredOnce
  <2>5. NotYetAdded(j)'
    BY <1>1, <2>1 DEF OneCopy, NotYetAdded, keys
  <2> QED BY <2>3, <2>4, <2>5 DEF OneCopy
<1>3. KeepsJob(ZeroOptions)
  BY DEF KeepsJob, ZeroOptions
<1> QED BY <1>1, <1>2, <1>3 DEF ExclusionInv, keys, Removing

\* Add queues an id that is nowhere.
LEMMA AddExcludes ==
  ASSUME TypeOK, ExclusionInv, Careful, NEW k \in Jobs, Add(k) PROVE ExclusionInv'
<1>1. /\ KeysTypeOK /\ ProducerTypeOK /\ CheckerTypeOK
      /\ UNCHANGED <<pc, job, cfg, chk, todo, cjob, active, lock>>
  BY DEF TypeOK, Add, StoreJobHash, EnqueueJob, slotVars, checkerVars
<1>2. \A j \in Jobs : OneCopy(j)
  BY DEF ExclusionInv
<1>3. ASSUME NEW j \in Jobs
      PROVE  /\ \A w \in Workers : Recovers(w, j)' <=> Recovers(w, j)
             /\ \A s \in Slots : /\ Has(s, j, Popped)' <=> Has(s, j, Popped)
                                 /\ Has(s, j, Locking)' <=> Has(s, j, Locking)
                                 /\ Has(s, j, Running)' <=> Has(s, j, Running)
                                 /\ Has(s, j, Handling)' <=> Has(s, j, Handling)
  BY <1>1 DEF Recovers, Has
<1>4. ASSUME NEW j \in Jobs, (Queued(j)' <=> Queued(j)), (InWait(j)' <=> InWait(j)),
             j \in prioritized' => j \in prioritized,
             add'[j] # "added" => add[j] # "added",
             \A i, m \in 1..Len(wait') : wait'[i] = j /\ wait'[m] = j => i = m
      PROVE  OneCopy(j)'
  <2>1. QueuedOnce(j)' /\ OneHolder(j)' /\ HolderLocks(j)'
    BY <1>1, <1>2, <1>3, <1>4 DEF OneCopy, QueuedOnce, OneHolder, HolderLocks
  <2>2. RecoveredOnce(j)'
    BY <1>1, <1>2, <1>3, <1>4 DEF OneCopy, RecoveredOnce
  <2>3. NotYetAdded(j)'
    BY <1>1, <1>2, <1>3, <1>4 DEF OneCopy, NotYetAdded
  <2> QED BY <2>1, <2>2, <2>3 DEF OneCopy
<1>5. CASE StoreJobHash(k)
  <2>1. UNCHANGED <<wait, prioritized>> /\ add' = [add EXCEPT ![k] = "stored"] /\ add[k] = "new"
    BY <1>5 DEF StoreJobHash, pending
  <2>2. ASSUME NEW j \in Jobs PROVE OneCopy(j)'
    <3>1. (Queued(j)' <=> Queued(j)) /\ (InWait(j)' <=> InWait(j))
      BY <2>1 DEF Queued, InWait
    <3>2. add'[j] # "added" => add[j] # "added"
      BY <1>1, <2>1 DEF ProducerTypeOK
    <3>3. \A i, m \in 1..Len(wait') : wait'[i] = j /\ wait'[m] = j => i = m
      BY <1>2, <2>1 DEF OneCopy, QueuedOnce
    <3> QED BY <1>4, <2>1, <3>1, <3>2, <3>3
  <2>3. ASSUME NEW j \in Jobs PROVE KeepsJob(opts'[j])
    <3>1. PICK o \in JobOptions : opts' = [opts EXCEPT ![k] = WithDefaults(o)]
      BY <1>5 DEF StoreJobHash
    <3>2. KeepsJob(WithDefaults(o))
      <4>1. o \in OptionsType /\ KeepsJob(o)
        BY DEF Careful
      <4> QED BY <4>1 DEF KeepsJob, WithDefaults, OptionsType
    <3> QED BY <1>1, <3>1, <3>2 DEF ExclusionInv, KeysTypeOK
  <2> QED BY <1>1, <2>2, <2>3 DEF ExclusionInv
<1>6. CASE EnqueueJob(k)
  <2>1. /\ add[k] = "stored" /\ add' = [add EXCEPT ![k] = "added"] /\ UNCHANGED opts
        /\ \/ UNCHANGED <<wait, prioritized>>
           \/ prioritized' = prioritized \cup {k} /\ UNCHANGED wait
           \/ LPushWait(k) /\ UNCHANGED prioritized
    BY <1>6 DEF EnqueueJob, hashes
  <2>2. /\ ~Queued(k) /\ active[k] = 0 /\ (\A s \in Slots : job[s] # k)
        /\ \A w \in Workers : cjob[w] # k /\ todo[w][k] = 0
    BY <1>2, <2>1 DEF OneCopy, NotYetAdded
  <2>3. /\ \A j \in Jobs : j # k => add'[j] = add[j] /\ (InWait(j)' => InWait(j))
        /\ \A j \in Jobs : InWait(j) => InWait(j)'
        /\ add'[k] = "added"
    <3>1. CASE UNCHANGED wait
      BY <1>1, <2>1, <3>1 DEF InWait, ProducerTypeOK
    <3>2. CASE LPushWait(k)
      BY <1>1, <2>1, <3>2, PushFacts, PushOnly DEF KeysTypeOK, ProducerTypeOK
    <3> QED BY <2>1, <3>1, <3>2
  <2>4. ASSUME NEW j \in Jobs, NEW i \in 1..Len(wait'), NEW m \in 1..Len(wait'), wait'[i] = j, wait'[m] = j
        PROVE  i = m
    <3>1. CASE UNCHANGED wait
      BY <1>2, <2>4, <3>1 DEF OneCopy, QueuedOnce
    <3>2. CASE LPushWait(k)
      <4>1. /\ Len(wait) \in Nat /\ Len(wait') = Len(wait) + 1 /\ wait'[1] = k
            /\ \A n \in 2..Len(wait') : n - 1 \in 1..Len(wait) /\ wait'[n] = wait[n - 1]
        BY <1>1, <3>2, PushShift DEF KeysTypeOK
      <4>2. \A n \in 1..Len(wait') : n = 1 \/ n \in 2..Len(wait')
        BY <4>1
      <4>3. \A n \in 2..Len(wait') : wait'[n] # k
        BY <2>2, <4>1 DEF Queued, InWait
      <4>4. CASE i = 1 \/ m = 1
        BY <2>4, <4>1, <4>2, <4>3, <4>4
      <4>5. CASE i # 1 /\ m # 1
        <5>1. /\ i - 1 \in 1..Len(wait) /\ m - 1 \in 1..Len(wait)
              /\ wait[i - 1] = j /\ wait[m - 1] = j
          BY <2>4, <4>1, <4>2, <4>5
        <5>2. i - 1 = m - 1
          BY <1>2, <5>1 DEF OneCopy, QueuedOnce
        <5> QED BY <5>2
      <4> QED BY <4>4, <4>5
    <3> QED BY <2>1, <3>1, <3>2
  <2>5. ASSUME NEW j \in Jobs, j # k PROVE OneCopy(j)'
    <3>1. (InWait(j)' <=> InWait(j)) /\ (j \in prioritized' <=> j \in prioritized) /\ add'[j] = add[j]
      BY <2>1, <2>3, <2>5
    <3> QED BY <1>4, <2>4, <3>1 DEF Queued
  <2>6. OneCopy(k)'
    <3>1. \A s \in Slots : ~Has(s, k, Handling)' /\ ~Has(s, k, Locking)' /\ ~Has(s, k, Running)'
                           /\ ~Has(s, k, Popped)'
      BY <1>1, <2>2 DEF Has
    <3>2. \A w \in Workers : ~Recovers(w, k)' /\ todo'[w][k] = 0
      BY <1>1, <2>2 DEF Recovers
    <3>3. InWait(k)' => k \notin prioritized'
      BY <2>1, <2>2 DEF Queued, InWait
    <3>4. QueuedOnce(k)' /\ OneHolder(k)' /\ HolderLocks(k)'
      BY <1>1, <2>2, <2>4, <3>1, <3>3 DEF QueuedOnce, OneHolder, HolderLocks
    <3>5. RecoveredOnce(k)' /\ NotYetAdded(k)'
      BY <2>3, <3>2 DEF RecoveredOnce, NotYetAdded
    <3> QED BY <3>4, <3>5 DEF OneCopy
  <2> QED BY <1>1, <2>1, <2>5, <2>6 DEF ExclusionInv
<1> QED BY <1>5, <1>6 DEF Add

\* A lock that lapses is not that of a slot which still has the job.
LEMMA LapseExcludes ==
  ASSUME TypeOK, ExclusionInv, Careful, NEW k \in Jobs, LockExpires(k) PROVE ExclusionInv'
<1>1. /\ UNCHANGED <<wait, prioritized, active, opts, add, pc, job, cfg, chk, todo, cjob>>
      /\ job[lock[k]] # k /\ lock' = [lock EXCEPT ![k] = NoLock]
      /\ lock \in [Jobs -> Slots \cup {NoLock}]
  BY DEF LockExpires, DelLock, Careful, pending, hashes, slotVars, checkerVars, TypeOK, KeysTypeOK
<1>2. ASSUME NEW j \in Jobs PROVE OneCopy(j)'
  <2>1. /\ (Queued(j)' <=> Queued(j)) /\ (InWait(j)' <=> InWait(j)) /\ OneCopy(j)
        /\ \A w \in Workers : Recovers(w, j)' <=> Recovers(w, j)
    BY <1>1 DEF Queued, InWait, Recovers, ExclusionInv
  <2>2. \A s \in Slots : /\ Has(s, j, Popped)' <=> Has(s, j, Popped)
                         /\ Has(s, j, Locking)' <=> Has(s, j, Locking)
                         /\ Has(s, j, Running)' <=> Has(s, j, Running)
                         /\ Has(s, j, Handling)' <=> Has(s, j, Handling)
    BY <1>1 DEF Has
  <2>3. ASSUME NEW s \in Slots, Has(s, j, Locking) PROVE lock'[j] = s
    <3>1. lock[j] = s /\ job[s] = j
      BY <2>1, <2>3 DEF OneCopy, HolderLocks, Has
    <3> QED BY <1>1, <3>1
  <2>4. QueuedOnce(j)' /\ OneHolder(j)' /\ HolderLocks(j)'
    BY <1>1, <2>1, <2>2, <2>3 DEF OneCopy, QueuedOnce, OneHolder, HolderLocks
  <2>5. RecoveredOnce(j)' /\ NotYetAdded(j)'
    BY <1>1, <2>1, <2>2 DEF OneCopy, RecoveredOnce, NotYetAdded
  <2> QED BY <2>4, <2>5 DEF OneCopy
<1> QED BY <1>1, <1>2 DEF ExclusionInv

\* The invariant survives every step.
LEMMA ExclusionStep ==
  ASSUME Careful PROVE TypeOK /\ ExclusionInv /\ [Next]_vars => ExclusionInv'
<1> SUFFICES ASSUME TypeOK, ExclusionInv, [Next]_vars PROVE ExclusionInv'
  OBVIOUS
<1>1. ~Spend("fault")
  <2>1. spent["fault"] \in Nat /\ Limits["fault"] = 0 /\ Unlimited # 0
    BY DEF TypeOK, Kinds, Careful
  <2> QED BY <2>1 DEF Spend
<1>2. ASSUME PauseQueue \/ ResumeQueue \/ UNCHANGED vars PROVE ExclusionInv'
  <2>1. UNCHANGED <<wait, prioritized, active, lock, opts, add, pc, job, cfg, chk, todo, cjob>>
    BY <1>2 DEF PauseQueue, Pause, ResumeQueue, Resume, vars, keys, pending, hashes, slotVars, checkerVars
  <2>2. ASSUME NEW j \in Jobs, OneCopy(j) PROVE OneCopy(j)'
    BY <2>1, <2>2 DEF OneCopy, QueuedOnce, OneHolder, HolderLocks, RecoveredOnce, NotYetAdded,
                      Queued, InWait, Has, Recovers
  <2> QED BY <2>1, <2>2 DEF ExclusionInv
<1>3. ASSUME NEW j \in Jobs, AddFails(j) PROVE FALSE
  BY <1>1, <1>3 DEF AddFails
<1>4. ASSUME NEW s \in Slots, WorkFails(s) PROVE FALSE
  BY <1>1, <1>4 DEF WorkFails
<1>5. ASSUME NEW w \in Workers, CheckFails(w) PROVE FALSE
  BY <1>1, <1>5 DEF CheckFails
<1> QED
  BY <1>2, <1>3, <1>4, <1>5, AddExcludes, LapseExcludes, WorkExcludes, StartScanExcludes,
     ScanStepExcludes, CrashExcludes DEF Next

\* In the initial state no id is anywhere.
LEMMA ExclusionStart == Init => ExclusionInv
<1> SUFFICES ASSUME Init PROVE ExclusionInv
  OBVIOUS
<1>1. /\ \A s \in Slots : pc[s] = "idle" /\ job[s] = NoJob /\ cfg[s] = ZeroOptions
      /\ \A w \in Workers : chk[w] = "off" /\ cjob[w] = NoJob /\ todo[w] = Nobody
  BY DEF Init, WorkerInit, CheckerInit
<1>2. ASSUME NEW j \in Jobs
      PROVE  wait = << >> /\ prioritized = {} /\ active[j] = 0 /\ opts[j] = ZeroOptions
  BY DEF Init, KeysInit
<1>3. ASSUME NEW j \in Jobs PROVE OneCopy(j)
  <2>1. ~Queued(j) /\ ~InWait(j)
    BY <1>2 DEF Queued, InWait
  <2>2. \A s \in Slots : ~Has(s, j, Handling) /\ ~Has(s, j, Locking) /\ ~Has(s, j, Running) /\ ~Has(s, j, Popped)
    BY <1>1 DEF Has
  <2>3. \A w \in Workers : ~Recovers(w, j) /\ cjob[w] # j /\ todo[w][j] = 0
    BY <1>1 DEF Recovers, Nobody
  <2>4. \A s \in Slots : job[s] # j
    BY <1>1
  <2>5. QueuedOnce(j)
    BY <1>2, <2>1 DEF QueuedOnce
  <2>6. OneHolder(j) /\ HolderLocks(j)
    BY <1>2, <2>2 DEF OneHolder, HolderLocks
  <2>7. RecoveredOnce(j) /\ NotYetAdded(j)
    BY <1>2, <2>1, <2>3, <2>4 DEF RecoveredOnce, NotYetAdded
  <2> QED BY <2>5, <2>6, <2>7 DEF OneCopy
<1> QED BY <1>1, <1>2, <1>3 DEF ExclusionInv, KeepsJob, ZeroOptions, Removing

\* With one worker whose heartbeats keep up, whatever it crashes, pauses and requeues, no two
\* of its slots run the processor on one job.
THEOREM NeverTwice == ASSUME Careful PROVE Spec => []Exclusive
<1>1. TypeOK /\ ExclusionInv => Exclusive
  <2>1. ASSUME TypeOK, ExclusionInv, NEW s \in Slots, NEW t \in Slots, pc[s] = "work", pc[t] = "work",
               job[s] = job[t]
        PROVE  s = t
    <3>1. PICK j \in Jobs : job[s] = j /\ job[t] = j
      BY <2>1 DEF TypeOK, WorkerTypeOK
    <3>2. Has(s, j, Handling) /\ Has(t, j, Handling)
      BY <2>1, <3>1 DEF Has, Handling, Locking, Running
    <3> QED BY <2>1, <3>2 DEF ExclusionInv, OneCopy, OneHolder
  <2> QED BY <2>1 DEF Exclusive
<1> QED BY <1>1, ExclusionStart, ExclusionStep, TypeCorrect, PTL DEF Spec

\* Under the same conditions a job that is being worked on is in `active`, once, under the
\* lock of its own slot: no late DEL of another slot takes the lock away.
THEOREM LockHeldWhileWorking == ASSUME Careful PROVE Spec => []LockCoversWork
<1>1. TypeOK /\ ExclusionInv => LockCoversWork
  <2>1. ASSUME TypeOK, ExclusionInv, NEW s \in Slots, pc[s] = "work"
        PROVE  lock[job[s]] = s /\ active[job[s]] = 1
    <3>1. PICK j \in Jobs : job[s] = j
      BY <2>1 DEF TypeOK, WorkerTypeOK
    <3>2. Has(s, j, Locking) /\ Has(s, j, Running)
      BY <2>1, <3>1 DEF Has, Locking, Running
    <3> QED BY <2>1, <3>1, <3>2 DEF ExclusionInv, OneCopy, HolderLocks
  <2> QED BY <2>1 DEF LockCoversWork
<1> QED BY <1>1, ExclusionStart, ExclusionStep, TypeCorrect, PTL DEF Spec
=============================================================================
