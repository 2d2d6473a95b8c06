-------------------------- MODULE SharedQueueProofs --------------------------
(***************************************************************************)
(* Proofs about SharedQueue, for any jobs, slots, options, retention rules,*)
(* concurrency and number of failures.                                     *)
(*                                                                         *)
(* Inv is inductive.  OnePlace needs LockedActive, because moveToFinished  *)
(* and retryJob take their job out of active only if its lock is theirs.   *)
(* LockedActive needs that a stalled check marks active ids only and that  *)
(* whatever takes an id out of active takes its lock and mark along.       *)
(* HashKept: the hash of a job that is stored and not yet queued stays.    *)
(* SlotInv: a slot at work has the lock of its job or is late              *)
(* (HeldLocked); one that repeats a call has lost the lock by the first    *)
(* (AgainUnlocked); what was handed out or renewed since the last check    *)
(* bears no mark of it (FreshUnmarked).  ActiveBounded and CountsCover     *)
(* have proofs of their own from Inv.                                      *)
(*                                                                         *)
(* The proof of a step goes by what it does to the seven keys: the effect  *)
(* of a script on lists and sets is put into an operator with a lemma of   *)
(* its own (Moved, Requeues, Entering, Still), and each part of Inv is     *)
(* shown to follow from these effects.                                     *)
(***************************************************************************)
EXTENDS SharedQueue, TLAPS, FiniteSetTheorems, SequenceTheorems

\* Two lists pushed together: members, and no id twice if they share none.
LEMMA ConcatList ==
  ASSUME NEW s \in Seq(Jobs), NEW t \in Seq(Jobs)
  PROVE  /\ s \o t \in Seq(Jobs)
         /\ \A k : InList(s \o t, k) <=> InList(s, k) \/ InList(t, k)
         /\ Distinct(s) /\ Distinct(t) /\ (\A k \in Jobs : ~(InList(s, k) /\ InList(t, k)))
            => Distinct(s \o t)
<1>1. s \o t \in Seq(Jobs) /\ Len(s \o t) = Len(s) + Len(t)
  OBVIOUS
<1>2. \A i \in 1..Len(s) : (s \o t)[i] = s[i]
  OBVIOUS
<1>3. \A i \in 1..Len(t) : (s \o t)[Len(s) + i] = t[i]
  OBVIOUS
<1>4. \A i \in 1..Len(s \o t) : i \in 1..Len(s) \/ (i - Len(s) \in 1..Len(t) /\ (s \o t)[i] = t[i - Len(s)])
  <2> TAKE i \in 1..Len(s \o t)
  <2>1. CASE i <= Len(s)
    BY <2>1
  <2>2. CASE i > Len(s)
    <3>1. i - Len(s) \in 1..Len(t) /\ i = Len(s) + (i - Len(s))
      BY <2>2, <1>1
    <3> QED
      BY <3>1
  <2> QED
    BY <2>1, <2>2, <1>1
<1>5. \A k : InList(s \o t, k) <=> InList(s, k) \/ InList(t, k)
  <2> TAKE k
  <2>1. ASSUME InList(s \o t, k) PROVE InList(s, k) \/ InList(t, k)
    BY <2>1, <1>1, <1>2, <1>4 DEF InList
  <2>2. ASSUME InList(s, k) PROVE InList(s \o t, k)
    <3>1. PICK i \in 1..Len(s) : s[i] = k
      BY <2>2 DEF InList
    <3>2. i \in DOMAIN (s \o t) /\ (s \o t)[i] = k
      BY <3>1, <1>1, <1>2
    <3> QED
      BY <3>2 DEF InList
  <2>3. ASSUME InList(t, k) PROVE InList(s \o t, k)
    <3>1. PICK i \in 1..Len(t) : t[i] = k
      BY <2>3 DEF InList
    <3>2. Len(s) + i \in DOMAIN (s \o t) /\ (s \o t)[Len(s) + i] = k
      BY <3>1, <1>1, <1>3
    <3> QED
      BY <3>2 DEF InList
  <2> QED
    BY <2>1, <2>2, <2>3
<1>6. ASSUME Distinct(s), Distinct(t), \A k \in Jobs : ~(InList(s, k) /\ InList(t, k))
      PROVE  Distinct(s \o t)
  <2> SUFFICES ASSUME NEW i \in 1..Len(s \o t), NEW n \in 1..Len(s \o t), (s \o t)[i] = (s \o t)[n]
               PROVE  i = n
    BY <1>1 DEF Distinct
  <2> DEFINE k == (s \o t)[i]
  <2>1. k \in Jobs
    BY <1>1
  <2>2. \A m \in 1..Len(s \o t) : (s \o t)[m] = k =>
           \/ m \in 1..Len(s) /\ s[m] = k /\ InList(s, k)
           \/ m - Len(s) \in 1..Len(t) /\ t[m - Len(s)] = k /\ InList(t, k)
    BY <1>2, <1>4 DEF InList
  <2>3. ~(InList(s, k) /\ InList(t, k))
    BY <1>6, <2>1
  <2>4. \/ i \in 1..Len(s) /\ n \in 1..Len(s) /\ s[i] = s[n]
        \/ i - Len(s) \in 1..Len(t) /\ n - Len(s) \in 1..Len(t) /\ t[i - Len(s)] = t[n - Len(s)]
    BY <2>2, <2>3
  <2> QED
    BY <2>4, <1>6 DEF Distinct
<1> QED
  BY <1>1, <1>5, <1>6

\* A list of one id.
LEMMA OneList ==
  ASSUME NEW j \in Jobs
  PROVE  <<j>> \in Seq(Jobs) /\ Distinct(<<j>>) /\ \A k : InList(<<j>>, k) <=> k = j
BY DEF Distinct, InList

\* RPOP takes the last member, and that member only.
LEMMA FrontList ==
  ASSUME NEW s \in Seq(Jobs), s # << >>, Distinct(s)
  PROVE  /\ s[Len(s)] \in Jobs /\ InList(s, s[Len(s)])
         /\ SubSeq(s, 1, Len(s) - 1) \in Seq(Jobs)
         /\ Distinct(SubSeq(s, 1, Len(s) - 1))
         /\ \A k : InList(SubSeq(s, 1, Len(s) - 1), k) <=> InList(s, k) /\ k # s[Len(s)]
<1> DEFINE f == SubSeq(s, 1, Len(s) - 1)
<1>1. Len(s) \in Nat /\ Len(s) > 0 /\ s[Len(s)] \in Jobs /\ Len(s) \in DOMAIN s
  OBVIOUS
<1>2. f \in Seq(Jobs) /\ Len(f) = Len(s) - 1 /\ \A i \in 1..Len(s) - 1 : f[i] = s[i]
  <2>1. f = [i \in 1..Len(s) - 1 |-> s[i]]
    BY <1>1
  <2> HIDE DEF f
  <2>2. f \in [1..Len(s) - 1 -> Jobs] /\ Len(s) - 1 \in Nat
    BY <1>1, <2>1
  <2>3. f \in Seq(Jobs) /\ Len(f) = Len(s) - 1
    BY <2>2
  <2> QED
    BY <1>1, <2>1, <2>3
<1>3. \A k : InList(f, k) <=> InList(s, k) /\ k # s[Len(s)]
  <2> TAKE k
  <2>1. ASSUME InList(f, k) PROVE InList(s, k) /\ k # s[Len(s)]
    <3>1. PICK i \in 1..Len(s) - 1 : f[i] = k
      BY <1>2, <2>1 DEF InList
    <3>2. i \in DOMAIN s /\ s[i] = k /\ i # Len(s)
      BY <3>1, <1>1, <1>2
    <3> QED
      BY <3>2, <1>1 DEF InList, Distinct
  <2>2. ASSUME InList(s, k), k # s[Len(s)] PROVE InList(f, k)
    <3>1. PICK i \in 1..Len(s) : s[i] = k
      BY <2>2 DEF InList
    <3>2. i \in DOMAIN f /\ f[i] = k
      BY <3>1, <2>2, <1>1, <1>2
    <3> QED
      BY <3>2 DEF InList
  <2> QED
    BY <2>1, <2>2
<1>4. Distinct(f)
  BY <1>1, <1>2 DEF Distinct
<1>5. InList(s, s[Len(s)])
  BY <1>1 DEF InList
<1> QED
  BY <1>1, <1>2, <1>3, <1>4, <1>5

\* A set pushed in any order is a list of its members.
LEMMA OrdersList ==
  ASSUME NEW S \in SUBSET Jobs, NEW o \in Orders(S)
  PROVE  o \in Seq(Jobs) /\ Distinct(o) /\ \A k : InList(o, k) <=> k \in S
<1>1. IsFiniteSet(S)
  BY ScriptsAssumption, FS_Subset
<1>2. Cardinality(S) \in Nat
  BY <1>1, FS_CardinalityType
<1> DEFINE n == Cardinality(S)
<1>3. o \in [1..n -> S] /\ IsInjective(o)
  BY DEF Orders, Injection
<1>4. IsFiniteSet(1..n) /\ Cardinality(1..n) = n
  BY <1>2, FS_Interval
<1>5. o \in Surjection(1..n, S)
  BY <1>1, <1>4, FS_Injection DEF Orders
<1>6. \A k \in S : \E i \in 1..n : o[i] = k
  BY <1>5 DEF Surjection
<1>7. o \in Seq(Jobs) /\ DOMAIN o = 1..n
  BY <1>2, <1>3
<1> QED
  BY <1>3, <1>6, <1>7 DEF InList, Distinct, IsInjective

-----------------------------------------------------------------------------
AllKeys == QueueKeys \cup {"active"} \cup DoneKeys

\* What the scripts keep of their keys, whoever calls them.
ScriptInv ==
  /\ KeysTypeOK /\ ScriptsTypeOK /\ ProducerTypeOK
  /\ OnePlace
  /\ LockedActive
  /\ AttemptsExact

\* Every job is in some key or in none.
LEMMA Placed ==
  ASSUME OnePlace, NEW k \in Jobs
  PROVE  \E key \in AllKeys \cup {"none"} : At(k, key)
BY DEF OnePlace, AllKeys

\* The lists after the promotion of due jobs: they gain those jobs, and no id twice.
LEMMA PromotedLists ==
  ASSUME ScriptInv, NEW due \in SUBSET delayed, NEW o \in Orders(Plain(due))
  PROVE  /\ WaitAfter(o) \in Seq(Jobs) /\ Distinct(WaitAfter(o))
         /\ \A k : InList(WaitAfter(o), k) <=> InList(wait, k) \/ (~paused /\ k \in Plain(due))
         /\ ParkedAfter(o) \in Seq(Jobs) /\ Distinct(ParkedAfter(o))
         /\ \A k : InList(ParkedAfter(o), k) <=> InList(parked, k) \/ (paused /\ k \in Plain(due))
         /\ PrioAfter(due) \in SUBSET Jobs
         /\ \A k \in Jobs : k \in PrioAfter(due) <=> k \in prioritized \/ (k \in due /\ k \notin Plain(due))
         /\ \A k \in Jobs : ~(InList(WaitAfter(o), k) /\ k \in PrioAfter(due))
<1>1. /\ wait \in Seq(Jobs) /\ parked \in Seq(Jobs) /\ prioritized \subseteq Jobs /\ delayed \subseteq Jobs
      /\ Distinct(wait) /\ Distinct(parked) /\ paused \in BOOLEAN
  BY DEF ScriptInv, KeysTypeOK, ScriptsTypeOK, OnePlace
<1>2. Plain(due) \in SUBSET Jobs /\ Plain(due) \subseteq due /\ due \subseteq Jobs
  BY <1>1 DEF Plain
<1>3. o \in Seq(Jobs) /\ Distinct(o) /\ \A k : InList(o, k) <=> k \in Plain(due)
  BY <1>2, OrdersList
<1>4. \A k \in due : ~InList(wait, k) /\ ~InList(parked, k) /\ k \notin prioritized
  <2> TAKE k \in due
  <2>1. PICK key \in AllKeys \cup {"none"} : At(k, key)
    BY <1>2, Placed DEF ScriptInv
  <2> QED
    BY <2>1 DEF At
<1>5. /\ o \o wait \in Seq(Jobs) /\ Distinct(o \o wait)
      /\ \A k : InList(o \o wait, k) <=> k \in Plain(due) \/ InList(wait, k)
  BY <1>1, <1>2, <1>3, <1>4, ConcatList
<1>6. /\ o \o parked \in Seq(Jobs) /\ Distinct(o \o parked)
      /\ \A k : InList(o \o parked, k) <=> k \in Plain(due) \/ InList(parked, k)
  BY <1>1, <1>2, <1>3, <1>4, ConcatList
<1>7. \A k \in Jobs : ~(InList(wait, k) /\ k \in prioritized)
  <2> TAKE k \in Jobs
  <2>1. PICK key \in AllKeys \cup {"none"} : At(k, key)
    BY Placed DEF ScriptInv
  <2> QED
    BY <2>1 DEF At
<1>8. /\ WaitAfter(o) \in Seq(Jobs) /\ Distinct(WaitAfter(o))
      /\ \A k : InList(WaitAfter(o), k) <=> InList(wait, k) \/ (~paused /\ k \in Plain(due))
  BY <1>1, <1>5 DEF WaitAfter
<1>9. /\ ParkedAfter(o) \in Seq(Jobs) /\ Distinct(ParkedAfter(o))
      /\ \A k : InList(ParkedAfter(o), k) <=> InList(parked, k) \/ (paused /\ k \in Plain(due))
  BY <1>1, <1>6 DEF ParkedAfter
<1>10. /\ PrioAfter(due) \in SUBSET Jobs
       /\ \A k \in Jobs : k \in PrioAfter(due) <=> k \in prioritized \/ (k \in due /\ k \notin Plain(due))
  BY <1>1, <1>2 DEF PrioAfter
<1> QED
  BY <1>2, <1>4, <1>7, <1>8, <1>9, <1>10

\* What Hand does to the keys that it changes, as functions of what it was given.
Handled(s, next, w, p, act, locks, started, h) ==
  /\ wait' \in Seq(Jobs) /\ Distinct(wait')
  /\ \A k \in Jobs : InList(wait', k) <=> InList(w, k) /\ k # next
  /\ prioritized' \in SUBSET Jobs
  /\ \A k \in Jobs : k \in prioritized' <=> k \in p /\ k # next
  /\ next \in Jobs => InList(w, next) \/ next \in p
  /\ next \in Jobs => ~PausedOrMaxed(act)
  /\ active' = [k \in Jobs |-> IF k = next THEN act[k] + 1 ELSE act[k]]
  /\ lock' = [k \in Jobs |-> IF k = next THEN s ELSE locks[k]]
  /\ ats' = [k \in Jobs |-> IF k = next THEN started[k] + 1 ELSE started[k]]
  /\ hash' = [k \in Jobs |-> IF k = next THEN h[k] \cup {"script"} ELSE h[k]]

\* Handing over takes the next job out of its key and gives it to the slot, with its lock.
LEMMA HandEffect ==
  ASSUME NEW s \in Slots, NEW next \in Jobs \cup {NoJob},
         NEW w \in Seq(Jobs), Distinct(w), NEW p \in SUBSET Jobs,
         \A k \in Jobs : ~(InList(w, k) /\ k \in p),
         NEW act \in [Jobs -> Nat], NEW locks \in [Jobs -> Slots \cup {NoLock}],
         NEW started \in [Jobs -> Nat], NEW h \in [Jobs -> SUBSET Fields],
         Hand(s, next, w, p, act, locks, started, h)
  PROVE  Handled(s, next, w, p, act, locks, started, h)
<1> USE DEF Handled
<1>0. NoJob \notin Jobs
  BY KeysAssumption
<1>1. CASE next = NoJob
  <2>1. next \notin Nexts(w, p)
    <3>1. w # << >> => w[Len(w)] \in Jobs
      BY FrontList
    <3> QED
      BY <1>0, <1>1, <3>1 DEF Nexts
  <2>2. /\ wait' = w /\ prioritized' = p /\ active' = act
        /\ lock' = locks /\ ats' = started /\ hash' = h
    BY <2>1 DEF Hand
  <2> QED
    BY <1>0, <1>1, <2>2
<1>2. CASE next \in Jobs
  <2>1. /\ next \in Nexts(w, p)
        /\ ~PausedOrMaxed(act)
        /\ wait' = IF w # << >> THEN SubSeq(w, 1, Len(w) - 1) ELSE w
        /\ prioritized' = IF w # << >> THEN p ELSE p \ {next}
        /\ active' = [act EXCEPT ![next] = @ + 1]
        /\ lock' = [locks EXCEPT ![next] = s]
        /\ ats' = [started EXCEPT ![next] = @ + 1]
        /\ hash' = Written(h, {next})
    BY <1>0, <1>2 DEF Hand
  <2>2. /\ active' = [k \in Jobs |-> IF k = next THEN act[k] + 1 ELSE act[k]]
        /\ lock' = [k \in Jobs |-> IF k = next THEN s ELSE locks[k]]
        /\ ats' = [k \in Jobs |-> IF k = next THEN started[k] + 1 ELSE started[k]]
        /\ hash' = [k \in Jobs |-> IF k = next THEN h[k] \cup {"script"} ELSE h[k]]
    BY <2>1, <1>2 DEF Written
  <2>3. CASE w # << >>
    <3>1. next = w[Len(w)] /\ InList(w, next) /\ next \notin p
      BY <1>2, <2>1, <2>3, FrontList DEF Nexts
    <3>2. /\ wait' \in Seq(Jobs) /\ Distinct(wait')
          /\ \A k \in Jobs : InList(wait', k) <=> InList(w, k) /\ k # next
      BY <2>1, <2>3, <3>1, FrontList
    <3> QED
      BY <2>1, <2>2, <2>3, <3>1, <3>2
  <2>4. CASE w = << >>
    <3>1. next \in p /\ \A k : ~InList(w, k)
      BY <2>1, <2>4 DEF Nexts, InList
    <3> QED
      BY <2>1, <2>2, <2>4, <3>1
  <2> QED
    BY <2>3, <2>4
<1> QED
  BY <1>1, <1>2

-----------------------------------------------------------------------------
\* What a script that promotes `due` and hands out `next` does to the keys of the queue.
Pulls(next, due) ==
  /\ wait' \in Seq(Jobs) /\ Distinct(wait') /\ parked' \in Seq(Jobs) /\ Distinct(parked')
  /\ prioritized' \in SUBSET Jobs /\ delayed' \in SUBSET Jobs
  /\ \A k \in Jobs :
       /\ InList(wait', k) <=> (InList(wait, k) \/ (~paused /\ k \in Plain(due))) /\ k # next
       /\ InList(parked', k) <=> InList(parked, k) \/ (paused /\ k \in Plain(due))
       /\ k \in prioritized' <=> (k \in prioritized \/ (k \in due /\ k \notin Plain(due))) /\ k # next
       /\ k \in delayed' <=> k \in delayed /\ k \notin due
  /\ next \in Jobs => (InList(wait, next) \/ next \in prioritized \/ next \in due) /\ ~paused
  /\ due \in SUBSET delayed

\* The same with what it does to the job handed out and to the hashes.
Pulled(s, next, due, act, locks, started, h) ==
  /\ Pulls(next, due)
  /\ active' = [k \in Jobs |-> IF k = next THEN act[k] + 1 ELSE act[k]]
  /\ lock' = [k \in Jobs |-> IF k = next THEN s ELSE locks[k]]
  /\ ats' = [k \in Jobs |-> IF k = next THEN started[k] + 1 ELSE started[k]]
  /\ hash' = [k \in Jobs |-> IF k = next \/ k \in due THEN h[k] \cup {"script"} ELSE h[k]]

\* Promotion and hand-over together.
LEMMA PullEffect ==
  ASSUME ScriptInv, NEW s \in Slots, NEW next \in Jobs \cup {NoJob},
         NEW due \in SUBSET delayed, NEW o \in Orders(Plain(due)),
         NEW act \in [Jobs -> Nat], NEW locks \in [Jobs -> Slots \cup {NoLock}],
         NEW started \in [Jobs -> Nat], NEW h \in [Jobs -> SUBSET Fields],
         Hand(s, next, WaitAfter(o), PrioAfter(due), act, locks, started, Written(h, due)),
         parked' = ParkedAfter(o), delayed' = delayed \ due
  PROVE  Pulled(s, next, due, act, locks, started, h)
<1> DEFINE w == WaitAfter(o)
<1> DEFINE p == PrioAfter(due)
<1> DEFINE hw == Written(h, due)
<1>1. /\ w \in Seq(Jobs) /\ Distinct(w)
      /\ \A k : InList(w, k) <=> InList(wait, k) \/ (~paused /\ k \in Plain(due))
      /\ ParkedAfter(o) \in Seq(Jobs) /\ Distinct(ParkedAfter(o))
      /\ \A k : InList(ParkedAfter(o), k) <=> InList(parked, k) \/ (paused /\ k \in Plain(due))
      /\ p \in SUBSET Jobs
      /\ \A k \in Jobs : k \in p <=> k \in prioritized \/ (k \in due /\ k \notin Plain(due))
      /\ \A k \in Jobs : ~(InList(w, k) /\ k \in p)
  BY PromotedLists
<1>2. hw \in [Jobs -> SUBSET Fields] /\ hw = [k \in Jobs |-> IF k \in due THEN h[k] \cup {"script"} ELSE h[k]]
  BY DEF Written, Fields
<1>3. Hand(s, next, w, p, act, locks, started, hw)
  OBVIOUS
<1> HIDE DEF w, p, hw
<1>4. Handled(s, next, w, p, act, locks, started, hw)
  BY <1>1, <1>2, <1>3, HandEffect, Zenon
<1>5. hash' = [k \in Jobs |-> IF k = next \/ k \in due THEN h[k] \cup {"script"} ELSE h[k]]
  BY <1>2, <1>4 DEF Handled
<1>6. next \in Jobs => ~paused
  BY <1>4 DEF Handled, PausedOrMaxed
<1>7. delayed \subseteq Jobs /\ Plain(due) \subseteq due
  BY DEF ScriptInv, KeysTypeOK, Plain
<1>8. next \in Jobs => InList(wait, next) \/ next \in prioritized \/ next \in due
  BY <1>1, <1>4, <1>7 DEF Handled
<1>9. \A k \in Jobs :
         /\ InList(wait', k) <=> (InList(wait, k) \/ (~paused /\ k \in Plain(due))) /\ k # next
         /\ InList(parked', k) <=> InList(parked, k) \/ (paused /\ k \in Plain(due))
         /\ k \in prioritized' <=> (k \in prioritized \/ (k \in due /\ k \notin Plain(due))) /\ k # next
         /\ k \in delayed' <=> k \in delayed /\ k \notin due
  BY <1>1, <1>4 DEF Handled
<1> QED
  BY <1>1, <1>4, <1>5, <1>6, <1>7, <1>8, <1>9 DEF Pulls, Pulled, Handled

\* The same with what it does to the rest, when job j was finished before, the jobs of `gone`
\* removed; j is NoJob when the script only fetches.
HandOver(s, next, due, j, target, gone) ==
  /\ Pulls(next, due)
  /\ active' = [k \in Jobs |-> IF k = next THEN active[k] + 1 ELSE IF k = j THEN active[k] - 1 ELSE active[k]]
  /\ lock' = [k \in Jobs |-> IF k = next THEN s ELSE IF k = j THEN NoLock ELSE lock[k]]
  /\ hash' = [k \in Jobs |-> IF k \in gone THEN {}
                             ELSE IF k = next \/ k \in due THEN hash[k] \cup {"script"}
                             ELSE IF k = j THEN hash[k] \cup {"result", "script"} ELSE hash[k]]
  /\ stalled' = stalled \ {j}
  /\ ats' = [k \in Jobs |-> IF k \in gone THEN 0 ELSE IF k = next THEN ats[k] + 1 ELSE ats[k]]
  /\ atm' = [k \in Jobs |-> IF k \in gone THEN 0 ELSE IF k = j THEN atm[k] + 1 ELSE atm[k]]
  /\ stc' = [k \in Jobs |-> IF k \in gone THEN 0 ELSE stc[k]]
  /\ completed' = IF target = "completed" THEN (completed \cup {j}) \ gone ELSE completed
  /\ failed' = IF target = "failed" THEN (failed \cup {j}) \ gone ELSE failed
  /\ \A k \in gone : k = j \/ (target = "completed" /\ k \in completed) \/ (target = "failed" /\ k \in failed)
  /\ j = NoJob => target = "none" /\ gone = {}
  /\ j \in Jobs => target \in DoneKeys /\ active[j] > 0

\* Where each job is before and after it.
Moved(next, due, j, target, gone, k) ==
  /\ k = next => /\ active[k] = 0 /\ k # j /\ k \notin gone
                 /\ \E key \in QueueKeys : At(k, key)
                 /\ At(k, "active")'
  /\ k \in due /\ k # next => At(k, "delayed") /\ k \notin gone /\ k # j /\ \E key \in QueueKeys : At(k, key)'
  /\ k = j => At(k, "active") /\ active[k] = 1
              /\ (k \notin gone => At(k, target)') /\ (k \in gone => At(k, "none")')
  /\ k \in gone /\ k # j => /\ \E key \in DoneKeys : At(k, key)
                            /\ At(k, "none")'
  /\ k # next /\ k # j /\ k \notin due /\ k \notin gone
     => \A key \in AllKeys \cup {"none"} : At(k, key) => At(k, key)'

\* Where every job is after a hand-over.
LEMMA HandOverPlaces ==
  ASSUME ScriptInv, NEW s \in Slots, NEW next \in Jobs \cup {NoJob}, NEW due,
         NEW j \in Jobs \cup {NoJob}, NEW target, NEW gone,
         HandOver(s, next, due, j, target, gone), NEW k \in Jobs
  PROVE  Moved(next, due, j, target, gone, k)
<1> USE DEF Moved
<1>1. /\ NoJob \notin Jobs /\ active \in [Jobs -> Nat] /\ active[k] <= 1
      /\ paused \in BOOLEAN /\ Plain(due) \subseteq due
  BY KeysAssumption DEF ScriptInv, KeysTypeOK, OnePlace, Plain
<1>2. PICK key \in AllKeys \cup {"none"} : At(k, key)
  BY Placed DEF ScriptInv
<1>3. /\ InList(wait', k) <=> (InList(wait, k) \/ (~paused /\ k \in Plain(due))) /\ k # next
      /\ InList(parked', k) <=> InList(parked, k) \/ (paused /\ k \in Plain(due))
      /\ k \in prioritized' <=> (k \in prioritized \/ (k \in due /\ k \notin Plain(due))) /\ k # next
      /\ k \in delayed' <=> k \in delayed /\ k \notin due
      /\ k = next => (InList(wait, k) \/ k \in prioritized \/ k \in due) /\ ~paused
      /\ k \in due => k \in delayed
  BY DEF HandOver, Pulls
<1>4. /\ active'[k] = IF k = next THEN active[k] + 1 ELSE IF k = j THEN active[k] - 1 ELSE active[k]
      /\ completed' = IF target = "completed" THEN (completed \cup {j}) \ gone ELSE completed
      /\ failed' = IF target = "failed" THEN (failed \cup {j}) \ gone ELSE failed
      /\ k \in gone => k = j \/ (target = "completed" /\ k \in completed) \/ (target = "failed" /\ k \in failed)
      /\ k = j => target \in DoneKeys /\ active[k] > 0
  BY <1>1 DEF HandOver
<1>5. CASE k = next
  <2>1. At(k, "wait") \/ At(k, "prioritized") \/ At(k, "delayed")
    BY <1>2, <1>3, <1>5 DEF At
  <2>2. active[k] = 0 /\ k # j /\ k \notin gone /\ k \notin completed /\ k \notin failed /\ ~InList(parked, k)
    BY <1>1, <1>4, <2>1 DEF At
  <2>3. At(k, "active")'
    BY <1>1, <1>3, <1>4, <1>5, <2>1, <2>2 DEF At
  <2>4. \E key1 \in QueueKeys : At(k, key1)
    BY <2>1 DEF QueueKeys
  <2> QED
    BY <1>5, <2>1, <2>2, <2>3, <2>4
<1>6. CASE k # next /\ k \in due
  <2>1. At(k, "delayed")
    BY <1>2, <1>3, <1>6 DEF At
  <2>2. active[k] = 0 /\ k # j /\ k \notin gone
    BY <1>1, <1>4, <2>1 DEF At
  <2>3. At(k, "wait")' \/ At(k, "paused")' \/ At(k, "prioritized")'
    BY <1>1, <1>3, <1>4, <1>6, <2>1, <2>2 DEF At
  <2>4. \E key1 \in QueueKeys : At(k, key1)'
    BY <2>3 DEF QueueKeys
  <2> QED
    BY <1>6, <2>1, <2>2, <2>4
<1>7. CASE k # next /\ k \notin due /\ k = j
  <2>1. At(k, "active") /\ active[k] = 1
    BY <1>1, <1>2, <1>4, <1>7 DEF At
  <2>2. active'[k] = 0
    BY <1>4, <1>7, <2>1
  <2>3. k \notin gone => At(k, target)'
    BY <1>1, <1>3, <1>4, <1>7, <2>1, <2>2 DEF At, DoneKeys
  <2>4. k \in gone => At(k, "none")'
    BY <1>1, <1>3, <1>4, <1>7, <2>1, <2>2 DEF At, DoneKeys
  <2> QED
    BY <1>7, <2>1, <2>3, <2>4
<1>8. CASE k # next /\ k \notin due /\ k # j /\ k \in gone
  <2>0. (target = "completed" /\ k \in completed) \/ (target = "failed" /\ k \in failed)
    BY <1>4, <1>8
  <2>1. (At(k, "completed") /\ target = "completed") \/ (At(k, "failed") /\ target = "failed")
    <3>1. k \in completed => key = "completed"
      BY <1>2 DEF At
    <3>2. k \in failed => key = "failed"
      BY <1>2 DEF At
    <3> QED
      BY <1>2, <2>0, <3>1, <3>2
  <2>2. active'[k] = active[k]
    BY <1>4, <1>8
  <2>3. At(k, "none")'
    BY <1>1, <1>3, <1>4, <1>8, <2>1, <2>2 DEF At
  <2> QED
    BY <1>8, <2>1, <2>3 DEF DoneKeys
<1>9. CASE k # next /\ k \notin due /\ k # j /\ k \notin gone
  <2>1. /\ active'[k] = active[k] /\ (k \in completed' <=> k \in completed) /\ (k \in failed' <=> k \in failed)
    BY <1>4, <1>9
  <2>2. \A key1 \in AllKeys \cup {"none"} : At(k, key1) => At(k, key1)'
    BY <1>1, <1>3, <1>9, <2>1 DEF At
  <2> QED
    BY <1>9, <2>2
<1> QED
  BY <1>5, <1>6, <1>7, <1>8, <1>9

\* Its assignments job by job.
Assigned(s, next, due, j, gone, k) ==
  /\ k = next => /\ active'[k] = active[k] + 1 /\ lock'[k] = s
                 /\ (k \notin gone => hash'[k] = hash[k] \cup {"script"} /\ ats'[k] = ats[k] + 1)
  /\ k # next => /\ (k = j => active'[k] = active[k] - 1 /\ lock'[k] = NoLock)
                 /\ (k # j => active'[k] = active[k] /\ lock'[k] = lock[k])
                 /\ (k \notin gone => ats'[k] = ats[k])
  /\ k \in gone => hash'[k] = {} /\ ats'[k] = 0 /\ atm'[k] = 0 /\ stc'[k] = 0
  /\ k \notin gone =>
       /\ stc'[k] = stc[k]
       /\ (k = j => atm'[k] = atm[k] + 1)
       /\ (k # j => atm'[k] = atm[k])
       /\ k \in due => hash'[k] = hash[k] \cup {"script"}
       /\ k # next /\ k \notin due /\ k = j => hash'[k] = hash[k] \cup {"result", "script"}
       /\ k # next /\ k \notin due /\ k # j => hash'[k] = hash[k]

\* What a hand-over writes into the fields and the lock of every job.
LEMMA HandOverFields ==
  ASSUME ScriptInv, NEW s \in Slots, NEW next \in Jobs \cup {NoJob}, NEW due,
         NEW j \in Jobs \cup {NoJob}, NEW target, NEW gone,
         HandOver(s, next, due, j, target, gone), NEW k \in Jobs
  PROVE  Assigned(s, next, due, j, gone, k)
<1>1. active'[k] = IF k = next THEN active[k] + 1 ELSE IF k = j THEN active[k] - 1 ELSE active[k]
  BY Zenon DEF HandOver
<1>2. lock'[k] = IF k = next THEN s ELSE IF k = j THEN NoLock ELSE lock[k]
  BY Zenon DEF HandOver
<1>3. hash'[k] = IF k \in gone THEN {}
                 ELSE IF k = next \/ k \in due THEN hash[k] \cup {"script"}
                 ELSE IF k = j THEN hash[k] \cup {"result", "script"} ELSE hash[k]
  BY Zenon DEF HandOver
<1>4. /\ ats'[k] = IF k \in gone THEN 0 ELSE IF k = next THEN ats[k] + 1 ELSE ats[k]
      /\ atm'[k] = IF k \in gone THEN 0 ELSE IF k = j THEN atm[k] + 1 ELSE atm[k]
      /\ stc'[k] = IF k \in gone THEN 0 ELSE stc[k]
  BY Zenon DEF HandOver
<1> QED
  BY <1>1, <1>2, <1>3, <1>4, Zenon DEF Assigned

\* A hand-over keeps the types of the keys.
LEMMA HandOverTypes ==
  ASSUME ScriptInv, NEW s \in Slots, NEW next \in Jobs \cup {NoJob}, NEW due,
         NEW j \in Jobs \cup {NoJob}, NEW target, NEW gone,
         HandOver(s, next, due, j, target, gone)
  PROVE  /\ wait' \in Seq(Jobs) /\ parked' \in Seq(Jobs)
         /\ prioritized' \in SUBSET Jobs /\ delayed' \in SUBSET Jobs
         /\ active' \in [Jobs -> Nat] /\ lock' \in [Jobs -> Slots \cup {NoLock}]
         /\ completed' \in SUBSET Jobs /\ failed' \in SUBSET Jobs
         /\ hash' \in [Jobs -> SUBSET Fields] /\ stalled' \in SUBSET Jobs
         /\ ats' \in [Jobs -> Nat] /\ atm' \in [Jobs -> Nat] /\ stc' \in [Jobs -> Nat]
<1>1. /\ active \in [Jobs -> Nat] /\ lock \in [Jobs -> Slots \cup {NoLock}]
      /\ completed \in SUBSET Jobs /\ failed \in SUBSET Jobs
      /\ hash \in [Jobs -> SUBSET Fields] /\ stalled \in SUBSET Jobs
      /\ ats \in [Jobs -> Nat] /\ atm \in [Jobs -> Nat] /\ stc \in [Jobs -> Nat]
      /\ NoJob \notin Jobs
  BY KeysAssumption DEF ScriptInv, KeysTypeOK, ScriptsTypeOK
<1>2. /\ wait' \in Seq(Jobs) /\ parked' \in Seq(Jobs)
      /\ prioritized' \in SUBSET Jobs /\ delayed' \in SUBSET Jobs
  BY DEF HandOver, Pulls
<1>3. active' \in [Jobs -> Nat]
  <2>1. active' = [k \in Jobs |-> IF k = next THEN active[k] + 1 ELSE IF k = j THEN active[k] - 1 ELSE active[k]]
    BY DEF HandOver
  <2>2. ASSUME NEW k \in Jobs PROVE active'[k] \in Nat
    <3>1. /\ k = next => active'[k] = active[k] + 1
          /\ k # next => /\ (k = j => active'[k] = active[k] - 1)
                         /\ (k # j => active'[k] = active[k])
      <4>1. Assigned(s, next, due, j, gone, k)
        BY HandOverFields, Zenon
      <4> QED
        BY <4>1, Zenon DEF Assigned
    <3>2. k = j => active[k] > 0
      BY DEF HandOver
    <3>3. active[k] \in Nat
      BY <1>1
    <3> QED
      BY <3>1, <3>2, <3>3
  <2> HIDE DEF HandOver
  <2> QED
    BY <2>1, <2>2
<1>4. lock' \in [Jobs -> Slots \cup {NoLock}]
  BY <1>1 DEF HandOver
<1>5. completed' \in SUBSET Jobs /\ failed' \in SUBSET Jobs /\ stalled' \in SUBSET Jobs
  BY <1>1, Zenon DEF HandOver, DoneKeys
<1>6. hash' \in [Jobs -> SUBSET Fields]
  <2>1. hash' = [k \in Jobs |-> IF k \in gone THEN {}
                             ELSE IF k = next \/ k \in due THEN hash[k] \cup {"script"}
                             ELSE IF k = j THEN hash[k] \cup {"result", "script"} ELSE hash[k]]
    BY DEF HandOver
  <2> QED
    BY <1>1, <2>1 DEF Fields
<1>7. ats' \in [Jobs -> Nat] /\ atm' \in [Jobs -> Nat] /\ stc' \in [Jobs -> Nat]
  BY <1>1 DEF HandOver
<1> QED
  BY <1>2, <1>3, <1>4, <1>5, <1>6, <1>7

\* A hand-over keeps places, locks and counts in order.
LEMMA HandOverKeeps ==
  ASSUME ScriptInv, NEW s \in Slots, NEW next \in Jobs \cup {NoJob}, NEW due,
         NEW j \in Jobs \cup {NoJob}, NEW target, NEW gone,
         HandOver(s, next, due, j, target, gone), UNCHANGED add
  PROVE  OnePlace' /\ LockedActive' /\ AttemptsExact'
<1>1. /\ NoJob \notin Jobs /\ NoLock \notin Slots /\ active \in [Jobs -> Nat]
      /\ lock \in [Jobs -> Slots \cup {NoLock}] /\ hash \in [Jobs -> SUBSET Fields]
      /\ ats \in [Jobs -> Nat] /\ atm \in [Jobs -> Nat] /\ stc \in [Jobs -> Nat]
  BY KeysAssumption DEF ScriptInv, KeysTypeOK, ScriptsTypeOK
<1>2. /\ \A k \in Jobs : Stored(k) \/ At(k, "none")
      /\ \A k \in Jobs : Stored(k) => "job" \in hash[k] /\ add[k] = "added"
      /\ \A k \in Jobs : hash[k] # {} => "job" \in hash[k]
      /\ \A k \in Jobs : active[k] <= 1
      /\ \A k \in Jobs : lock[k] # NoLock \/ k \in stalled => active[k] > 0
      /\ \A k \in Jobs : ats[k] = atm[k] + stc[k] + active[k]
  BY DEF ScriptInv, OnePlace, LockedActive, AttemptsExact, Stored
<1>0. \A k \in Jobs : Moved(next, due, j, target, gone, k)
  BY HandOverPlaces, Zenon
<1>3. \A k \in Jobs : Assigned(s, next, due, j, gone, k)
  BY HandOverFields, Zenon
<1>4. stalled' = stalled \ {j} /\ add' = add
  BY DEF HandOver
<1>5. /\ \A k \in Jobs, key \in QueueKeys : At(k, key) => Stored(k) /\ active[k] = 0
      /\ \A k \in Jobs, key \in DoneKeys : At(k, key) => Stored(k) /\ active[k] = 0
      /\ \A k \in Jobs : At(k, "active") => Stored(k) /\ active[k] = 1
      /\ \A k \in Jobs : At(k, "none")' => active'[k] = 0
      /\ \A k \in Jobs : At(k, "none") => active[k] = 0
  <2>1. /\ \A k \in Jobs, key \in QueueKeys : At(k, key) => ~At(k, "none") /\ ~(active[k] > 0)
        /\ \A k \in Jobs, key \in DoneKeys : At(k, key) => ~At(k, "none") /\ ~(active[k] > 0)
        /\ \A k \in Jobs : At(k, "active") => ~At(k, "none") /\ active[k] > 0
        /\ \A k \in Jobs : At(k, "none") => ~(active[k] > 0)
    BY DEF At, QueueKeys, DoneKeys
  <2>2. \A k \in Jobs : At(k, "none")' => ~(active'[k] > 0)
    BY DEF At
  <2>3. active' \in [Jobs -> Nat]
    BY HandOverTypes
  <2> QED
    BY <1>1, <1>2, <2>1, <2>2, <2>3
<1>6. \A k \in Jobs :
        /\ active'[k] <= 1
        /\ Stored(k)' => \E key \in AllKeys : At(k, key)'
        /\ ~Stored(k)' => At(k, "none")'
        /\ hash'[k] # {} => "job" \in hash'[k]
        /\ lock'[k] # NoLock \/ k \in stalled' => active'[k] > 0
        /\ ats'[k] = atm'[k] + stc'[k] + active'[k]
  <2> TAKE k \in Jobs
  <2>1. CASE k = next
    <3>1. /\ active[k] = 0 /\ k # j /\ k \notin gone /\ At(k, "active")'
          /\ Stored(k)
      BY <2>1, <1>5, <1>0, SMT DEF Moved
    <3>0. active'[k] = active[k] + 1 /\ hash'[k] = hash[k] \cup {"script"} /\ ats'[k] = ats[k] + 1
          /\ atm'[k] = atm[k] /\ stc'[k] = stc[k]
      BY <2>1, <3>1, <1>3, Zenon DEF Assigned
    <3>2. active'[k] = 1 /\ "job" \in hash[k] /\ add[k] = "added"
      BY <3>0, <3>1, <1>2
    <3>3. Stored(k)' /\ \E key \in AllKeys : At(k, key)'
      BY <3>0, <3>1, <3>2, <1>4 DEF Stored, AllKeys
    <3>4. ats'[k] = atm'[k] + stc'[k] + active'[k]
      BY <3>0, <3>1, <1>1, <1>2
    <3> QED
      BY <3>0, <3>2, <3>3, <3>4
  <2>2. CASE k # next /\ k \in due
    <3>1. At(k, "delayed") /\ k \notin gone /\ k # j /\ \E key \in QueueKeys : At(k, key)'
      BY <2>2, <1>0 DEF Moved
    <3>2. Stored(k) /\ active[k] = 0
      BY <3>1, <1>5 DEF QueueKeys
    <3>0. /\ active'[k] = active[k] /\ hash'[k] = hash[k] \cup {"script"}
          /\ lock'[k] = lock[k] /\ ats'[k] = ats[k] /\ atm'[k] = atm[k] /\ stc'[k] = stc[k]
      BY <2>2, <3>1, <1>3, Zenon DEF Assigned
    <3>3. active'[k] = 0 /\ "job" \in hash[k] /\ add[k] = "added"
      BY <3>0, <3>2, <1>2
    <3>4. Stored(k)' /\ \E key \in AllKeys : At(k, key)'
      BY <3>0, <3>1, <3>3, <1>4 DEF Stored, AllKeys
    <3> QED
      BY <3>0, <3>1, <3>2, <3>3, <3>4, <1>1, <1>2, <1>4
  <2>3. CASE k # next /\ k \notin due /\ k = j
    <3>1. /\ At(k, "active") /\ active[k] = 1
          /\ (k \notin gone => At(k, target)') /\ (k \in gone => At(k, "none")')
      BY <2>3, <1>0 DEF Moved
    <3>2. Stored(k) /\ "job" \in hash[k] /\ add[k] = "added"
      BY <3>1, <1>2, <1>5
    <3>3. active'[k] = 0 /\ lock'[k] = NoLock /\ k \notin stalled' /\ target \in DoneKeys
      BY <2>3, <3>1, <1>3, <1>4 DEF HandOver, Assigned
    <3>4. CASE k \in gone
      <4>1. hash'[k] = {} /\ ats'[k] = 0 /\ atm'[k] = 0 /\ stc'[k] = 0
        BY <3>4, <1>3, Zenon DEF Assigned
      <4>2. ~Stored(k)'
        BY <4>1 DEF Stored
      <4> QED
        BY <3>1, <3>3, <3>4, <4>1, <4>2
    <3>5. CASE k \notin gone
      <4>1. /\ hash'[k] = hash[k] \cup {"result", "script"}
            /\ ats'[k] = ats[k] /\ atm'[k] = atm[k] + 1 /\ stc'[k] = stc[k]
        BY <2>3, <3>5, <1>3, Zenon DEF Assigned
      <4>2. Stored(k)' /\ \E key \in AllKeys : At(k, key)'
        BY <3>1, <3>2, <3>3, <3>5, <4>1, <1>4 DEF Stored, AllKeys
      <4> QED
        BY <3>1, <3>2, <3>3, <4>1, <4>2, <1>1, <1>2
    <3> QED
      BY <3>4, <3>5
  <2>4. CASE k # next /\ k \notin due /\ k # j /\ k \in gone
    <3>1. /\ \E key \in DoneKeys : At(k, key)
          /\ At(k, "none")'
      BY <2>4, <1>0 DEF Moved
    <3>0. active'[k] = active[k] /\ lock'[k] = lock[k] /\ hash'[k] = {}
          /\ ats'[k] = 0 /\ atm'[k] = 0 /\ stc'[k] = 0
      BY <2>4, <1>3, Zenon DEF Assigned
    <3>2. active[k] = 0 /\ active'[k] = 0
      BY <3>0, <3>1, <1>5
    <3>3. ~Stored(k)'
      BY <3>0 DEF Stored
    <3> QED
      BY <3>0, <3>1, <3>2, <3>3, <1>1, <1>2, <1>4
  <2>5. CASE k # next /\ k \notin due /\ k # j /\ k \notin gone
    <3>1. \A key \in AllKeys \cup {"none"} : At(k, key) => At(k, key)'
      BY <2>5, <1>0 DEF Moved
    <3>2. /\ active'[k] = active[k] /\ lock'[k] = lock[k] /\ hash'[k] = hash[k]
          /\ ats'[k] = ats[k] /\ atm'[k] = atm[k] /\ stc'[k] = stc[k]
      BY <2>5, <1>3, Zenon DEF Assigned
    <3>3. Stored(k)' <=> Stored(k)
      BY <3>2, <1>4 DEF Stored
    <3>4. Stored(k) => \E key \in AllKeys : At(k, key)
      BY DEF ScriptInv, OnePlace, AllKeys
    <3>5. ~Stored(k) => At(k, "none")
      BY <1>2
    <3> QED
      BY <3>1, <3>2, <3>3, <3>4, <3>5, <1>1, <1>2, <1>4
  <2> QED
    BY <2>1, <2>2, <2>3, <2>4, <2>5
<1>7. Distinct(wait)' /\ Distinct(parked)'
  BY DEF HandOver, Pulls, Distinct
<1> QED
  BY <1>6, <1>7 DEF OnePlace, LockedActive, AttemptsExact, AllKeys

-----------------------------------------------------------------------------

\* moveToActive hands over, and settles nothing.
LEMMA MoveToActiveEffect ==
  ASSUME ScriptInv, NEW s \in Slots, NEW next \in Jobs \cup {NoJob}, MoveToActive(s, next)
  PROVE  \E due : HandOver(s, next, due, NoJob, "none", {})
<1>0. PICK due \in SUBSET delayed :
        \E o \in Orders(Plain(due)) :
          /\ Promotable(due)
          /\ Hand(s, next, WaitAfter(o), PrioAfter(due), active, lock, ats, Written(hash, due))
          /\ parked' = ParkedAfter(o)
          /\ delayed' = delayed \ due
  BY Zenon DEF MoveToActive
<1>1. PICK o \in Orders(Plain(due)) :
        /\ Hand(s, next, WaitAfter(o), PrioAfter(due), active, lock, ats, Written(hash, due))
        /\ parked' = ParkedAfter(o)
        /\ delayed' = delayed \ due
  BY <1>0
<1>2. /\ NoJob \notin Jobs /\ active \in [Jobs -> Nat] /\ lock \in [Jobs -> Slots \cup {NoLock}]
      /\ hash \in [Jobs -> SUBSET Fields] /\ stalled \subseteq Jobs
      /\ ats \in [Jobs -> Nat] /\ atm \in [Jobs -> Nat] /\ stc \in [Jobs -> Nat]
      /\ completed \subseteq Jobs /\ failed \subseteq Jobs
  BY KeysAssumption DEF ScriptInv, KeysTypeOK, ScriptsTypeOK
<1>3. UNCHANGED <<completed, failed, stalled, atm, stc>>
  BY DEF MoveToActive, finished
<1>10. Pulled(s, next, due, active, lock, ats, hash)
  BY <1>1, <1>2, PullEffect
<1>4. /\ Pulls(next, due)
      /\ active' = [k \in Jobs |-> IF k = next THEN active[k] + 1 ELSE active[k]]
      /\ lock' = [k \in Jobs |-> IF k = next THEN s ELSE lock[k]]
      /\ ats' = [k \in Jobs |-> IF k = next THEN ats[k] + 1 ELSE ats[k]]
      /\ hash' = [k \in Jobs |-> IF k = next \/ k \in due THEN hash[k] \cup {"script"} ELSE hash[k]]
  BY <1>10, Zenon DEF Pulled
<1>5. active' = [k \in Jobs |-> IF k = next THEN active[k] + 1 ELSE IF k = NoJob THEN active[k] - 1 ELSE active[k]]
  BY <1>2, <1>4
<1>6. lock' = [k \in Jobs |-> IF k = next THEN s ELSE IF k = NoJob THEN NoLock ELSE lock[k]]
  BY <1>2, <1>4
<1>7. hash' = [k \in Jobs |-> IF k \in {} THEN {}
                             ELSE IF k = next \/ k \in due THEN hash[k] \cup {"script"}
                             ELSE IF k = NoJob THEN hash[k] \cup {"result", "script"} ELSE hash[k]]
  BY <1>2, <1>4
<1>8. /\ stalled' = stalled \ {NoJob}
      /\ ats' = [k \in Jobs |-> IF k \in {} THEN 0 ELSE IF k = next THEN ats[k] + 1 ELSE ats[k]]
      /\ atm' = [k \in Jobs |-> IF k \in {} THEN 0 ELSE IF k = NoJob THEN atm[k] + 1 ELSE atm[k]]
      /\ stc' = [k \in Jobs |-> IF k \in {} THEN 0 ELSE stc[k]]
  BY <1>2, <1>3, <1>4
<1> QED
  BY <1>2, <1>3, <1>4, <1>5, <1>6, <1>7, <1>8 DEF HandOver

\* What keepJobs removes was finished before, or is the job just finished.
LEMMA RetentionEffect ==
  ASSUME NEW done \in SUBSET Jobs, NEW j \in Jobs, j \notin done, NEW keep, NEW r \in Retention(done, j, keep)
  PROVE  /\ r[1] = (done \cup {j}) \ r[2]
         /\ r[2] \subseteq done \cup {j}
<1>1. CASE keep.count = 0
  BY <1>1 DEF Retention
<1>2. CASE keep.count # 0
  <2>1. PICK gone \in Removable(done \cup {j}, keep) : r = <<(done \cup {j}) \ gone, gone>>
    BY <1>2 DEF Retention
  <2>2. gone \subseteq done \cup {j}
    BY DEF Removable
  <2> QED
    BY <2>1, <2>2
<1> QED
  BY <1>1, <1>2

\* moveToFinished never returns -3: under its lock, the job is active.
LEMMA OwnsActive ==
  ASSUME ScriptInv, NEW s \in Slots, NEW j \in Jobs, Owns(s, j)
  PROVE  active[j] > 0 /\ lock[j] = s
BY KeysAssumption DEF Owns, ScriptInv, LockedActive

\* The part of moveToFinished after its checks settles one job and hands over another.
LEMMA FinishEffect ==
  ASSUME ScriptInv, NEW s \in Slots, NEW j \in Jobs, active[j] > 0, NEW target \in DoneKeys, NEW keep,
         NEW fetch \in BOOLEAN, NEW next \in Jobs \cup {NoJob}, Finish(s, j, target, keep, fetch, next)
  PROVE  \E due, gone : HandOver(s, next, due, j, target, gone)
<1> DEFINE done == IF target = "completed" THEN completed ELSE failed
<1> DEFINE act == [active EXCEPT ![j] = @ - 1]
<1> DEFINE free == [lock EXCEPT ![j] = NoLock]
<1> DEFINE h(gone) == Dropped([hash EXCEPT ![j] = @ \cup {"result", "script"}], gone, {})
<1> DEFINE runs(gone) == Dropped(ats, gone, 0)
<1>1. PICK r \in Retention(done, j, keep) :
        /\ completed' = IF target = "completed" THEN r[1] ELSE completed
        /\ failed' = IF target = "failed" THEN r[1] ELSE failed
        /\ stalled' = stalled \ {j}
        /\ atm' = Dropped([atm EXCEPT ![j] = @ + 1], r[2], 0)
        /\ stc' = Dropped(stc, r[2], 0)
        /\ \/ /\ fetch
              /\ \E due \in SUBSET delayed : \E o \in Orders(Plain(due)) :
                   /\ Promotable(due)
                   /\ Hand(s, next, WaitAfter(o), PrioAfter(due), act, free, runs(r[2]), Written(h(r[2]), due))
                   /\ parked' = ParkedAfter(o)
                   /\ delayed' = delayed \ due
           \/ /\ ~fetch /\ next = NoJob
              /\ active' = act /\ lock' = free /\ ats' = runs(r[2]) /\ hash' = h(r[2])
              /\ UNCHANGED <<pending, parked>>
  BY Zenon DEF Finish
<1> DEFINE gone == r[2]
<1>2. /\ NoJob \notin Jobs /\ active \in [Jobs -> Nat] /\ lock \in [Jobs -> Slots \cup {NoLock}]
      /\ hash \in [Jobs -> SUBSET Fields] /\ stalled \subseteq Jobs
      /\ ats \in [Jobs -> Nat] /\ atm \in [Jobs -> Nat] /\ stc \in [Jobs -> Nat]
      /\ completed \subseteq Jobs /\ failed \subseteq Jobs /\ delayed \subseteq Jobs
      /\ wait \in Seq(Jobs) /\ parked \in Seq(Jobs) /\ prioritized \subseteq Jobs
      /\ Distinct(wait) /\ Distinct(parked) /\ paused \in BOOLEAN
  BY KeysAssumption DEF ScriptInv, KeysTypeOK, ScriptsTypeOK, OnePlace
<1>3. /\ j \notin completed /\ j \notin failed /\ j \notin delayed /\ j \notin prioritized /\ ~InList(wait, j)
      /\ \A k \in completed \cup failed : k \notin delayed /\ k \notin prioritized /\ ~InList(wait, k)
  <2>1. ASSUME NEW k \in Jobs, active[k] > 0 \/ k \in completed \/ k \in failed
        PROVE  k \notin delayed /\ k \notin prioritized /\ ~InList(wait, k)
    <3>1. PICK key \in AllKeys \cup {"none"} : At(k, key)
      BY Placed DEF ScriptInv
    <3> QED
      BY <2>1, <3>1 DEF At
  <2>2. j \notin completed /\ j \notin failed
    <3>1. PICK key \in AllKeys \cup {"none"} : At(j, key)
      BY Placed DEF ScriptInv
    <3> QED
      BY <3>1 DEF At
  <2> QED
    BY <1>2, <2>1, <2>2
<1>4. gone \subseteq done \cup {j} /\ r[1] = (done \cup {j}) \ gone
  <2>1. done \in SUBSET Jobs /\ j \notin done
    BY <1>2, <1>3
  <2> HIDE DEF done
  <2>2. \A t \in Retention(done, j, keep) : t[2] \subseteq done \cup {j} /\ t[1] = (done \cup {j}) \ t[2]
    BY <2>1, RetentionEffect
  <2> QED
    BY <2>2
<1>5. /\ completed' = IF target = "completed" THEN (completed \cup {j}) \ gone ELSE completed
      /\ failed' = IF target = "failed" THEN (failed \cup {j}) \ gone ELSE failed
      /\ \A k \in gone : k = j \/ (target = "completed" /\ k \in completed) \/ (target = "failed" /\ k \in failed)
  BY <1>1, <1>4 DEF DoneKeys
<1>6. \A k \in gone \cup {j} : k \notin delayed /\ k \notin prioritized /\ ~InList(wait, k) /\ k \in Jobs
  BY <1>2, <1>3, <1>4
<1>7. /\ stalled' = stalled \ {j}
      /\ atm' = [k \in Jobs |-> IF k \in gone THEN 0 ELSE IF k = j THEN atm[k] + 1 ELSE atm[k]]
      /\ stc' = [k \in Jobs |-> IF k \in gone THEN 0 ELSE stc[k]]
  BY <1>1, <1>2 DEF Dropped
<1>8. /\ act \in [Jobs -> Nat] /\ \A k \in Jobs : act[k] = IF k = j THEN active[k] - 1 ELSE active[k]
  BY <1>2
<1>9. /\ free \in [Jobs -> Slots \cup {NoLock}] /\ \A k \in Jobs : free[k] = IF k = j THEN NoLock ELSE lock[k]
  BY <1>2
<1>10. /\ h(gone) \in [Jobs -> SUBSET Fields]
       /\ \A k \in Jobs : h(gone)[k] = IF k \in gone THEN {} ELSE IF k = j THEN hash[k] \cup {"result", "script"} ELSE hash[k]
  <2>1. {"result", "script"} \subseteq Fields
    BY DEF Fields
  <2> HIDE DEF gone
  <2> QED
    BY <1>2, <2>1 DEF Dropped
<1>11. /\ runs(gone) \in [Jobs -> Nat] /\ \A k \in Jobs : runs(gone)[k] = IF k \in gone THEN 0 ELSE ats[k]
  BY <1>2 DEF Dropped
<1> SUFFICES \E due : Pulled(s, next, due, act, free, runs(gone), h(gone))
  <2>0. PICK due : Pulled(s, next, due, act, free, runs(gone), h(gone))
    OBVIOUS
  <2>1. /\ Pulls(next, due)
        /\ active' = [k \in Jobs |-> IF k = next THEN act[k] + 1 ELSE act[k]]
        /\ lock' = [k \in Jobs |-> IF k = next THEN s ELSE free[k]]
        /\ ats' = [k \in Jobs |-> IF k = next THEN runs(gone)[k] + 1 ELSE runs(gone)[k]]
        /\ hash' = [k \in Jobs |-> IF k = next \/ k \in due THEN h(gone)[k] \cup {"script"} ELSE h(gone)[k]]
    BY <2>0, Zenon DEF Pulled
  <2>2. \A k \in gone \cup {j} : k # next /\ k \notin due
    BY <1>2, <1>6, <2>1 DEF Pulls
  <2> HIDE DEF gone, act, free, h, runs
  <2>3. active' = [k \in Jobs |-> IF k = next THEN active[k] + 1 ELSE IF k = j THEN active[k] - 1 ELSE active[k]]
    BY <1>8, <2>1, <2>2
  <2>4. lock' = [k \in Jobs |-> IF k = next THEN s ELSE IF k = j THEN NoLock ELSE lock[k]]
    BY <1>9, <2>1, <2>2
  <2>5. hash' = [k \in Jobs |-> IF k \in gone THEN {}
                             ELSE IF k = next \/ k \in due THEN hash[k] \cup {"script"}
                             ELSE IF k = j THEN hash[k] \cup {"result", "script"} ELSE hash[k]]
    BY <1>10, <2>1, <2>2
  <2>6. ats' = [k \in Jobs |-> IF k \in gone THEN 0 ELSE IF k = next THEN ats[k] + 1 ELSE ats[k]]
    BY <1>11, <2>1, <2>2
  <2>7. HandOver(s, next, due, j, target, gone)
    BY <1>2, <1>5, <1>7, <2>1, <2>3, <2>4, <2>5, <2>6 DEF HandOver
  <2> QED
    BY <2>7
<1>12. CASE \E due \in SUBSET delayed : \E o \in Orders(Plain(due)) :
              /\ Hand(s, next, WaitAfter(o), PrioAfter(due), act, free, runs(gone), Written(h(gone), due))
              /\ parked' = ParkedAfter(o)
              /\ delayed' = delayed \ due
  <2> HIDE DEF gone, act, free, h, runs
  <2>0. PICK due \in SUBSET delayed :
          \E o \in Orders(Plain(due)) :
              /\ Hand(s, next, WaitAfter(o), PrioAfter(due), act, free, runs(gone), Written(h(gone), due))
              /\ parked' = ParkedAfter(o)
              /\ delayed' = delayed \ due
    BY <1>12
  <2>1. PICK o \in Orders(Plain(due)) :
              /\ Hand(s, next, WaitAfter(o), PrioAfter(due), act, free, runs(gone), Written(h(gone), due))
              /\ parked' = ParkedAfter(o)
              /\ delayed' = delayed \ due
    BY <2>0
  <2>2. Pulled(s, next, due, act, free, runs(gone), h(gone))
    BY <1>8, <1>9, <1>10, <1>11, <2>1, PullEffect, Zenon
  <2> QED
    BY <2>2
<1>13. CASE /\ next = NoJob
            /\ active' = act /\ lock' = free /\ ats' = runs(gone) /\ hash' = h(gone)
            /\ UNCHANGED <<pending, parked>>
  <2> HIDE DEF gone, act, free, h, runs
  <2>1. UNCHANGED <<wait, prioritized, delayed, parked>>
    BY <1>13 DEF pending
  <2>2. Pulls(next, {})
    BY <1>2, <1>13, <2>1 DEF Pulls, Plain
  <2>3. /\ active' = [k \in Jobs |-> IF k = next THEN act[k] + 1 ELSE act[k]]
        /\ lock' = [k \in Jobs |-> IF k = next THEN s ELSE free[k]]
        /\ ats' = [k \in Jobs |-> IF k = next THEN runs(gone)[k] + 1 ELSE runs(gone)[k]]
    BY <1>2, <1>8, <1>9, <1>11, <1>13
  <2>4. hash' = [k \in Jobs |-> IF k = next \/ k \in {} THEN h(gone)[k] \cup {"script"} ELSE h(gone)[k]]
    BY <1>2, <1>10, <1>13
  <2>5. Pulled(s, next, {}, act, free, runs(gone), h(gone))
    BY <2>2, <2>3, <2>4, Zenon DEF Pulled
  <2> QED
    BY <2>5
<1> QED
  BY <1>1, <1>12, <1>13

\* So does moveToFinished, which got there only with the lock of that job.
LEMMA MoveToFinishedEffect ==
  ASSUME ScriptInv, NEW s \in Slots, NEW j \in Jobs, NEW target \in DoneKeys, NEW keep,
         NEW fetch \in BOOLEAN, NEW next \in Jobs \cup {NoJob},
         MoveToFinished(s, j, target, keep, fetch, next)
  PROVE  /\ lock[j] = s
         /\ \E due, gone : HandOver(s, next, due, j, target, gone)
<1>1. active[j] > 0 /\ lock[j] = s
  BY OwnsActive DEF MoveToFinished
<1>2. Finish(s, j, target, keep, fetch, next)
  BY <1>1 DEF MoveToFinished
<1> QED
  BY <1>1, <1>2, FinishEffect

-----------------------------------------------------------------------------
\* What the scripts do that put the active jobs S back into the queue and promote `due`;
\* `made` of them count as attempts made, the others as stalled.
Requeues(S, due, made) ==
  /\ wait' \in Seq(Jobs) /\ Distinct(wait') /\ parked' \in Seq(Jobs) /\ Distinct(parked')
  /\ prioritized' \in SUBSET Jobs /\ delayed' \in SUBSET Jobs
  /\ \A k \in S : k \in Jobs /\ active[k] > 0
  /\ due \in SUBSET delayed /\ made \subseteq S
  /\ \A k \in Jobs :
       /\ k \in S \cup due => \E key \in QueueKeys : At(k, key)'
       /\ k \notin S \cup due => \A key \in AllKeys \cup {"none"} : At(k, key) => At(k, key)'
       /\ k \in S => /\ active'[k] = active[k] - 1 /\ lock'[k] = NoLock
                     /\ atm'[k] + stc'[k] = atm[k] + stc[k] + 1
       /\ k \notin S => /\ active'[k] = active[k] /\ lock'[k] = lock[k]
                        /\ atm'[k] = atm[k] /\ stc'[k] = stc[k]
       /\ k \in made => stc'[k] = stc[k]
       /\ k \notin made => atm'[k] = atm[k]
       /\ k \in S \cup due => hash'[k] = hash[k] \cup {"script"}
       /\ k \notin S \cup due => hash'[k] = hash[k]
       /\ k \in stalled' => active'[k] > 0
  /\ UNCHANGED <<completed, failed, ats, opts, attemptsMade, paused, concurrency>>
  /\ active' \in [Jobs -> Nat] /\ lock' \in [Jobs -> Slots \cup {NoLock}]
  /\ hash' \in [Jobs -> SUBSET Fields] /\ stalled' \in SUBSET Jobs
  /\ atm' \in [Jobs -> Nat] /\ stc' \in [Jobs -> Nat]

\* Putting a set of active jobs back keeps places, locks and counts in order.
LEMMA RequeuesKeeps ==
  ASSUME ScriptInv, NEW S, NEW due, NEW made, Requeues(S, due, made), UNCHANGED add
  PROVE  OnePlace' /\ LockedActive' /\ AttemptsExact'
<1>1. /\ active \in [Jobs -> Nat] /\ NoLock \notin Slots
      /\ atm \in [Jobs -> Nat] /\ stc \in [Jobs -> Nat] /\ ats \in [Jobs -> Nat]
      /\ active' \in [Jobs -> Nat] /\ atm' \in [Jobs -> Nat] /\ stc' \in [Jobs -> Nat]
  BY KeysAssumption DEF ScriptInv, KeysTypeOK, ScriptsTypeOK, Requeues
<1>2. /\ \A k \in Jobs : Stored(k) \/ At(k, "none")
      /\ \A k \in Jobs : Stored(k) => "job" \in hash[k] /\ add[k] = "added"
      /\ \A k \in Jobs : hash[k] # {} => "job" \in hash[k]
      /\ \A k \in Jobs : active[k] <= 1
      /\ \A k \in Jobs : lock[k] # NoLock \/ k \in stalled => active[k] > 0
      /\ \A k \in Jobs : ats[k] = atm[k] + stc[k] + active[k]
  BY DEF ScriptInv, OnePlace, LockedActive, AttemptsExact, Stored
<1>3. add' = add /\ ats' = ats
  BY DEF Requeues
<1>4. \A k \in Jobs :
        /\ active'[k] <= 1
        /\ Stored(k)' => \E key \in AllKeys : At(k, key)'
        /\ ~Stored(k)' => At(k, "none")'
        /\ hash'[k] # {} => "job" \in hash'[k]
        /\ lock'[k] # NoLock \/ k \in stalled' => active'[k] > 0
        /\ ats'[k] = atm'[k] + stc'[k] + active'[k]
  <2> TAKE k \in Jobs
  <2>0. k \in stalled' => active'[k] > 0
    BY DEF Requeues
  <2>1. CASE k \in S \cup due
    <3>1. /\ \E key \in QueueKeys : At(k, key)'
          /\ hash'[k] = hash[k] \cup {"script"}
          /\ k \in S => /\ active'[k] = active[k] - 1 /\ lock'[k] = NoLock
                        /\ atm'[k] + stc'[k] = atm[k] + stc[k] + 1
          /\ k \notin S => /\ active'[k] = active[k] /\ lock'[k] = lock[k]
                           /\ atm'[k] = atm[k] /\ stc'[k] = stc[k]
      BY <2>1, Zenon DEF Requeues
    <3>2. active[k] > 0 \/ k \in delayed
      BY <2>1 DEF Requeues
    <3>3. Stored(k)
      <4>1. ~At(k, "none")
        BY <3>2 DEF At
      <4> QED
        BY <4>1, <1>2
    <3>4. Stored(k)' /\ \E key \in AllKeys : At(k, key)'
      BY <3>1, <3>3, <1>2, <1>3 DEF Stored, AllKeys
    <3>5. "job" \in hash'[k]
      BY <3>1, <3>3, <1>2
    <3>6. active'[k] <= 1 /\ ats'[k] = atm'[k] + stc'[k] + active'[k]
      BY <3>1, <1>1, <1>2, <1>3
    <3>7. lock'[k] # NoLock => active'[k] > 0
      BY <3>1, <1>2
    <3> QED
      BY <2>0, <3>4, <3>5, <3>6, <3>7
  <2>2. CASE k \notin S \cup due
    <3>1. /\ \A key \in AllKeys \cup {"none"} : At(k, key) => At(k, key)'
          /\ active'[k] = active[k] /\ lock'[k] = lock[k] /\ hash'[k] = hash[k]
          /\ atm'[k] = atm[k] /\ stc'[k] = stc[k]
      BY <2>2, Zenon DEF Requeues
    <3>2. Stored(k)' <=> Stored(k)
      BY <3>1, <1>3 DEF Stored
    <3>3. Stored(k) => \E key \in AllKeys : At(k, key)
      BY DEF ScriptInv, OnePlace, AllKeys
    <3> QED
      BY <2>0, <3>1, <3>2, <3>3, <1>1, <1>2, <1>3
  <2> QED
    BY <2>1, <2>2
<1>5. Distinct(wait)' /\ Distinct(parked)'
  BY DEF Requeues, Distinct
<1> QED
  BY <1>4, <1>5 DEF OnePlace, LockedActive, AttemptsExact, AllKeys

\* Where the ids are afterwards, when those of `listed` go to a list and the others to
\* `prioritized`.
LEMMA RequeuePlaces ==
  ASSUME ScriptInv, NEW S, NEW due \in SUBSET delayed, NEW listed, NEW k \in Jobs,
         k \in S => active[k] > 0,
         InList(wait', k) <=> InList(wait, k) \/ (~paused /\ k \in S \cup due /\ k \in listed),
         InList(parked', k) <=> InList(parked, k) \/ (paused /\ k \in S \cup due /\ k \in listed),
         k \in prioritized' <=> k \in prioritized \/ (k \in S \cup due /\ k \notin listed),
         k \in delayed' <=> k \in delayed /\ k \notin due,
         k \in S => active'[k] = active[k] - 1,
         k \notin S => active'[k] = active[k],
         UNCHANGED finished
  PROVE  /\ k \in S \cup due => \E key \in QueueKeys : At(k, key)'
         /\ k \notin S \cup due => \A key \in AllKeys \cup {"none"} : At(k, key) => At(k, key)'
<1>1. active[k] \in Nat /\ active[k] <= 1 /\ completed' = completed /\ failed' = failed /\ paused \in BOOLEAN
  BY DEF ScriptInv, KeysTypeOK, OnePlace, finished
<1>2. PICK key \in AllKeys \cup {"none"} : At(k, key)
  BY Placed DEF ScriptInv
<1>3. CASE k \in S
  <2>1. At(k, "active") /\ active[k] = 1 /\ k \notin due
    BY <1>1, <1>2, <1>3 DEF At
  <2>2. At(k, "wait")' \/ At(k, "paused")' \/ At(k, "prioritized")'
    BY <1>1, <1>3, <2>1 DEF At
  <2> QED
    BY <1>3, <2>2 DEF QueueKeys
<1>4. CASE k \notin S /\ k \in due
  <2>1. At(k, "delayed")
    BY <1>2, <1>4 DEF At
  <2>2. At(k, "wait")' \/ At(k, "paused")' \/ At(k, "prioritized")'
    BY <1>1, <1>4, <2>1 DEF At
  <2> QED
    BY <1>4, <2>2 DEF QueueKeys
<1>5. CASE k \notin S /\ k \notin due
  BY <1>1, <1>5 DEF At
<1> QED
  BY <1>3, <1>4, <1>5

\* A push at either end of a list adds the id.
LEMMA PushedList ==
  ASSUME NEW list \in Seq(Jobs), Distinct(list), NEW j \in Jobs, ~InList(list, j), NEW lifo \in BOOLEAN,
         NEW l, l = IF lifo THEN Append(list, j) ELSE <<j>> \o list
  PROVE  l \in Seq(Jobs) /\ Distinct(l) /\ \A k \in Jobs : InList(l, k) <=> InList(list, k) \/ k = j
<1>1. <<j>> \in Seq(Jobs) /\ Distinct(<<j>>) /\ \A k : InList(<<j>>, k) <=> k = j
  BY OneList
<1>2. /\ list \o <<j>> \in Seq(Jobs) /\ Distinct(list \o <<j>>)
      /\ \A k : InList(list \o <<j>>, k) <=> InList(list, k) \/ InList(<<j>>, k)
  BY <1>1, ConcatList
<1>3. /\ <<j>> \o list \in Seq(Jobs) /\ Distinct(<<j>> \o list)
      /\ \A k : InList(<<j>> \o list, k) <=> InList(<<j>>, k) \/ InList(list, k)
  BY <1>1, ConcatList
<1>4. Append(list, j) = list \o <<j>>
  OBVIOUS
<1> QED
  BY <1>1, <1>2, <1>3, <1>4

\* retryJob puts its job back if the lock is its caller's, and nothing otherwise.
LEMMA RetryJobEffect ==
  ASSUME ScriptInv, NEW s \in Slots, NEW j \in Jobs, NEW lifo \in BOOLEAN, RetryJob(s, j, lifo)
  PROVE  \E S, due : Requeues(S, due, S) /\ ((S = {} /\ lock[j] # s) \/ (S = {j} /\ lock[j] = s))
<1>0. PICK due \in SUBSET delayed :
        \E o \in Orders(Plain(due)) :
          /\ delayed' = delayed \ due
          /\ IF Owns(s, j) /\ active[j] > 0
             THEN /\ Requeued(j, o, due, lifo)
                  /\ active' = [active EXCEPT ![j] = @ - 1]
                  /\ atm' = [atm EXCEPT ![j] = @ + 1]
                  /\ hash' = Written(hash, due \cup {j})
             ELSE /\ wait' = WaitAfter(o) /\ parked' = ParkedAfter(o)
                  /\ prioritized' = PrioAfter(due)
                  /\ hash' = Written(hash, due)
                  /\ UNCHANGED <<active, atm>>
  BY Zenon DEF RetryJob
<1>1. PICK o \in Orders(Plain(due)) :
          /\ delayed' = delayed \ due
          /\ IF Owns(s, j) /\ active[j] > 0
             THEN /\ Requeued(j, o, due, lifo)
                  /\ active' = [active EXCEPT ![j] = @ - 1]
                  /\ atm' = [atm EXCEPT ![j] = @ + 1]
                  /\ hash' = Written(hash, due \cup {j})
             ELSE /\ wait' = WaitAfter(o) /\ parked' = ParkedAfter(o)
                  /\ prioritized' = PrioAfter(due)
                  /\ hash' = Written(hash, due)
                  /\ UNCHANGED <<active, atm>>
  BY <1>0
<1>2. /\ IF Owns(s, j) THEN lock' = [lock EXCEPT ![j] = NoLock] /\ stalled' = stalled \ {j}
         ELSE UNCHANGED <<lock, stalled>>
      /\ UNCHANGED <<completed, failed, attemptsMade, opts, paused, ats, stc, concurrency>>
  BY DEF RetryJob, RemoveLock, DelLock, finished
<1>3. /\ active \in [Jobs -> Nat] /\ lock \in [Jobs -> Slots \cup {NoLock}] /\ NoLock \notin Slots
      /\ hash \in [Jobs -> SUBSET Fields] /\ stalled \subseteq Jobs /\ paused \in BOOLEAN
      /\ atm \in [Jobs -> Nat] /\ stc \in [Jobs -> Nat] /\ delayed \subseteq Jobs
      /\ \A k \in stalled : active[k] > 0
  BY KeysAssumption DEF ScriptInv, KeysTypeOK, ScriptsTypeOK, LockedActive
<1>4. /\ WaitAfter(o) \in Seq(Jobs) /\ Distinct(WaitAfter(o))
      /\ \A k : InList(WaitAfter(o), k) <=> InList(wait, k) \/ (~paused /\ k \in Plain(due))
      /\ ParkedAfter(o) \in Seq(Jobs) /\ Distinct(ParkedAfter(o))
      /\ \A k : InList(ParkedAfter(o), k) <=> InList(parked, k) \/ (paused /\ k \in Plain(due))
      /\ PrioAfter(due) \in SUBSET Jobs
      /\ \A k \in Jobs : k \in PrioAfter(due) <=> k \in prioritized \/ (k \in due /\ k \notin Plain(due))
  BY PromotedLists
<1>5. "script" \in Fields
  BY DEF Fields
<1> DEFINE listed == { k \in Jobs : PriorityField(k) = 0 }
<1>6. \A k \in Jobs : k \in Plain(due) <=> k \in due /\ k \in listed
  BY DEF Plain
<1>7. CASE Owns(s, j)
  <2>1. active[j] > 0 /\ lock[j] = s
    BY <1>7, OwnsActive
  <2>2. /\ Requeued(j, o, due, lifo)
        /\ active' = [active EXCEPT ![j] = @ - 1]
        /\ atm' = [atm EXCEPT ![j] = @ + 1]
        /\ hash' = Written(hash, due \cup {j})
        /\ lock' = [lock EXCEPT ![j] = NoLock] /\ stalled' = stalled \ {j}
    BY <1>1, <1>2, <1>7, <2>1
  <2>3. ~InList(wait, j) /\ ~InList(parked, j) /\ j \notin due
    <3>1. PICK key \in AllKeys \cup {"none"} : At(j, key)
      BY Placed DEF ScriptInv
    <3> QED
      BY <2>1, <3>1 DEF At
  <2>4. ~InList(WaitAfter(o), j) /\ ~InList(ParkedAfter(o), j)
    BY <1>4, <1>6, <2>3
  <2> DEFINE plain == PriorityField(j) = 0
  <2> DEFINE pushed(list) == IF lifo THEN Append(list, j) ELSE <<j>> \o list
  <2>5. /\ wait' = IF plain /\ ~paused THEN pushed(WaitAfter(o)) ELSE WaitAfter(o)
        /\ parked' = IF plain /\ paused THEN pushed(ParkedAfter(o)) ELSE ParkedAfter(o)
        /\ prioritized' = IF plain THEN PrioAfter(due) ELSE PrioAfter(due) \cup {j}
    BY <2>2, Zenon DEF Requeued
  <2>6. /\ pushed(WaitAfter(o)) \in Seq(Jobs) /\ Distinct(pushed(WaitAfter(o)))
        /\ \A k \in Jobs : InList(pushed(WaitAfter(o)), k) <=> InList(WaitAfter(o), k) \/ k = j
    BY <1>4, <2>4, PushedList
  <2>7. /\ pushed(ParkedAfter(o)) \in Seq(Jobs) /\ Distinct(pushed(ParkedAfter(o)))
        /\ \A k \in Jobs : InList(pushed(ParkedAfter(o)), k) <=> InList(ParkedAfter(o), k) \/ k = j
    BY <1>4, <2>4, PushedList
  <2>8. plain <=> j \in listed
    OBVIOUS
  <2> HIDE DEF pushed, plain, listed
  <2>9. /\ wait' \in Seq(Jobs) /\ Distinct(wait') /\ parked' \in Seq(Jobs) /\ Distinct(parked')
        /\ prioritized' \in SUBSET Jobs /\ delayed' \in SUBSET Jobs
    BY <1>1, <1>3, <1>4, <2>5, <2>6, <2>7
  <2>10. ASSUME NEW k \in Jobs
         PROVE  /\ InList(wait', k) <=> InList(wait, k) \/ (~paused /\ k \in {j} \cup due /\ k \in listed)
                /\ InList(parked', k) <=> InList(parked, k) \/ (paused /\ k \in {j} \cup due /\ k \in listed)
                /\ k \in prioritized' <=> k \in prioritized \/ (k \in {j} \cup due /\ k \notin listed)
                /\ k \in delayed' <=> k \in delayed /\ k \notin due
    <3>1. InList(wait', k) <=> InList(WaitAfter(o), k) \/ (k = j /\ plain /\ ~paused)
      BY <2>5, <2>6
    <3>2. InList(parked', k) <=> InList(ParkedAfter(o), k) \/ (k = j /\ plain /\ paused)
      BY <2>5, <2>7
    <3>3. k \in prioritized' <=> k \in PrioAfter(due) \/ (k = j /\ ~plain)
      BY <2>5
    <3>4. k \in delayed' <=> k \in delayed /\ k \notin due
      BY <1>1
    <3> QED
      BY <1>4, <1>6, <2>8, <3>1, <3>2, <3>3, <3>4
  <2>11. ASSUME NEW k \in Jobs
         PROVE  /\ k = j => active'[k] = active[k] - 1 /\ lock'[k] = NoLock /\ atm'[k] = atm[k] + 1
                /\ k # j => active'[k] = active[k] /\ lock'[k] = lock[k] /\ atm'[k] = atm[k]
                /\ stc'[k] = stc[k]
                /\ k \in {j} \cup due => hash'[k] = hash[k] \cup {"script"}
                /\ k \notin {j} \cup due => hash'[k] = hash[k]
                /\ k \in stalled' => active'[k] > 0
    BY <1>2, <1>3, <2>2 DEF Written
  <2>12. ASSUME NEW k \in Jobs
         PROVE  /\ k \in {j} \cup due => \E key \in QueueKeys : At(k, key)'
                /\ k \notin {j} \cup due => \A key \in AllKeys \cup {"none"} : At(k, key) => At(k, key)'
    <3>1. k \in {j} => active[k] > 0
      BY <2>1
    <3>2. (k \in {j} => active'[k] = active[k] - 1) /\ (k \notin {j} => active'[k] = active[k])
      BY <2>11
    <3>3. UNCHANGED finished
      BY <1>2 DEF finished
    <3> QED
      BY <2>10, <3>1, <3>2, <3>3, RequeuePlaces
  <2>13. /\ active' \in [Jobs -> Nat] /\ lock' \in [Jobs -> Slots \cup {NoLock}]
         /\ stalled' \in SUBSET Jobs
         /\ atm' \in [Jobs -> Nat] /\ stc' \in [Jobs -> Nat]
    BY <1>2, <1>3, <2>1, <2>2
  <2>14. hash' \in [Jobs -> SUBSET Fields]
    BY <1>3, <1>5, <2>2 DEF Written
  <2>15. \A k \in Jobs : k \in {j} => atm'[k] + stc'[k] = atm[k] + stc[k] + 1
    BY <1>3, <2>11
  <2>16. Requeues({j}, due, {j})
    BY <1>2, <2>1, <2>9, <2>11, <2>12, <2>13, <2>14, <2>15 DEF Requeues
  <2> QED
    BY <2>1, <2>16
<1>8. CASE ~Owns(s, j)
  <2>1. /\ wait' = WaitAfter(o) /\ parked' = ParkedAfter(o)
        /\ prioritized' = PrioAfter(due) /\ delayed' = delayed \ due
        /\ hash' = Written(hash, due)
        /\ UNCHANGED <<active, atm, lock, stalled>>
    BY <1>1, <1>2, <1>8
  <2> HIDE DEF listed
  <2>2. ASSUME NEW k \in Jobs
        PROVE  /\ InList(wait', k) <=> InList(wait, k) \/ (~paused /\ k \in {} \cup due /\ k \in listed)
               /\ InList(parked', k) <=> InList(parked, k) \/ (paused /\ k \in {} \cup due /\ k \in listed)
               /\ k \in prioritized' <=> k \in prioritized \/ (k \in {} \cup due /\ k \notin listed)
               /\ k \in delayed' <=> k \in delayed /\ k \notin due
    BY <1>4, <1>6, <2>1
  <2>3. ASSUME NEW k \in Jobs
        PROVE  /\ k \in {} \cup due => \E key \in QueueKeys : At(k, key)'
               /\ k \notin {} \cup due => \A key \in AllKeys \cup {"none"} : At(k, key) => At(k, key)'
    <3>1. UNCHANGED finished
      BY <1>2 DEF finished
    <3>2. /\ k \in {} => active[k] > 0
          /\ k \in {} => active'[k] = active[k] - 1
          /\ k \notin {} => active'[k] = active[k]
      BY <2>1
    <3> QED
      BY <2>2, <3>1, <3>2, RequeuePlaces
  <2>4. hash' \in [Jobs -> SUBSET Fields]
    BY <1>3, <1>5, <2>1 DEF Written
  <2>5. \A k \in Jobs : /\ k \in {} \cup due => hash'[k] = hash[k] \cup {"script"}
                        /\ k \notin {} \cup due => hash'[k] = hash[k]
    BY <2>1 DEF Written
  <2>6. /\ wait' \in Seq(Jobs) /\ Distinct(wait') /\ parked' \in Seq(Jobs) /\ Distinct(parked')
        /\ prioritized' \in SUBSET Jobs /\ delayed' \in SUBSET Jobs
    BY <1>3, <1>4, <2>1
  <2>7. Requeues({}, due, {})
    BY <1>2, <1>3, <2>1, <2>3, <2>4, <2>5, <2>6 DEF Requeues
  <2>8. lock[j] # s
    <3> SUFFICES ASSUME lock[j] = s PROVE FALSE
      OBVIOUS
    <3>1. active[j] > 0
      BY <1>3 DEF ScriptInv, LockedActive
    <3>2. hash[j] # {}
      BY <3>1 DEF ScriptInv, OnePlace, Stored, At
    <3> QED
      BY <1>8, <3>2 DEF Owns
  <2> QED
    BY <2>7, <2>8
<1> QED
  BY <1>7, <1>8

\* moveStalledJobsToWait puts back the jobs with a mark and without a lock.
LEMMA StallEffect ==
  ASSUME ScriptInv, MoveStalledJobsToWait
  PROVE  Requeues(Stalling, {}, {})
<1>1. PICK o \in Orders(Stalling) :
        /\ wait' = IF paused THEN wait ELSE wait \o o
        /\ parked' = IF paused THEN parked \o o ELSE parked
  BY DEF MoveStalledJobsToWait
<1>2. /\ active' = [k \in Jobs |-> IF k \in Stalling THEN active[k] - 1 ELSE active[k]]
      /\ stc' = [k \in Jobs |-> IF k \in Stalling THEN stc[k] + 1 ELSE stc[k]]
      /\ hash' = [k \in Jobs |-> IF k \in Stalling THEN hash[k] \cup {"script"} ELSE hash[k]]
      /\ stalled' = { k \in Jobs : active'[k] > 0 }
      /\ UNCHANGED <<prioritized, delayed, completed, failed, attemptsMade, opts, lock, paused, ats, atm, concurrency>>
  BY DEF MoveStalledJobsToWait, StalledCounts, Written, finished
<1>3. /\ active \in [Jobs -> Nat] /\ lock \in [Jobs -> Slots \cup {NoLock}] /\ NoLock \notin Slots
      /\ hash \in [Jobs -> SUBSET Fields] /\ stalled \subseteq Jobs /\ paused \in BOOLEAN
      /\ atm \in [Jobs -> Nat] /\ stc \in [Jobs -> Nat] /\ delayed \subseteq Jobs /\ prioritized \subseteq Jobs
      /\ wait \in Seq(Jobs) /\ parked \in Seq(Jobs) /\ Distinct(wait) /\ Distinct(parked)
  BY KeysAssumption DEF ScriptInv, KeysTypeOK, ScriptsTypeOK, OnePlace
<1>4. /\ Stalling \in SUBSET Jobs
      /\ \A k \in Stalling : k \in stalled /\ active[k] > 0 /\ lock[k] = NoLock
  BY <1>3 DEF Stalling
<1>5. \A k \in Stalling : ~InList(wait, k) /\ ~InList(parked, k)
  <2> TAKE k \in Stalling
  <2>1. PICK key \in AllKeys \cup {"none"} : At(k, key)
    BY <1>4, Placed DEF ScriptInv
  <2> QED
    BY <1>4, <2>1 DEF At
<1>6. o \in Seq(Jobs) /\ Distinct(o) /\ \A k : InList(o, k) <=> k \in Stalling
  BY <1>4, OrdersList
<1>7. /\ wait \o o \in Seq(Jobs) /\ Distinct(wait \o o)
      /\ \A k : InList(wait \o o, k) <=> InList(wait, k) \/ InList(o, k)
  BY <1>3, <1>5, <1>6, ConcatList
<1>8. /\ parked \o o \in Seq(Jobs) /\ Distinct(parked \o o)
      /\ \A k : InList(parked \o o, k) <=> InList(parked, k) \/ InList(o, k)
  BY <1>3, <1>5, <1>6, ConcatList
<1>9. /\ wait' \in Seq(Jobs) /\ Distinct(wait') /\ parked' \in Seq(Jobs) /\ Distinct(parked')
      /\ prioritized' \in SUBSET Jobs /\ delayed' \in SUBSET Jobs
  BY <1>1, <1>2, <1>3, <1>7, <1>8
<1>10. ASSUME NEW k \in Jobs
       PROVE  /\ InList(wait', k) <=> InList(wait, k) \/ (~paused /\ k \in Stalling \cup {} /\ k \in Jobs)
              /\ InList(parked', k) <=> InList(parked, k) \/ (paused /\ k \in Stalling \cup {} /\ k \in Jobs)
              /\ k \in prioritized' <=> k \in prioritized \/ (k \in Stalling \cup {} /\ k \notin Jobs)
              /\ k \in delayed' <=> k \in delayed /\ k \notin {}
  BY <1>1, <1>2, <1>3, <1>6, <1>7, <1>8
<1>11. ASSUME NEW k \in Jobs
       PROVE  /\ k \in Stalling => active'[k] = active[k] - 1 /\ stc'[k] = stc[k] + 1 /\ hash'[k] = hash[k] \cup {"script"}
              /\ k \notin Stalling => active'[k] = active[k] /\ stc'[k] = stc[k] /\ hash'[k] = hash[k]
              /\ k \in Stalling => lock'[k] = NoLock
              /\ lock'[k] = lock[k] /\ atm'[k] = atm[k]
              /\ k \in stalled' => active'[k] > 0
  BY <1>2, <1>4
<1>12. ASSUME NEW k \in Jobs
       PROVE  /\ k \in Stalling \cup {} => \E key \in QueueKeys : At(k, key)'
              /\ k \notin Stalling \cup {} => \A key \in AllKeys \cup {"none"} : At(k, key) => At(k, key)'
  <2> DEFINE none == {}
  <2> DEFINE listed == Jobs
  <2>1. /\ k \in Stalling => active[k] > 0
        /\ k \in Stalling => active'[k] = active[k] - 1
        /\ k \notin Stalling => active'[k] = active[k]
    BY <1>4, <1>11
  <2>2. UNCHANGED finished
    BY <1>2 DEF finished
  <2>3. none \in SUBSET delayed
    OBVIOUS
  <2>4. /\ InList(wait', k) <=> InList(wait, k) \/ (~paused /\ k \in Stalling \cup none /\ k \in listed)
        /\ InList(parked', k) <=> InList(parked, k) \/ (paused /\ k \in Stalling \cup none /\ k \in listed)
        /\ k \in prioritized' <=> k \in prioritized \/ (k \in Stalling \cup none /\ k \notin listed)
        /\ k \in delayed' <=> k \in delayed /\ k \notin none
    BY <1>10
  <2>5. none = {}
    OBVIOUS
  <2> HIDE DEF none, listed
  <2>6. /\ k \in Stalling \cup none => \E key \in QueueKeys : At(k, key)'
        /\ k \notin Stalling \cup none => \A key \in AllKeys \cup {"none"} : At(k, key) => At(k, key)'
    BY <2>1, <2>2, <2>3, <2>4, RequeuePlaces
  <2> QED
    BY <2>5, <2>6
<1>13. active' \in [Jobs -> Nat]
  <2>1. ASSUME NEW k \in Jobs PROVE active'[k] \in Nat
    <3>1. CASE k \in Stalling
      BY <3>1, <1>3, <1>4, <1>11
    <3>2. CASE k \notin Stalling
      BY <3>2, <1>3, <1>11
    <3> QED
      BY <3>1, <3>2
  <2> QED
    BY <1>2, <2>1
<1>14. /\ lock' \in [Jobs -> Slots \cup {NoLock}] /\ stalled' \in SUBSET Jobs
       /\ atm' \in [Jobs -> Nat] /\ stc' \in [Jobs -> Nat]
  BY <1>2, <1>3
<1>15. hash' \in [Jobs -> SUBSET Fields]
  BY <1>2, <1>3 DEF Fields
<1>16. \A k \in Jobs : k \in Stalling => atm'[k] + stc'[k] = atm[k] + stc[k] + 1
  BY <1>3, <1>11
<1>17. Requeues(Stalling, {}, {})
  BY <1>2, <1>4, <1>9, <1>11, <1>12, <1>13, <1>14, <1>15, <1>16 DEF Requeues
<1> QED
  BY <1>17

-----------------------------------------------------------------------------
\* A hash that Add stored is there until its id is enqueued.
HashKept == \A j \in Jobs : add[j] = "stored" => "job" \in hash[j]

\* No removed hash comes back by a hand-over.
LEMMA HandOverHash ==
  ASSUME ScriptInv, HashKept, NEW s \in Slots, NEW next \in Jobs \cup {NoJob}, NEW due,
         NEW j \in Jobs \cup {NoJob}, NEW target, NEW gone,
         HandOver(s, next, due, j, target, gone), UNCHANGED add
  PROVE  HashKept'
<1> SUFFICES ASSUME NEW k \in Jobs, add'[k] = "stored" PROVE "job" \in hash'[k]
  BY DEF HashKept
<1>1. Moved(next, due, j, target, gone, k) /\ Assigned(s, next, due, j, gone, k)
  BY HandOverPlaces, HandOverFields, Zenon
<1>2. At(k, "none") /\ "job" \in hash[k]
  BY DEF ScriptInv, OnePlace, Stored, HashKept
<1>3. k \notin gone
  <2>1. k \in gone /\ k # j => \E key \in DoneKeys : At(k, key)
    BY <1>1, Zenon DEF Moved
  <2>2. k \in gone /\ k = j => At(k, "active")
    BY <1>1, Zenon DEF Moved
  <2> QED
    BY <1>2, <2>1, <2>2 DEF At, DoneKeys
<1>4. hash'[k] = hash[k] \cup {"script"} \/ hash'[k] = hash[k] \cup {"result", "script"} \/ hash'[k] = hash[k]
  BY <1>1, <1>3, Zenon DEF Assigned
<1> QED
  BY <1>2, <1>4

\* Nor by putting jobs back.
LEMMA RequeuesHash ==
  ASSUME HashKept, NEW S, NEW due, NEW made, Requeues(S, due, made), UNCHANGED add
  PROVE  HashKept'
<1> SUFFICES ASSUME NEW k \in Jobs, add'[k] = "stored" PROVE "job" \in hash'[k]
  BY DEF HashKept
<1>1. hash'[k] = hash[k] \cup {"script"} \/ hash'[k] = hash[k]
  BY Zenon DEF Requeues
<1> QED
  BY <1>1 DEF HashKept

\* Id j is entered by its producer, at once or with the hash before the id.
Entering(j) ==
  /\ add[j] # "added"
  /\ \A k \in Jobs : k # j => add'[k] = add[k] /\ hash'[k] = hash[k]
  /\ "job" \in hash'[j]
  /\ \A k \in Jobs : k # j => \A key \in AllKeys \cup {"none"} : At(k, key) => At(k, key)'
  /\ \/ add'[j] # "added" /\ At(j, "none")'
     \/ add'[j] = "added" /\ \E key \in QueueKeys : At(j, key)'
  /\ wait' \in Seq(Jobs) /\ Distinct(wait') /\ parked' \in Seq(Jobs) /\ Distinct(parked')
  /\ prioritized' \in SUBSET Jobs /\ delayed' \in SUBSET Jobs
  /\ UNCHANGED <<active, completed, failed, lock, stalled, ats, atm, stc>>

\* A job that enters the queue keeps places, locks, counts and hashes in order.
LEMMA EnteringKeeps ==
  ASSUME ScriptInv, HashKept, NEW j \in Jobs, Entering(j)
  PROVE  OnePlace' /\ LockedActive' /\ AttemptsExact' /\ HashKept'
<1>1. UNCHANGED <<active, lock, stalled, ats, atm, stc>>
  BY DEF Entering
<1>2. \A k \in Jobs : active[k] <= 1
  BY DEF ScriptInv, OnePlace
<1>3. ASSUME NEW k \in Jobs
      PROVE  /\ Stored(k)' => \E key \in AllKeys : At(k, key)'
             /\ ~Stored(k)' => At(k, "none")'
             /\ hash'[k] # {} => "job" \in hash'[k]
             /\ add'[k] = "stored" => "job" \in hash'[k]
  <2>1. CASE k = j
    BY <2>1 DEF Entering, Stored, AllKeys
  <2>2. CASE k # j
    <3>1. add'[k] = add[k] /\ hash'[k] = hash[k] /\ \A key \in AllKeys \cup {"none"} : At(k, key) => At(k, key)'
      BY <2>2 DEF Entering
    <3>2. Stored(k) => \E key \in AllKeys : At(k, key)
      BY DEF ScriptInv, OnePlace, AllKeys
    <3>3. ~Stored(k) => At(k, "none")
      BY DEF ScriptInv, OnePlace
    <3>4. (hash[k] # {} => "job" \in hash[k]) /\ (add[k] = "stored" => "job" \in hash[k])
      BY DEF ScriptInv, OnePlace, HashKept
    <3>5. Stored(k)' <=> Stored(k)
      BY <3>1 DEF Stored
    <3> QED
      BY <3>1, <3>2, <3>3, <3>4, <3>5
  <2> QED
    BY <2>1, <2>2
<1>4. Distinct(wait)' /\ Distinct(parked)'
  BY DEF Entering, Distinct
<1>5. OnePlace' /\ HashKept'
  BY <1>1, <1>2, <1>3, <1>4 DEF OnePlace, HashKept, AllKeys
<1>6. LockedActive' /\ AttemptsExact'
  BY <1>1 DEF ScriptInv, LockedActive, AttemptsExact
<1> QED
  BY <1>5, <1>6

\* A job whose Add has not succeeded is in no key.
LEMMA Entered ==
  ASSUME ScriptInv, NEW j \in Jobs, add[j] # "added"
  PROVE  At(j, "none") /\ active[j] = 0
BY DEF ScriptInv, OnePlace, Stored, KeysTypeOK, At

\* HSET of Add is such an entry,
LEMMA StoreEnters ==
  ASSUME ScriptInv, NEW j \in Jobs, StoreJobHash(j), UNCHANGED scriptKeys
  PROVE  Entering(j)
<1>1. /\ add[j] = "new" /\ add' = [add EXCEPT ![j] = "stored"]
      /\ hash' = [hash EXCEPT ![j] = {"job", "attemptsMade"}]
      /\ UNCHANGED <<wait, prioritized, delayed, active, completed, failed, lock, parked, stalled, ats, atm, stc>>
  BY DEF StoreJobHash, scriptKeys, pending, finished
<1>2. /\ add \in [Jobs -> AddStates] /\ hash \in [Jobs -> SUBSET Fields]
      /\ wait \in Seq(Jobs) /\ Distinct(wait) /\ parked \in Seq(Jobs) /\ Distinct(parked)
      /\ prioritized \subseteq Jobs /\ delayed \subseteq Jobs
  BY DEF ScriptInv, ProducerTypeOK, KeysTypeOK, ScriptsTypeOK, OnePlace
<1>3. \A k \in Jobs, key \in AllKeys \cup {"none"} : At(k, key) => At(k, key)'
  BY <1>1 DEF At, InList
<1>4. At(j, "none")
  BY <1>1, Entered
<1> QED
  BY <1>1, <1>2, <1>3, <1>4 DEF Entering

\* so is the command that enqueues the id,
LEMMA EnqueueEnters ==
  ASSUME ScriptInv, HashKept, NEW j \in Jobs, EnqueueJob(j), UNCHANGED scriptKeys
  PROVE  Entering(j)
<1>1. /\ add[j] = "stored" /\ add' = [add EXCEPT ![j] = "added"]
      /\ UNCHANGED <<active, completed, failed, hash, lock, parked, stalled, ats, atm, stc>>
      /\ \/ delayed' = delayed \cup {j} /\ UNCHANGED <<wait, prioritized>>
         \/ prioritized' = prioritized \cup {j} /\ UNCHANGED <<wait, delayed>>
         \/ wait' = <<j>> \o wait /\ UNCHANGED <<prioritized, delayed>>
  BY DEF EnqueueJob, scriptKeys, finished, hashes, LPushWait
<1>2. /\ add \in [Jobs -> AddStates] /\ hash \in [Jobs -> SUBSET Fields]
      /\ wait \in Seq(Jobs) /\ Distinct(wait) /\ parked \in Seq(Jobs) /\ Distinct(parked)
      /\ prioritized \subseteq Jobs /\ delayed \subseteq Jobs
  BY DEF ScriptInv, ProducerTypeOK, KeysTypeOK, ScriptsTypeOK, OnePlace
<1>3. At(j, "none")
  BY <1>1, Entered
<1>4. ~InList(wait, j)
  BY <1>3 DEF At
<1>5. /\ <<j>> \o wait \in Seq(Jobs) /\ Distinct(<<j>> \o wait)
      /\ \A k \in Jobs : InList(<<j>> \o wait, k) <=> InList(wait, k) \/ k = j
  BY <1>2, <1>4, PushedList
<1>6. /\ wait' \in Seq(Jobs) /\ Distinct(wait')
      /\ prioritized' \in SUBSET Jobs /\ delayed' \in SUBSET Jobs
  BY <1>1, <1>2, <1>5
<1>7. ASSUME NEW k \in Jobs, k # j
      PROVE  \A key \in AllKeys \cup {"none"} : At(k, key) => At(k, key)'
  <2>1. (InList(wait', k) <=> InList(wait, k)) /\ (k \in prioritized' <=> k \in prioritized)
        /\ (k \in delayed' <=> k \in delayed)
    BY <1>1, <1>5, <1>7
  <2> QED
    BY <1>1, <2>1 DEF At
<1>8. At(j, "delayed")' \/ At(j, "prioritized")' \/ At(j, "wait")'
  BY <1>1, <1>3, <1>5 DEF At
<1>9. "job" \in hash'[j]
  BY <1>1 DEF HashKept
<1> QED
  BY <1>1, <1>2, <1>6, <1>7, <1>8, <1>9 DEF Entering, QueueKeys

\* and so is the Add of another library.
LEMMA ForeignEnters ==
  ASSUME ScriptInv, NEW j \in Jobs, AddForeign(j)
  PROVE  Entering(j)
<1>1. PICK o \in JobOptions :
        LET o1 == WithDefaults(o)
            plain == ~o1.delay /\ o1.priority = 0
        IN /\ opts' = [opts EXCEPT ![j] = o1]
           /\ delayed' = IF o1.delay THEN delayed \cup {j} ELSE delayed
           /\ prioritized' = IF ~o1.delay /\ o1.priority > 0 THEN prioritized \cup {j} ELSE prioritized
           /\ wait' = IF plain /\ ~paused THEN <<j>> \o wait ELSE wait
           /\ parked' = IF plain /\ paused THEN <<j>> \o parked ELSE parked
  BY Zenon DEF AddForeign
<1>2. /\ add[j] = "new" /\ add' = [add EXCEPT ![j] = "added"] /\ hash' = [hash EXCEPT ![j] = {"job"}]
      /\ UNCHANGED <<active, completed, failed, lock, stalled, ats, atm, stc>>
  BY DEF AddForeign, finished, tallies
<1>3. WithDefaults(o) \in OptionsType
  BY KeysAssumption DEF WithDefaults, OptionsType
<1>4. \/ /\ delayed' = delayed \cup {j} /\ UNCHANGED <<wait, parked, prioritized>>
      \/ /\ prioritized' = prioritized \cup {j} /\ UNCHANGED <<wait, parked, delayed>>
      \/ /\ wait' = <<j>> \o wait /\ UNCHANGED <<parked, prioritized, delayed>>
      \/ /\ parked' = <<j>> \o parked /\ UNCHANGED <<wait, prioritized, delayed>>
  <2>1. WithDefaults(o).delay \in BOOLEAN /\ WithDefaults(o).priority \in Nat
    BY <1>3 DEF OptionsType
  <2>2. WithDefaults(o).priority > 0 \/ WithDefaults(o).priority = 0
    BY <2>1
  <2>3. ~(WithDefaults(o).priority > 0 /\ WithDefaults(o).priority = 0)
    BY <2>1
  <2> QED
    BY <1>1, <2>1, <2>2, <2>3, Zenon
<1>5. /\ add \in [Jobs -> AddStates] /\ hash \in [Jobs -> SUBSET Fields]
      /\ wait \in Seq(Jobs) /\ Distinct(wait) /\ parked \in Seq(Jobs) /\ Distinct(parked)
      /\ prioritized \subseteq Jobs /\ delayed \subseteq Jobs
  BY DEF ScriptInv, ProducerTypeOK, KeysTypeOK, ScriptsTypeOK, OnePlace
<1>6. At(j, "none")
  BY <1>2, Entered
<1>7. ~InList(wait, j) /\ ~InList(parked, j)
  BY <1>6 DEF At
<1>8. /\ <<j>> \o wait \in Seq(Jobs) /\ Distinct(<<j>> \o wait)
      /\ \A k \in Jobs : InList(<<j>> \o wait, k) <=> InList(wait, k) \/ k = j
  BY <1>5, <1>7, PushedList
<1>9. /\ <<j>> \o parked \in Seq(Jobs) /\ Distinct(<<j>> \o parked)
      /\ \A k \in Jobs : InList(<<j>> \o parked, k) <=> InList(parked, k) \/ k = j
  BY <1>5, <1>7, PushedList
<1>10. /\ wait' \in Seq(Jobs) /\ Distinct(wait') /\ parked' \in Seq(Jobs) /\ Distinct(parked')
       /\ prioritized' \in SUBSET Jobs /\ delayed' \in SUBSET Jobs
  BY <1>4, <1>5, <1>8, <1>9
<1>11. ASSUME NEW k \in Jobs, k # j
       PROVE  \A key \in AllKeys \cup {"none"} : At(k, key) => At(k, key)'
  <2>1. (InList(wait', k) <=> InList(wait, k)) /\ (InList(parked', k) <=> InList(parked, k))
        /\ (k \in prioritized' <=> k \in prioritized) /\ (k \in delayed' <=> k \in delayed)
    BY <1>4, <1>8, <1>9, <1>11
  <2> QED
    BY <1>2, <2>1 DEF At
<1>12. At(j, "delayed")' \/ At(j, "prioritized")' \/ At(j, "wait")' \/ At(j, "paused")'
  BY <1>2, <1>4, <1>6, <1>8, <1>9 DEF At
<1> QED
  BY <1>2, <1>5, <1>10, <1>11, <1>12 DEF Entering, QueueKeys

\* No id moves and no count changes; a lock may go, and the queue may be paused or resumed.
Still ==
  /\ UNCHANGED <<wait, parked, prioritized, delayed, active, completed, failed, hash, opts,
                 attemptsMade, ats, atm, stc, add>>
  /\ lock' \in [Jobs -> Slots \cup {NoLock}]
  /\ \A k \in Jobs : lock'[k] = lock[k] \/ lock'[k] = NoLock
  /\ lock' = lock \/ \E j \in Jobs : lock' = [lock EXCEPT ![j] = NoLock]
  /\ stalled' \in SUBSET stalled

\* A step that moves no id keeps places, locks, counts and hashes in order.
LEMMA StillKeeps ==
  ASSUME ScriptInv, HashKept, Still
  PROVE  /\ OnePlace' /\ LockedActive' /\ AttemptsExact' /\ HashKept'
         /\ \A k \in Jobs, key \in AllKeys \cup {"none"} : At(k, key) => At(k, key)'
<1>1. \A k \in Jobs, key \in AllKeys \cup {"none"} : At(k, key)' <=> At(k, key)
  BY DEF Still, At, InList
<1>2. \A k \in Jobs : Stored(k)' <=> Stored(k)
  BY DEF Still, Stored
<1>3. OnePlace'
  BY <1>1, <1>2 DEF Still, ScriptInv, OnePlace, AllKeys, Distinct
<1>4. LockedActive' /\ AttemptsExact' /\ HashKept'
  BY DEF Still, ScriptInv, LockedActive, AttemptsExact, HashKept
<1> QED
  BY <1>1, <1>3, <1>4

-----------------------------------------------------------------------------
\* A slot that repeats a call has no lock: the call that it repeats deleted it.
AgainUnlocked == \A s \in Slots : pc[s] = "again" => lock[held[s]] # s

\* The check marks no job that was handed out or renewed since.
FreshUnmarked == fresh \cap stalled = {}

SlotInv == HeldLocked /\ AgainUnlocked /\ FreshUnmarked

SlotTypes ==
  /\ pc \in [Slots -> {"idle", "work", "again"}]
  /\ held \in [Slots -> Jobs \cup {NoJob}]
  /\ \A s \in Slots : pc[s] = "idle" <=> held[s] = NoJob
  /\ late \subseteq Slots

\* After a hand-over every slot knows what it holds: the caller gave up its old job or had none.
LEMMA HandOverSlots ==
  ASSUME ScriptInv, SlotTypes, SlotInv,
         NEW s \in Slots, NEW next \in Jobs \cup {NoJob}, NEW due,
         NEW j \in Jobs \cup {NoJob}, NEW target, NEW gone,
         HandOver(s, next, due, j, target, gone),
         j = NoJob \/ lock[j] = s,
         \/ GoesOn(s, next)
         \/ pc[s] = "idle" /\ UNCHANGED <<pc, held, late>>
         \/ /\ j = held[s] /\ j \in Jobs
            /\ pc' = [pc EXCEPT ![s] = "again"] /\ UNCHANGED <<held, late>>,
         fresh' = { k \in fresh \cup ({next} \cap Jobs) : active'[k] > 0 }
  PROVE  SlotInv'
<1>1. /\ NoJob \notin Jobs /\ NoLock \notin Slots
      /\ pc \in [Slots -> {"idle", "work", "again"}]
      /\ held \in [Slots -> Jobs \cup {NoJob}]
      /\ \A t \in Slots : pc[t] # "idle" => held[t] \in Jobs
  BY KeysAssumption DEF SlotTypes
<1>2. ASSUME next \in Jobs PROVE next \notin stalled /\ lock[next] = NoLock /\ next # j /\ lock'[next] = s
  <2>1. Moved(next, due, j, target, gone, next) /\ Assigned(s, next, due, j, gone, next)
    BY <1>2, HandOverPlaces, HandOverFields, Zenon
  <2>2. active[next] = 0 /\ next # j
    BY <2>1, Zenon DEF Moved
  <2>3. lock'[next] = s
    BY <2>1, Zenon DEF Assigned
  <2>4. ~(active[next] > 0)
    BY <2>2
  <2> QED
    BY <1>2, <2>2, <2>3, <2>4 DEF ScriptInv, LockedActive
<1>3. ASSUME NEW k \in Jobs, k # next
      PROVE  /\ k = j => lock'[k] = NoLock
             /\ k # j => lock'[k] = lock[k]
  <2>1. Assigned(s, next, due, j, gone, k)
    BY HandOverFields, Zenon
  <2> QED
    BY <1>3, <2>1, Zenon DEF Assigned
<1>4. ASSUME NEW t \in Slots, pc'[t] = "work", t \notin late' PROVE lock'[held'[t]] = t
  <2>1. CASE t = s /\ GoesOn(s, next)
    <3>1. held'[s] = next /\ next \in Jobs
      BY <1>1, <1>4, <2>1 DEF GoesOn
    <3> QED
      BY <1>2, <2>1, <3>1
  <2>2. CASE ~(t = s /\ GoesOn(s, next))
    <3>1. pc[t] = "work" /\ held'[t] = held[t] /\ t \notin late /\ (j \in Jobs => t # s)
      BY <1>1, <1>4, <2>2 DEF GoesOn
    <3>2. lock[held[t]] = t /\ held[t] \in Jobs
      BY <1>1, <3>1 DEF SlotInv, HeldLocked
    <3>3. held[t] # next
      BY <1>1, <1>2, <3>2
    <3>4. held[t] # j
      BY <1>1, <3>1, <3>2
    <3> QED
      BY <1>3, <3>1, <3>2, <3>3, <3>4
  <2> QED
    BY <2>1, <2>2
<1>5. ASSUME NEW t \in Slots, pc'[t] = "again" PROVE lock'[held'[t]] # t
  <2>1. CASE t = s
    <3>1. j = held[s] /\ j \in Jobs /\ held' = held
      BY <1>1, <1>5, <2>1 DEF GoesOn
    <3>2. j # next
      BY <1>2, <3>1
    <3> QED
      BY <1>1, <1>3, <2>1, <3>1, <3>2
  <2>2. CASE t # s
    <3>1. pc[t] = "again" /\ held'[t] = held[t]
      BY <1>1, <1>5, <2>2 DEF GoesOn
    <3>2. lock[held[t]] # t /\ held[t] \in Jobs
      BY <1>1, <3>1 DEF SlotInv, AgainUnlocked
    <3> QED
      BY <1>1, <1>2, <1>3, <2>2, <3>1, <3>2
  <2> QED
    BY <2>1, <2>2
<1>6. (fresh \cap stalled = {})'
  <2>1. stalled' = stalled \ {j}
    BY DEF HandOver
  <2>2. \A k \in fresh' : k \in fresh \/ (k = next /\ next \in Jobs)
    OBVIOUS
  <2> QED
    BY <1>2, <2>1, <2>2 DEF SlotInv, FreshUnmarked
<1> QED
  BY <1>4, <1>5, <1>6 DEF SlotInv, HeldLocked, AgainUnlocked, FreshUnmarked

\* So it does after retryJob.
LEMMA RetrySlots ==
  ASSUME ScriptInv, SlotTypes, SlotInv, NEW s \in Slots, pc[s] # "idle", NEW lifo \in BOOLEAN,
         RetryJob(s, held[s], lifo),
         \/ GoesOn(s, NoJob)
         \/ pc' = [pc EXCEPT ![s] = "again"] /\ UNCHANGED <<held, late>>,
         fresh' \subseteq fresh
  PROVE  SlotInv'
<1>1. /\ NoJob \notin Jobs /\ NoLock \notin Slots
      /\ pc \in [Slots -> {"idle", "work", "again"}]
      /\ held \in [Slots -> Jobs \cup {NoJob}]
      /\ \A t \in Slots : pc[t] # "idle" => held[t] \in Jobs
  BY KeysAssumption DEF SlotTypes
<1>2. PICK S, due : Requeues(S, due, S) /\ ((S = {} /\ lock[held[s]] # s) \/ (S = {held[s]} /\ lock[held[s]] = s))
  BY <1>1, RetryJobEffect
<1>3. ASSUME NEW k \in Jobs
      PROVE  (k \in S => lock'[k] = NoLock) /\ (k \notin S => lock'[k] = lock[k])
  BY <1>2, Zenon DEF Requeues
<1>4. lock'[held[s]] # s
  BY <1>1, <1>2, <1>3
<1>5. ASSUME NEW t \in Slots, pc'[t] = "work", t \notin late' PROVE lock'[held'[t]] = t
  <2>1. t # s /\ pc[t] = "work" /\ held'[t] = held[t] /\ t \notin late
    BY <1>1, <1>5 DEF GoesOn
  <2>2. lock[held[t]] = t /\ held[t] \in Jobs
    BY <1>1, <2>1 DEF SlotInv, HeldLocked
  <2> QED
    BY <1>2, <1>3, <2>1, <2>2
<1>6. ASSUME NEW t \in Slots, pc'[t] = "again" PROVE lock'[held'[t]] # t
  <2>1. CASE t = s
    BY <1>1, <1>4, <1>6, <2>1 DEF GoesOn
  <2>2. CASE t # s
    <3>1. pc[t] = "again" /\ held'[t] = held[t]
      BY <1>1, <1>6, <2>2 DEF GoesOn
    <3>2. lock[held[t]] # t /\ held[t] \in Jobs
      BY <1>1, <3>1 DEF SlotInv, AgainUnlocked
    <3> QED
      BY <1>1, <1>3, <3>1, <3>2
  <2> QED
    BY <2>1, <2>2
<1>7. (fresh \cap stalled = {})'
  <2>1. stalled' \subseteq stalled
    BY DEF RetryJob, RemoveLock
  <2> QED
    BY <2>1 DEF SlotInv, FreshUnmarked
<1> QED
  BY <1>5, <1>6, <1>7 DEF SlotInv, HeldLocked, AgainUnlocked, FreshUnmarked

-----------------------------------------------------------------------------
\* The keys and fields keep their types.
LEMMA ActiveTypes ==
  ASSUME ScriptInv, NEW s \in Slots, NEW next \in Jobs \cup {NoJob}, MoveToActive(s, next)
  PROVE  KeysTypeOK' /\ ScriptsTypeOK'
<1>1. PICK due : HandOver(s, next, due, NoJob, "none", {})
  BY MoveToActiveEffect
<1>2. /\ wait' \in Seq(Jobs) /\ parked' \in Seq(Jobs)
      /\ prioritized' \in SUBSET Jobs /\ delayed' \in SUBSET Jobs
      /\ active' \in [Jobs -> Nat] /\ lock' \in [Jobs -> Slots \cup {NoLock}]
      /\ completed' \in SUBSET Jobs /\ failed' \in SUBSET Jobs
      /\ hash' \in [Jobs -> SUBSET Fields] /\ stalled' \in SUBSET Jobs
      /\ ats' \in [Jobs -> Nat] /\ atm' \in [Jobs -> Nat] /\ stc' \in [Jobs -> Nat]
  BY <1>1, HandOverTypes
<1>3. UNCHANGED <<attemptsMade, opts, paused, checked, defa, concurrency>>
  BY DEF MoveToActive
<1> QED
  BY <1>2, <1>3 DEF ScriptInv, KeysTypeOK, ScriptsTypeOK

\* moveToFinished keeps the types of the keys.
LEMMA FinishTypes ==
  ASSUME ScriptInv, NEW s \in Slots, NEW j \in Jobs, NEW target \in DoneKeys, NEW keep,
         NEW fetch \in BOOLEAN, NEW next \in Jobs \cup {NoJob},
         MoveToFinished(s, j, target, keep, fetch, next)
  PROVE  KeysTypeOK' /\ ScriptsTypeOK'
<1>1. PICK due, gone : HandOver(s, next, due, j, target, gone)
  BY MoveToFinishedEffect
<1>2. /\ wait' \in Seq(Jobs) /\ parked' \in Seq(Jobs)
      /\ prioritized' \in SUBSET Jobs /\ delayed' \in SUBSET Jobs
      /\ active' \in [Jobs -> Nat] /\ lock' \in [Jobs -> Slots \cup {NoLock}]
      /\ completed' \in SUBSET Jobs /\ failed' \in SUBSET Jobs
      /\ hash' \in [Jobs -> SUBSET Fields] /\ stalled' \in SUBSET Jobs
      /\ ats' \in [Jobs -> Nat] /\ atm' \in [Jobs -> Nat] /\ stc' \in [Jobs -> Nat]
  BY <1>1, HandOverTypes
<1>3. Finish(s, j, target, keep, fetch, next)
  BY OwnsActive DEF MoveToFinished
<1>4. \E r : /\ defa' = (IF target = "failed" THEN defa \ {j} ELSE defa) \ r[2]
             /\ attemptsMade' = Dropped(attemptsMade, r[2], 0)
             /\ opts' = Dropped(opts, r[2], ZeroOptions)
             /\ UNCHANGED <<paused, checked, concurrency>>
  BY <1>3, Zenon DEF Finish
<1>5. ZeroOptions \in OptionsType
  BY DEF ZeroOptions, OptionsType
<1>6. attemptsMade' \in [Jobs -> Nat] /\ opts' \in [Jobs -> OptionsType] /\ defa' \subseteq Jobs
  BY <1>4, <1>5 DEF ScriptInv, KeysTypeOK, ScriptsTypeOK, Dropped
<1>7. UNCHANGED <<paused, checked, concurrency>>
  BY <1>4
<1> QED
  BY <1>2, <1>6, <1>7 DEF ScriptInv, KeysTypeOK, ScriptsTypeOK

\* Putting jobs back keeps them,
LEMMA RequeuesTypes ==
  ASSUME ScriptInv, NEW S, NEW due, NEW made, Requeues(S, due, made),
         checked' \in BOOLEAN, defa' \subseteq Jobs
  PROVE  KeysTypeOK' /\ ScriptsTypeOK'
BY DEF ScriptInv, KeysTypeOK, ScriptsTypeOK, Requeues

\* and so do retryJob,
LEMMA RetryTypes ==
  ASSUME ScriptInv, NEW s \in Slots, NEW j \in Jobs, NEW lifo \in BOOLEAN, RetryJob(s, j, lifo)
  PROVE  KeysTypeOK' /\ ScriptsTypeOK'
<1>1. PICK S, due : Requeues(S, due, S)
  BY RetryJobEffect
<1>2. checked' \in BOOLEAN /\ defa' \subseteq Jobs
  BY DEF RetryJob, ScriptInv, ScriptsTypeOK
<1> QED
  BY <1>1, <1>2, RequeuesTypes

\* moveStalledJobsToWait,
LEMMA StallTypes ==
  ASSUME ScriptInv, MoveStalledJobsToWait
  PROVE  KeysTypeOK' /\ ScriptsTypeOK'
<1>1. checked' \in BOOLEAN /\ defa' \subseteq Jobs
  BY DEF MoveStalledJobsToWait, ScriptInv, ScriptsTypeOK, Stalling
<1> QED
  BY <1>1, StallEffect, RequeuesTypes

\* HSET of Add,
LEMMA StoreTypes ==
  ASSUME ScriptInv, NEW j \in Jobs, StoreJobHash(j)
  PROVE  KeysTypeOK' /\ ProducerTypeOK'
<1>1. PICK o \in JobOptions : opts' = [opts EXCEPT ![j] = WithDefaults(o)]
  BY DEF StoreJobHash
<1>2. WithDefaults(o) \in OptionsType
  BY KeysAssumption DEF WithDefaults, OptionsType
<1>3. opts' \in [Jobs -> OptionsType]
  BY <1>1, <1>2 DEF ScriptInv, KeysTypeOK
<1>4. hash' \in [Jobs -> SUBSET Fields] /\ attemptsMade' \in [Jobs -> Nat]
  BY DEF StoreJobHash, ScriptInv, KeysTypeOK, Fields
<1>5. add' \in [Jobs -> AddStates]
  BY DEF StoreJobHash, ScriptInv, ProducerTypeOK, AddStates
<1> QED
  BY <1>3, <1>4, <1>5 DEF StoreJobHash, ScriptInv, KeysTypeOK, ProducerTypeOK, pending, finished

\* its second command,
LEMMA EnqueueTypes ==
  ASSUME ScriptInv, HashKept, NEW j \in Jobs, EnqueueJob(j), UNCHANGED scriptKeys
  PROVE  KeysTypeOK' /\ ProducerTypeOK'
<1>1. /\ wait' \in Seq(Jobs) /\ prioritized' \in SUBSET Jobs /\ delayed' \in SUBSET Jobs
  BY EnqueueEnters DEF Entering
<1>2. add' \in [Jobs -> AddStates]
  BY DEF EnqueueJob, ScriptInv, ProducerTypeOK, AddStates
<1>3. UNCHANGED <<active, completed, failed, hash, attemptsMade, opts, lock, paused>>
  BY DEF EnqueueJob, finished, hashes
<1> QED
  BY <1>1, <1>2, <1>3 DEF ScriptInv, KeysTypeOK, ProducerTypeOK

\* the Add of another library,
LEMMA ForeignTypes ==
  ASSUME ScriptInv, NEW j \in Jobs, AddForeign(j)
  PROVE  KeysTypeOK' /\ ProducerTypeOK' /\ ScriptsTypeOK'
<1>1. /\ wait' \in Seq(Jobs) /\ prioritized' \in SUBSET Jobs /\ delayed' \in SUBSET Jobs
      /\ parked' \in Seq(Jobs)
  BY ForeignEnters DEF Entering
<1>2. add' \in [Jobs -> AddStates] /\ hash' \in [Jobs -> SUBSET Fields]
  BY DEF AddForeign, ScriptInv, KeysTypeOK, ProducerTypeOK, AddStates, Fields
<1>3. PICK o \in JobOptions : opts' = [opts EXCEPT ![j] = WithDefaults(o)]
  BY Zenon DEF AddForeign
<1>4. WithDefaults(o) \in OptionsType
  BY KeysAssumption DEF WithDefaults, OptionsType
<1>5. opts' \in [Jobs -> OptionsType]
  BY <1>3, <1>4 DEF ScriptInv, KeysTypeOK
<1>6. UNCHANGED <<active, completed, failed, attemptsMade, lock, paused, stalled, checked, ats, atm, stc,
                  defa, concurrency>>
  BY DEF AddForeign, finished, tallies
<1> QED
  BY <1>1, <1>2, <1>5, <1>6 DEF ScriptInv, KeysTypeOK, ProducerTypeOK, ScriptsTypeOK

\* and whatever moves no id.
LEMMA StillTypes ==
  ASSUME ScriptInv, Still, paused' \in BOOLEAN, checked' \in BOOLEAN, UNCHANGED <<defa, concurrency>>
  PROVE  KeysTypeOK' /\ ProducerTypeOK' /\ ScriptsTypeOK'
BY DEF ScriptInv, Still, KeysTypeOK, ProducerTypeOK, ScriptsTypeOK

-----------------------------------------------------------------------------
\* The actions that move no id, as Still.
LEMMA StillActions ==
  ASSUME ScriptInv, SlotTypes,
         \/ PauseQueue \/ ResumeQueue \/ CountFirst \/ CountNext \/ CountLast \/ CheckExpires
         \/ \E s \in Slots : FinishRefused(s) \/ Renew(s) \/ Crash(s)
         \/ \E j \in Jobs : LockExpires(j) \/ LockLapses(j)
  PROVE  Still /\ paused' \in BOOLEAN /\ checked' \in BOOLEAN /\ UNCHANGED <<defa, concurrency>>
<1>1. /\ lock \in [Jobs -> Slots \cup {NoLock}] /\ paused \in BOOLEAN /\ checked \in BOOLEAN
  BY DEF ScriptInv, KeysTypeOK, ScriptsTypeOK
<1>2. CASE PauseQueue
  BY <1>1, <1>2 DEF PauseQueue, Pause, Still, pending, finished, hashes, scriptKeys
<1>3. CASE ResumeQueue
  BY <1>1, <1>3 DEF ResumeQueue, Resume, Still, pending, finished, hashes, scriptKeys
<1>4. CASE CountFirst \/ CountNext \/ CountLast
  BY <1>1, <1>4 DEF CountFirst, CountNext, CountLast, Still, keys, scriptKeys
<1>5. CASE CheckExpires
  BY <1>1, <1>5 DEF CheckExpires, Still, keys, tallies
<1>6. ASSUME NEW s \in Slots, FinishRefused(s) \/ Crash(s)
      PROVE  Still /\ paused' \in BOOLEAN /\ checked' \in BOOLEAN /\ UNCHANGED <<defa, concurrency>>
  BY <1>1, <1>6 DEF FinishRefused, Crash, Still, keys, scriptKeys
<1>7. ASSUME NEW s \in Slots, Renew(s)
      PROVE  Still /\ paused' \in BOOLEAN /\ checked' \in BOOLEAN /\ UNCHANGED <<defa, concurrency>>
  BY <1>1, <1>7 DEF Renew, ExtendLock, Still, keys, tallies
<1>8. ASSUME NEW j \in Jobs, LockExpires(j) \/ LockLapses(j)
      PROVE  Still /\ paused' \in BOOLEAN /\ checked' \in BOOLEAN /\ UNCHANGED <<defa, concurrency>>
  BY <1>1, <1>8 DEF LockExpires, LockLapses, DelLock, Still, pending, finished, hashes, scriptKeys
<1> QED
  BY <1>2, <1>3, <1>4, <1>5, <1>6, <1>7, <1>8

\* What each action is, for the invariants: scripts that hand over or put back, producers,
\* and steps that move no id.
Hands(s, next, lost) ==
  \E due, j, target, gone :
    /\ j \in Jobs \cup {NoJob}
    /\ HandOver(s, next, due, j, target, gone)
    /\ j = NoJob \/ (j = held[s] /\ lock[j] = s)
    /\ \/ ~lost /\ GoesOn(s, next)
       \/ lost /\ pc[s] = "idle" /\ UNCHANGED <<pc, held, late>> /\ j = NoJob
       \/ lost /\ j \in Jobs /\ pc' = [pc EXCEPT ![s] = "again"] /\ UNCHANGED <<held, late>>
    /\ fresh' = { k \in fresh \cup ({next} \cap Jobs) : active'[k] > 0 }
    /\ KeysTypeOK' /\ ScriptsTypeOK' /\ UNCHANGED add

\* Fetching a job is a call that hands over,
LEMMA FetchHands ==
  ASSUME ScriptInv, NEW s \in Slots, FetchJob(s)
  PROVE  \E next \in Jobs \cup {NoJob} : Hands(s, next, FALSE)
<1>1. PICK next \in Jobs \cup {NoJob} : GoesOn(s, next) /\ MoveToActive(s, next) /\ Handed({next} \cap Jobs)
  BY DEF FetchJob
<1>2. PICK due : HandOver(s, next, due, NoJob, "none", {})
  BY <1>1, MoveToActiveEffect
<1>3. KeysTypeOK' /\ ScriptsTypeOK'
  BY <1>1, ActiveTypes
<1>4. fresh' = { k \in fresh \cup ({next} \cap Jobs) : active'[k] > 0 } /\ UNCHANGED add
  BY <1>1 DEF Handed, FetchJob
<1>5. Hands(s, next, FALSE)
  BY <1>1, <1>2, <1>3, <1>4 DEF Hands
<1> QED
  BY <1>5

\* even if its reply is lost;
LEMMA FetchLostHands ==
  ASSUME ScriptInv, NEW s \in Slots, FetchLost(s)
  PROVE  \E next \in Jobs \cup {NoJob} : Hands(s, next, TRUE)
<1>1. PICK next \in Jobs : MoveToActive(s, next) /\ Handed({next})
  BY DEF FetchLost
<1>2. PICK due : HandOver(s, next, due, NoJob, "none", {})
  BY <1>1, MoveToActiveEffect
<1>3. KeysTypeOK' /\ ScriptsTypeOK'
  BY <1>1, ActiveTypes
<1>4. /\ fresh' = { k \in fresh \cup ({next} \cap Jobs) : active'[k] > 0 } /\ UNCHANGED add
      /\ pc[s] = "idle" /\ UNCHANGED <<pc, held, late>>
  <2>1. {next} \cap Jobs = {next}
    OBVIOUS
  <2> QED
    BY <1>1, <2>1 DEF Handed, FetchLost, slotVars
<1>5. Hands(s, next, TRUE)
  BY <1>1, <1>2, <1>3, <1>4 DEF Hands
<1> QED
  BY <1>5

\* so is finishing one.
LEMMA FinishHands ==
  ASSUME ScriptInv, SlotTypes, NEW s \in Slots, FinishJob(s)
  PROVE  \E next \in Jobs \cup {NoJob} : Hands(s, next, FALSE)
<1>1. PICK target \in Targets(s), keep \in KeepJobs, fetch \in BOOLEAN, next \in Jobs \cup {NoJob} :
        GoesOn(s, next) /\ MoveToFinished(s, held[s], target, keep, fetch, next) /\ Handed({next} \cap Jobs)
  BY DEF FinishJob
<1>2. held[s] \in Jobs /\ target \in DoneKeys
  BY DEF FinishJob, SlotTypes, Targets, DoneKeys
<1>3. PICK due, gone : HandOver(s, next, due, held[s], target, gone)
  BY <1>1, <1>2, MoveToFinishedEffect
<1>4. lock[held[s]] = s
  BY <1>1, <1>2, MoveToFinishedEffect
<1>5. KeysTypeOK' /\ ScriptsTypeOK'
  BY <1>1, <1>2, FinishTypes
<1>6. fresh' = { k \in fresh \cup ({next} \cap Jobs) : active'[k] > 0 } /\ UNCHANGED add
  BY <1>1 DEF Handed, FinishJob
<1>7. Hands(s, next, FALSE)
  BY <1>1, <1>2, <1>3, <1>4, <1>5, <1>6 DEF Hands
<1> QED
  BY <1>7

\* A settlement whose reply is lost was a hand-over or a retry, and the slot will repeat it.
LEMMA SettleLostCases ==
  ASSUME ScriptInv, SlotTypes, NEW s \in Slots, SettleLost(s)
  PROVE  /\ pc[s] = "work" /\ held[s] \in Jobs /\ pc' = [pc EXCEPT ![s] = "again"]
         /\ UNCHANGED <<held, late, add>> /\ Onward
         /\ \/ \E next \in Jobs \cup {NoJob} : Hands(s, next, TRUE)
            \/ /\ \E lifo \in BOOLEAN : RetryJob(s, held[s], lifo)
               /\ fresh' \subseteq fresh
<1>1. /\ pc[s] = "work" /\ held[s] \in Jobs /\ pc' = [pc EXCEPT ![s] = "again"]
      /\ UNCHANGED <<held, late, add>> /\ Onward
  BY DEF SettleLost, SlotTypes
<1>2. PICK next \in Jobs \cup {NoJob} :
        /\ \/ \E target \in Targets(s), keep \in KeepJobs, fetch \in BOOLEAN :
                MoveToFinished(s, held[s], target, keep, fetch, next)
           \/ /\ next = NoJob
              /\ \E lifo \in BOOLEAN : RetryJob(s, held[s], lifo)
        /\ Handed({next} \cap Jobs)
  BY DEF SettleLost
<1>3. CASE \E target \in Targets(s), keep \in KeepJobs, fetch \in BOOLEAN :
             MoveToFinished(s, held[s], target, keep, fetch, next)
  <2>1. PICK target \in Targets(s), keep \in KeepJobs, fetch \in BOOLEAN :
             MoveToFinished(s, held[s], target, keep, fetch, next)
    BY <1>3
  <2>2. target \in DoneKeys
    BY DEF Targets, DoneKeys
  <2>3. PICK due, gone : HandOver(s, next, due, held[s], target, gone)
    BY <1>1, <2>1, <2>2, MoveToFinishedEffect
  <2>4. lock[held[s]] = s
    BY <1>1, <2>1, <2>2, MoveToFinishedEffect
  <2>5. KeysTypeOK' /\ ScriptsTypeOK'
    BY <1>1, <2>1, <2>2, FinishTypes
  <2>6. fresh' = { k \in fresh \cup ({next} \cap Jobs) : active'[k] > 0 }
    BY <1>2 DEF Handed
  <2>7. Hands(s, next, TRUE)
    BY <1>1, <2>3, <2>4, <2>5, <2>6 DEF Hands
  <2> QED
    BY <1>1, <2>7
<1>4. CASE next = NoJob /\ \E lifo \in BOOLEAN : RetryJob(s, held[s], lifo)
  <2>1. fresh' \subseteq fresh
    BY <1>2, <1>4, KeysAssumption DEF Handed
  <2> QED
    BY <1>1, <1>4, <2>1
<1> QED
  BY <1>2, <1>3, <1>4

-----------------------------------------------------------------------------
\* The inductive invariant.
Inv ==
  /\ TypeOK
  /\ OnePlace /\ LockedActive /\ AttemptsExact
  /\ HashKept
  /\ SlotInv

\* What the lemmas above ask for.
LEMMA InvParts ==
  ASSUME Inv
  PROVE  ScriptInv /\ HashKept /\ SlotTypes /\ SlotInv
BY DEF Inv, ScriptInv, TypeOK, SlotTypes

\* A slot that goes on with the next job or none keeps the types.
LEMMA GoesOnTypes ==
  ASSUME SlotTypes, NEW s \in Slots, NEW next \in Jobs \cup {NoJob}, GoesOn(s, next)
  PROVE  SlotTypes'
<1>1. NoJob \notin Jobs
  BY KeysAssumption
<1>2. pc' \in [Slots -> {"idle", "work", "again"}] /\ held' \in [Slots -> Jobs \cup {NoJob}] /\ late' \subseteq Slots
  BY DEF SlotTypes, GoesOn
<1>3. \A t \in Slots : pc'[t] = "idle" <=> held'[t] = NoJob
  BY <1>1 DEF SlotTypes, GoesOn
<1> QED
  BY <1>2, <1>3 DEF SlotTypes

\* Counting a failure keeps the counter a number.
LEMMA TroubleTypes == ASSUME spent \in Nat, Trouble PROVE spent' \in Nat
BY DEF Trouble

\* Every step keeps the types of slots, reader and history.
LEMMA RestTypes ==
  ASSUME TypeOK, [Next]_vars
  PROVE  /\ SlotTypes' /\ cursor' \in 0..5 /\ missing' \subseteq Jobs /\ fresh' \subseteq Jobs
         /\ spent' \in Nat
<1> DEFINE Rest == SlotTypes' /\ cursor' \in 0..5 /\ missing' \subseteq Jobs /\ fresh' \subseteq Jobs
                   /\ spent' \in Nat
<1>1. /\ SlotTypes /\ cursor \in 0..5 /\ missing \subseteq Jobs /\ fresh \subseteq Jobs /\ spent \in Nat
      /\ NoJob \notin Jobs
  BY KeysAssumption DEF TypeOK, SlotTypes
<1>2. UNCHANGED slotVars /\ UNCHANGED late => SlotTypes'
  BY <1>1 DEF slotVars, SlotTypes
<1>3. Onward => missing' \subseteq Jobs
  BY <1>1 DEF Onward
<1>4. ASSUME NEW S \in SUBSET Jobs, Handed(S) PROVE fresh' \subseteq Jobs
  BY <1>1, <1>4 DEF Handed
<1>5. ASSUME NEW j \in Jobs, Add(j) \/ AddForeign(j) PROVE Rest
  BY <1>1, <1>2, <1>3, <1>5 DEF Add, AddForeign
<1>6. ASSUME NEW j \in Jobs, LockExpires(j) PROVE Rest
  BY <1>1, <1>2, <1>6 DEF LockExpires, history
<1>7. ASSUME NEW j \in Jobs, LockLapses(j) PROVE Rest
  <2>1. lock[j] \in Slots
    BY <1>7 DEF LockLapses, TypeOK, KeysTypeOK
  <2>2. SlotTypes'
    BY <1>1, <1>7, <2>1 DEF LockLapses, slotVars, SlotTypes
  <2> QED
    BY <1>1, <1>7, <2>2, TroubleTypes DEF LockLapses
<1>8. CASE PauseQueue \/ ResumeQueue
  BY <1>1, <1>2, <1>8, TroubleTypes DEF PauseQueue, ResumeQueue, history
<1>9. CASE CountFirst \/ CountNext \/ CountLast
  BY <1>1, <1>2, <1>9, TroubleTypes DEF CountFirst, CountNext, CountLast
<1>10. ASSUME NEW s \in Slots, FetchJob(s) PROVE Rest
  <2>1. PICK next \in Jobs \cup {NoJob} : GoesOn(s, next) /\ Handed({next} \cap Jobs)
    BY <1>10 DEF FetchJob
  <2> QED
    BY <1>1, <1>3, <1>4, <1>10, <2>1, GoesOnTypes DEF FetchJob
<1>11. ASSUME NEW s \in Slots, FinishJob(s) PROVE Rest
  <2>1. PICK next \in Jobs \cup {NoJob} : GoesOn(s, next) /\ Handed({next} \cap Jobs)
    BY <1>11 DEF FinishJob
  <2> QED
    BY <1>1, <1>3, <1>4, <1>11, <2>1, GoesOnTypes DEF FinishJob
<1>12. ASSUME NEW s \in Slots, FinishRefused(s) \/ Crash(s) PROVE Rest
  <2>1. GoesOn(s, NoJob)
    BY <1>12 DEF FinishRefused, Crash
  <2> QED
    BY <1>1, <1>12, <2>1, GoesOnTypes, TroubleTypes DEF FinishRefused, Crash
<1>13. ASSUME NEW s \in Slots, RetryHeld(s) PROVE Rest
  BY <1>1, <1>3, <1>4, <1>13, GoesOnTypes DEF RetryHeld
<1>14. ASSUME NEW s \in Slots, Renew(s) PROVE Rest
  <2>1. held[s] \in Jobs
    BY <1>1, <1>14 DEF Renew, SlotTypes
  <2> QED
    BY <1>1, <1>2, <1>14, <2>1 DEF Renew
<1>15. CASE CheckStalled \/ CheckExpires
  BY <1>1, <1>2, <1>3, <1>15 DEF CheckStalled, CheckExpires, history
<1>16. ASSUME NEW s \in Slots, FetchLost(s) PROVE Rest
  <2>1. PICK next \in Jobs : Handed({next})
    BY <1>16 DEF FetchLost
  <2> QED
    BY <1>1, <1>2, <1>3, <1>4, <1>16, <2>1, TroubleTypes DEF FetchLost
<1>17. ASSUME NEW s \in Slots, SettleLost(s) PROVE Rest
  <2>1. PICK next \in Jobs \cup {NoJob} : Handed({next} \cap Jobs)
    BY <1>17 DEF SettleLost
  <2>2. SlotTypes'
    BY <1>1, <1>17 DEF SettleLost, SlotTypes
  <2> QED
    BY <1>1, <1>3, <1>4, <1>17, <2>1, <2>2, TroubleTypes DEF SettleLost
<1>18. CASE UNCHANGED vars
  BY <1>1, <1>2, <1>18 DEF vars, history
<1> QED
  BY <1>5, <1>6, <1>7, <1>8, <1>9, <1>10, <1>11, <1>12, <1>13, <1>14, <1>15, <1>16, <1>17, <1>18
  DEF Next, Settle

\* The invariant holds at first.
LEMMA InvInit == Init => Inv
<1> SUFFICES ASSUME Init PROVE Inv
  OBVIOUS
<1>1. /\ wait = << >> /\ parked = << >> /\ prioritized = {} /\ delayed = {} /\ completed = {} /\ failed = {}
      /\ active = [j \in Jobs |-> 0] /\ hash = [j \in Jobs |-> {}] /\ lock = [j \in Jobs |-> NoLock]
      /\ ats = [j \in Jobs |-> 0] /\ atm = [j \in Jobs |-> 0] /\ stc = [j \in Jobs |-> 0]
      /\ add = [j \in Jobs |-> "new"] /\ stalled = {} /\ fresh = {} /\ pc = [s \in Slots |-> "idle"]
      /\ held = [s \in Slots |-> NoJob]
  BY DEF Init, KeysInit, ScriptsInit, ProducerInit
<1>2. KeysTypeOK /\ ProducerTypeOK /\ ScriptsTypeOK
  <2>1. ZeroOptions \in OptionsType
    BY DEF ZeroOptions, OptionsType
  <2>2. << >> \in Seq(Jobs)
    OBVIOUS
  <2>6. wait \in Seq(Jobs) /\ parked \in Seq(Jobs)
    BY <1>1, <2>2, Zenon
  <2>3. KeysTypeOK
    <3>1. hash \in [Jobs -> SUBSET Fields] /\ lock \in [Jobs -> Slots \cup {NoLock}]
      BY <1>1
    <3>2. active \in [Jobs -> Nat]
      BY <1>1
    <3>3. attemptsMade \in [Jobs -> Nat] /\ opts \in [Jobs -> OptionsType] /\ paused \in BOOLEAN
      BY <2>1 DEF Init, KeysInit
    <3> QED
      BY <1>1, <2>6, <3>1, <3>2, <3>3 DEF KeysTypeOK
  <2>4. ProducerTypeOK
    BY <1>1 DEF ProducerTypeOK, AddStates
  <2>5. ScriptsTypeOK
    <3>1. ats \in [Jobs -> Nat] /\ atm \in [Jobs -> Nat] /\ stc \in [Jobs -> Nat]
      BY <1>1
    <3>2. checked \in BOOLEAN /\ defa \subseteq Jobs /\ concurrency \in Concurrencies
      BY DEF Init, ScriptsInit
    <3> QED
      BY <1>1, <2>6, <3>1, <3>2 DEF ScriptsTypeOK
  <2> QED
    BY <2>3, <2>4, <2>5
<1>3. TypeOK
  BY <1>1, <1>2 DEF Init, TypeOK
<1>4. ASSUME NEW j \in Jobs PROVE At(j, "none")
  <2>1. ~InList(wait, j) /\ ~InList(parked, j)
    BY <1>1 DEF InList
  <2>2. ~(active[j] > 0)
    BY <1>1
  <2>3. j \notin prioritized /\ j \notin delayed /\ j \notin completed /\ j \notin failed
    BY <1>1
  <2> QED
    BY <2>1, <2>2, <2>3 DEF At
<1>5. OnePlace
  BY <1>1, <1>4 DEF OnePlace, Stored, Distinct
<1>6. LockedActive /\ AttemptsExact /\ HashKept
  BY <1>1 DEF LockedActive, AttemptsExact, HashKept
<1>7. SlotInv
  BY <1>1 DEF SlotInv, HeldLocked, AgainUnlocked, FreshUnmarked
<1> QED
  BY <1>3, <1>5, <1>6, <1>7 DEF Inv

\* The calls that hand over keep it,
LEMMA HandsKeeps ==
  ASSUME Inv, NEW s \in Slots, NEW next \in Jobs \cup {NoJob}, NEW lost \in BOOLEAN, Hands(s, next, lost)
  PROVE  /\ KeysTypeOK' /\ ScriptsTypeOK' /\ ProducerTypeOK'
         /\ OnePlace' /\ LockedActive' /\ AttemptsExact' /\ HashKept' /\ SlotInv'
<1>1. PICK due, j, target, gone :
    /\ j \in Jobs \cup {NoJob}
    /\ HandOver(s, next, due, j, target, gone)
    /\ j = NoJob \/ (j = held[s] /\ lock[j] = s)
    /\ \/ GoesOn(s, next)
       \/ pc[s] = "idle" /\ UNCHANGED <<pc, held, late>>
       \/ j \in Jobs /\ pc' = [pc EXCEPT ![s] = "again"] /\ UNCHANGED <<held, late>>
    /\ fresh' = { k \in fresh \cup ({next} \cap Jobs) : active'[k] > 0 }
    /\ KeysTypeOK' /\ ScriptsTypeOK' /\ UNCHANGED add
  BY Zenon DEF Hands
<1>2. NoJob \notin Jobs
  BY KeysAssumption
<1>3. OnePlace' /\ LockedActive' /\ AttemptsExact' /\ HashKept'
  BY <1>1, InvParts, HandOverKeeps, HandOverHash
<1>4. SlotInv'
  BY <1>1, <1>2, InvParts, HandOverSlots
<1>5. ProducerTypeOK'
  BY <1>1 DEF Inv, TypeOK, ProducerTypeOK
<1> QED
  BY <1>1, <1>3, <1>4, <1>5

\* and so do retries,
LEMMA RetryKeeps ==
  ASSUME Inv, NEW s \in Slots, pc[s] # "idle", NEW lifo \in BOOLEAN, RetryJob(s, held[s], lifo),
         \/ GoesOn(s, NoJob)
         \/ pc' = [pc EXCEPT ![s] = "again"] /\ UNCHANGED <<held, late>>,
         fresh' \subseteq fresh, UNCHANGED add
  PROVE  /\ KeysTypeOK' /\ ScriptsTypeOK' /\ ProducerTypeOK'
         /\ OnePlace' /\ LockedActive' /\ AttemptsExact' /\ HashKept' /\ SlotInv'
<1>1. ScriptInv /\ HashKept /\ SlotTypes /\ SlotInv /\ held[s] \in Jobs
  BY InvParts DEF SlotTypes
<1>2. PICK S, due : Requeues(S, due, S)
  BY <1>1, RetryJobEffect
<1>3. OnePlace' /\ LockedActive' /\ AttemptsExact' /\ HashKept'
  BY <1>1, <1>2, RequeuesKeeps, RequeuesHash
<1>4. SlotInv'
  BY <1>1, RetrySlots
<1>5. KeysTypeOK' /\ ScriptsTypeOK'
  BY <1>1, RetryTypes
<1>6. ProducerTypeOK'
  BY DEF Inv, TypeOK, ProducerTypeOK
<1> QED
  BY <1>3, <1>4, <1>5, <1>6

\* the stalled check,
LEMMA CheckKeeps ==
  ASSUME Inv, CheckStalled
  PROVE  /\ KeysTypeOK' /\ ScriptsTypeOK' /\ ProducerTypeOK'
         /\ OnePlace' /\ LockedActive' /\ AttemptsExact' /\ HashKept' /\ SlotInv'
<1>1. ScriptInv /\ HashKept /\ SlotTypes /\ SlotInv /\ MoveStalledJobsToWait /\ UNCHANGED add
  BY InvParts DEF CheckStalled
<1>2. Requeues(Stalling, {}, {})
  BY <1>1, StallEffect
<1>3. OnePlace' /\ LockedActive' /\ AttemptsExact' /\ HashKept'
  BY <1>1, <1>2, RequeuesKeeps, RequeuesHash
<1>4. SlotInv'
  <2>1. UNCHANGED <<lock, pc, held, late>> /\ fresh' = {}
    BY DEF CheckStalled, MoveStalledJobsToWait, slotVars
  <2> QED
    BY <1>1, <2>1 DEF SlotInv, HeldLocked, AgainUnlocked, FreshUnmarked
<1>5. KeysTypeOK' /\ ScriptsTypeOK'
  BY <1>1, StallTypes
<1>6. ProducerTypeOK'
  BY <1>1 DEF Inv, TypeOK, ProducerTypeOK
<1> QED
  BY <1>3, <1>4, <1>5, <1>6

\* the producers,
LEMMA EnterKeeps ==
  ASSUME Inv, NEW j \in Jobs, Add(j) \/ AddForeign(j)
  PROVE  /\ KeysTypeOK' /\ ScriptsTypeOK' /\ ProducerTypeOK'
         /\ OnePlace' /\ LockedActive' /\ AttemptsExact' /\ HashKept' /\ SlotInv'
         /\ Entering(j)
<1>1. ScriptInv /\ HashKept /\ SlotTypes /\ SlotInv
  BY InvParts
<1>2. UNCHANGED <<pc, held, late, fresh>>
  BY DEF Add, AddForeign, slotVars
<1>3. Entering(j) /\ KeysTypeOK' /\ ScriptsTypeOK' /\ ProducerTypeOK'
  <2>1. CASE StoreJobHash(j) /\ UNCHANGED scriptKeys
    <3>1. ScriptsTypeOK'
      BY <1>1, <2>1 DEF ScriptInv, ScriptsTypeOK, scriptKeys
    <3> QED
      BY <1>1, <2>1, <3>1, StoreEnters, StoreTypes
  <2>2. CASE EnqueueJob(j) /\ UNCHANGED scriptKeys
    <3>1. ScriptsTypeOK'
      BY <1>1, <2>2 DEF ScriptInv, ScriptsTypeOK, scriptKeys
    <3> QED
      BY <1>1, <2>2, <3>1, EnqueueEnters, EnqueueTypes
  <2>3. CASE AddForeign(j)
    BY <1>1, <2>3, ForeignEnters, ForeignTypes
  <2> QED
    BY <2>1, <2>2, <2>3 DEF Add
<1>4. OnePlace' /\ LockedActive' /\ AttemptsExact' /\ HashKept'
  BY <1>1, <1>3, EnteringKeeps
<1>5. SlotInv'
  <2>1. UNCHANGED <<lock, stalled>>
    BY <1>3 DEF Entering
  <2> QED
    BY <1>1, <1>2, <2>1 DEF SlotInv, HeldLocked, AgainUnlocked, FreshUnmarked
<1> QED
  BY <1>3, <1>4, <1>5

\* and whatever moves no id: pauses, counts, renewals, lapses, crashes, refused calls.
LEMMA StillInv ==
  ASSUME Inv,
         \/ PauseQueue \/ ResumeQueue \/ CountFirst \/ CountNext \/ CountLast \/ CheckExpires
         \/ \E s \in Slots : FinishRefused(s) \/ Renew(s) \/ Crash(s)
         \/ \E j \in Jobs : LockExpires(j) \/ LockLapses(j)
  PROVE  /\ KeysTypeOK' /\ ScriptsTypeOK' /\ ProducerTypeOK'
         /\ OnePlace' /\ LockedActive' /\ AttemptsExact' /\ HashKept' /\ SlotInv'
         /\ Still
<1>1. ScriptInv /\ HashKept /\ SlotTypes /\ SlotInv
  BY InvParts
<1>2. Still /\ paused' \in BOOLEAN /\ checked' \in BOOLEAN /\ UNCHANGED <<defa, concurrency>>
  BY <1>1, StillActions
<1>3. OnePlace' /\ LockedActive' /\ AttemptsExact' /\ HashKept'
  BY <1>1, <1>2, StillKeeps
<1>4. KeysTypeOK' /\ ScriptsTypeOK' /\ ProducerTypeOK'
  BY <1>1, <1>2, StillTypes
<1>5. /\ pc \in [Slots -> {"idle", "work", "again"}] /\ held \in [Slots -> Jobs \cup {NoJob}]
      /\ lock \in [Jobs -> Slots \cup {NoLock}] /\ NoLock \notin Slots /\ NoJob \notin Jobs
      /\ \A t \in Slots : pc[t] # "idle" => held[t] \in Jobs
      /\ \A t \in Slots : pc[t] = "work" /\ t \notin late => lock[held[t]] = t
      /\ \A t \in Slots : pc[t] = "again" => lock[held[t]] # t
      /\ fresh \cap stalled = {}
  BY <1>1, KeysAssumption DEF SlotTypes, SlotInv, HeldLocked, AgainUnlocked, FreshUnmarked, ScriptInv, KeysTypeOK
<1>6. ASSUME PauseQueue \/ ResumeQueue \/ CountFirst \/ CountNext \/ CountLast \/ CheckExpires
      PROVE  SlotInv'
  <2>1. UNCHANGED <<pc, held, late, fresh, lock, stalled>>
    BY <1>6 DEF PauseQueue, Pause, ResumeQueue, Resume, CountFirst, CountNext, CountLast, CheckExpires,
                slotVars, history, keys, scriptKeys
  <2> QED
    BY <1>5, <2>1 DEF SlotInv, HeldLocked, AgainUnlocked, FreshUnmarked
<1>7. ASSUME NEW s \in Slots, FinishRefused(s) \/ Crash(s) PROVE SlotInv'
  <2>1. GoesOn(s, NoJob) /\ UNCHANGED <<lock, stalled, fresh>>
    BY <1>7 DEF FinishRefused, Crash, keys, scriptKeys
  <2>2. \A t \in Slots : pc'[t] # "idle" => t # s /\ pc'[t] = pc[t] /\ held'[t] = held[t]
                                             /\ (t \notin late' => t \notin late)
    BY <1>5, <2>1 DEF GoesOn
  <2> QED
    BY <1>5, <2>1, <2>2 DEF SlotInv, HeldLocked, AgainUnlocked, FreshUnmarked
<1>8. ASSUME NEW s \in Slots, Renew(s) PROVE SlotInv'
  <2>1. UNCHANGED <<pc, held, late, lock>> /\ stalled' = stalled \ {held[s]} /\ fresh' = fresh \cup {held[s]}
    BY <1>8 DEF Renew, ExtendLock, slotVars, keys
  <2> QED
    BY <1>5, <2>1 DEF SlotInv, HeldLocked, AgainUnlocked, FreshUnmarked
<1>9. ASSUME NEW j \in Jobs, LockExpires(j) PROVE SlotInv'
  <2>1. UNCHANGED <<pc, held, late, stalled, fresh>> /\ lock' = [lock EXCEPT ![j] = NoLock]
        /\ lock[j] # NoLock /\ ~Working(lock[j], j)
    BY <1>9 DEF LockExpires, DelLock, slotVars, scriptKeys, history
  <2>2. \A t \in Slots : pc[t] = "work" /\ t \notin late => held[t] # j
    BY <1>5, <2>1 DEF Working
  <2> QED
    BY <1>5, <2>1, <2>2 DEF SlotInv, HeldLocked, AgainUnlocked, FreshUnmarked
<1>10. ASSUME NEW j \in Jobs, LockLapses(j) PROVE SlotInv'
  <2>1. UNCHANGED <<pc, held, stalled, fresh>> /\ lock' = [lock EXCEPT ![j] = NoLock]
        /\ late' = late \cup {lock[j]}
    BY <1>10 DEF LockLapses, DelLock, slotVars, scriptKeys
  <2>2. \A t \in Slots : pc[t] = "work" /\ t \notin late' => held[t] # j /\ t \notin late
    BY <1>5, <2>1
  <2> QED
    BY <1>5, <2>1, <2>2 DEF SlotInv, HeldLocked, AgainUnlocked, FreshUnmarked
<1>11. SlotInv'
  BY <1>6, <1>7, <1>8, <1>9, <1>10
<1> QED
  BY <1>2, <1>3, <1>4, <1>11

\* Every step keeps it.
LEMMA InvStep == Inv /\ [Next]_vars => Inv'
<1> SUFFICES ASSUME Inv, [Next]_vars PROVE Inv'
  OBVIOUS
<1> DEFINE Kept == /\ KeysTypeOK' /\ ScriptsTypeOK' /\ ProducerTypeOK'
                   /\ OnePlace' /\ LockedActive' /\ AttemptsExact' /\ HashKept' /\ SlotInv'
<1>1. ScriptInv /\ HashKept /\ SlotTypes /\ SlotInv
  BY InvParts
<1> SUFFICES Kept
  <2>1. SlotTypes' /\ cursor' \in 0..5 /\ missing' \subseteq Jobs /\ fresh' \subseteq Jobs /\ spent' \in Nat
    BY RestTypes DEF Inv
  <2>2. TypeOK'
    BY <2>1 DEF TypeOK, SlotTypes
  <2> QED
    BY <2>2 DEF Inv
<1>2. ASSUME NEW j \in Jobs, Add(j) \/ AddForeign(j) PROVE Kept
  BY <1>2, EnterKeeps
<1>3. CASE \/ PauseQueue \/ ResumeQueue \/ CountFirst \/ CountNext \/ CountLast \/ CheckExpires
           \/ \E s \in Slots : FinishRefused(s) \/ Renew(s) \/ Crash(s)
           \/ \E j \in Jobs : LockExpires(j) \/ LockLapses(j)
  BY <1>3, StillInv
<1>4. ASSUME NEW s \in Slots, FetchJob(s) PROVE Kept
  BY <1>1, <1>4, FetchHands, HandsKeeps
<1>5. ASSUME NEW s \in Slots, FetchLost(s) PROVE Kept
  BY <1>1, <1>5, FetchLostHands, HandsKeeps
<1>6. ASSUME NEW s \in Slots, FinishJob(s) PROVE Kept
  BY <1>1, <1>6, FinishHands, HandsKeeps
<1>7. ASSUME NEW s \in Slots, RetryHeld(s) PROVE Kept
  <2>1. PICK lifo \in BOOLEAN : RetryJob(s, held[s], lifo)
    BY <1>7 DEF RetryHeld
  <2>2. pc[s] # "idle" /\ GoesOn(s, NoJob) /\ UNCHANGED add
    BY <1>7 DEF RetryHeld
  <2>3. fresh' \subseteq fresh
    BY <1>7 DEF RetryHeld, Handed
  <2> QED
    BY <2>1, <2>2, <2>3, RetryKeeps
<1>8. ASSUME NEW s \in Slots, SettleLost(s) PROVE Kept
  <2>1. /\ pc[s] # "idle" /\ pc' = [pc EXCEPT ![s] = "again"] /\ UNCHANGED <<held, late, add>>
        /\ \/ \E next \in Jobs \cup {NoJob} : Hands(s, next, TRUE)
           \/ /\ \E lifo \in BOOLEAN : RetryJob(s, held[s], lifo)
              /\ fresh' \subseteq fresh
    BY <1>1, <1>8, SettleLostCases
  <2>2. CASE \E next \in Jobs \cup {NoJob} : Hands(s, next, TRUE)
    BY <2>2, HandsKeeps
  <2>3. CASE (\E lifo \in BOOLEAN : RetryJob(s, held[s], lifo)) /\ fresh' \subseteq fresh
    BY <2>1, <2>3, RetryKeeps
  <2> QED
    BY <2>1, <2>2, <2>3
<1>9. CASE CheckStalled
  BY <1>9, CheckKeeps
<1>10. CASE UNCHANGED vars
  <2>1. Still /\ paused' \in BOOLEAN /\ checked' \in BOOLEAN /\ UNCHANGED <<defa, concurrency, pc, held, fresh, late, lock, stalled>>
    BY <1>1, <1>10 DEF vars, keys, scriptKeys, slotVars, history, Still, ScriptInv, KeysTypeOK, ScriptsTypeOK
  <2>2. SlotInv'
    BY <1>1, <2>1 DEF SlotInv, HeldLocked, AgainUnlocked, FreshUnmarked
  <2> QED
    BY <1>1, <2>1, <2>2, StillKeeps, StillTypes
<1> HIDE DEF Kept
<1> QED
  BY <1>2, <1>3, <1>4, <1>5, <1>6, <1>7, <1>8, <1>9, <1>10 DEF Next, Settle

\* It always holds.
LEMMA InvAlways == Spec => []Inv
  BY InvInit, InvStep, PTL DEF Spec

\* Type correctness.
THEOREM SharedTypes == Spec => []TypeOK
<1>1. Inv => TypeOK
  BY DEF Inv
<1> QED
  BY InvAlways, <1>1, PTL

\* A job that was added and not removed is in one list or set, once, any other id in none.
THEOREM JobsOnePlace == Spec => []OnePlace
<1>1. Inv => OnePlace
  BY DEF Inv
<1> QED
  BY InvAlways, <1>1, PTL

\* Locks and marks of the stalled check belong to active jobs: -3 is never returned.
THEOREM LocksActive == Spec => []LockedActive
<1>1. Inv => LockedActive
  BY DEF Inv
<1> QED
  BY InvAlways, <1>1, PTL

\* Every attempt that was started was made, stalled, or is in progress.
THEOREM AttemptsCounted == Spec => []AttemptsExact
<1>1. Inv => AttemptsExact
  BY DEF Inv
<1> QED
  BY InvAlways, <1>1, PTL

\* A slot at work has the lock of its job unless that expired under it.
THEOREM HoldersLocked == Spec => []HeldLocked
<1>1. Inv => HeldLocked
  BY DEF Inv, SlotInv
<1> QED
  BY InvAlways, <1>1, PTL

-----------------------------------------------------------------------------
\* Every step, for what follows: a script, a producer, or a step that moves no id.
LEMMA StepKinds ==
  ASSUME Inv, [Next]_vars
  PROVE  \/ \E s \in Slots, next \in Jobs \cup {NoJob}, lost \in BOOLEAN : Hands(s, next, lost)
         \/ \E s \in Slots, lifo \in BOOLEAN : pc[s] # "idle" /\ RetryJob(s, held[s], lifo) /\ UNCHANGED add
         \/ MoveStalledJobsToWait /\ UNCHANGED add
         \/ \E j \in Jobs : Entering(j)
         \/ Still
<1>1. ScriptInv /\ HashKept /\ SlotTypes /\ SlotInv
  BY InvParts
<1> DEFINE Kinds == \/ \E s \in Slots, next \in Jobs \cup {NoJob}, lost \in BOOLEAN : Hands(s, next, lost)
                    \/ \E s \in Slots, lifo \in BOOLEAN : pc[s] # "idle" /\ RetryJob(s, held[s], lifo) /\ UNCHANGED add
                    \/ MoveStalledJobsToWait /\ UNCHANGED add
                    \/ \E j \in Jobs : Entering(j)
                    \/ Still
<1> SUFFICES Kinds
  OBVIOUS
<1>2. ASSUME NEW j \in Jobs, Add(j) \/ AddForeign(j) PROVE Kinds
  BY <1>2, EnterKeeps
<1>3. CASE \/ PauseQueue \/ ResumeQueue \/ CountFirst \/ CountNext \/ CountLast \/ CheckExpires
           \/ \E s \in Slots : FinishRefused(s) \/ Renew(s) \/ Crash(s)
           \/ \E j \in Jobs : LockExpires(j) \/ LockLapses(j)
  BY <1>1, <1>3, StillActions
<1>4. ASSUME NEW s \in Slots, FetchJob(s) PROVE Kinds
  BY <1>1, <1>4, FetchHands
<1>5. ASSUME NEW s \in Slots, FetchLost(s) PROVE Kinds
  BY <1>1, <1>5, FetchLostHands
<1>6. ASSUME NEW s \in Slots, FinishJob(s) PROVE Kinds
  BY <1>1, <1>6, FinishHands
<1>7. ASSUME NEW s \in Slots, RetryHeld(s) PROVE Kinds
  <2>1. pc[s] # "idle" /\ UNCHANGED add /\ \E lifo \in BOOLEAN : RetryJob(s, held[s], lifo)
    BY <1>7 DEF RetryHeld
  <2> QED
    BY <2>1
<1>8. ASSUME NEW s \in Slots, SettleLost(s) PROVE Kinds
  <2>1. /\ pc[s] # "idle" /\ UNCHANGED add
        /\ \/ \E next \in Jobs \cup {NoJob} : Hands(s, next, TRUE)
           \/ \E lifo \in BOOLEAN : RetryJob(s, held[s], lifo)
    BY <1>1, <1>8, SettleLostCases
  <2> QED
    BY <2>1
<1>9. CASE CheckStalled
  BY <1>9 DEF CheckStalled
<1>10. CASE UNCHANGED vars
  <2>1. Still
    BY <1>1, <1>10 DEF vars, keys, scriptKeys, Still, ScriptInv, KeysTypeOK
  <2> QED
    BY <2>1
<1> HIDE DEF Kinds
<1> QED
  BY <1>2, <1>3, <1>4, <1>5, <1>6, <1>7, <1>8, <1>9, <1>10 DEF Next, Settle

\* What Hands does, with the script's parameters.
LEMMA HandsScript ==
  ASSUME Inv, NEW s \in Slots, NEW next \in Jobs \cup {NoJob}, NEW lost \in BOOLEAN, Hands(s, next, lost)
  PROVE  \E due, j, target, gone :
           /\ j \in Jobs \cup {NoJob}
           /\ HandOver(s, next, due, j, target, gone) /\ UNCHANGED add
           /\ j = NoJob \/ (j = held[s] /\ lock[j] = s /\ pc[s] = "work")
<1>1. PICK due, j, target, gone :
    /\ j \in Jobs \cup {NoJob}
    /\ HandOver(s, next, due, j, target, gone) /\ UNCHANGED add
    /\ j = NoJob \/ (j = held[s] /\ lock[j] = s)
  BY Zenon DEF Hands
<1>2. j = NoJob \/ pc[s] = "work"
  BY <1>1, InvParts DEF SlotTypes, SlotInv, AgainUnlocked
<1> QED
  BY <1>1, <1>2

\* A late worker settles no job, and a check takes no job back early.
LEMMA LeavesStep ==
  ASSUME Inv, [Next]_vars, NEW k \in Jobs, active[k] > 0, active'[k] = 0
  PROVE  \/ lock[k] # NoLock /\ Working(lock[k], k)
         \/ lock[k] = NoLock /\ k \notin fresh
<1>1. /\ ScriptInv /\ SlotTypes /\ SlotInv /\ NoJob \notin Jobs /\ NoLock \notin Slots
      /\ active[k] \in Nat
  BY InvParts, KeysAssumption DEF ScriptInv, KeysTypeOK
<1>2. ASSUME NEW s \in Slots, NEW next \in Jobs \cup {NoJob}, NEW lost \in BOOLEAN, Hands(s, next, lost)
      PROVE  lock[k] # NoLock /\ Working(lock[k], k)
  <2>1. PICK due, j, target, gone :
           /\ j \in Jobs \cup {NoJob}
           /\ HandOver(s, next, due, j, target, gone) /\ UNCHANGED add
           /\ j = NoJob \/ (j = held[s] /\ lock[j] = s /\ pc[s] = "work")
    BY <1>2, HandsScript
  <2>2. Assigned(s, next, due, j, gone, k)
    BY <1>1, <2>1, HandOverFields
  <2>3. active'[k] = active[k] + 1 \/ active'[k] = active[k] \/ k = j
    BY <2>2, Zenon DEF Assigned
  <2>4. k = j
    BY <1>1, <2>3
  <2> QED
    BY <1>1, <2>1, <2>4 DEF Working
<1>3. ASSUME NEW s \in Slots, NEW lifo \in BOOLEAN, pc[s] # "idle", RetryJob(s, held[s], lifo)
      PROVE  lock[k] # NoLock /\ Working(lock[k], k)
  <2>1. held[s] \in Jobs
    BY <1>1, <1>3 DEF SlotTypes
  <2>2. PICK S, due : Requeues(S, due, S) /\ ((S = {} /\ lock[held[s]] # s) \/ (S = {held[s]} /\ lock[held[s]] = s))
    BY <1>1, <1>3, <2>1, RetryJobEffect
  <2>3. k \in S \/ active'[k] = active[k]
    BY <2>2, Zenon DEF Requeues
  <2>4. k = held[s] /\ lock[held[s]] = s
    BY <1>1, <2>2, <2>3
  <2>5. pc[s] = "work"
    BY <1>1, <1>3, <2>4 DEF SlotTypes, SlotInv, AgainUnlocked
  <2> QED
    BY <1>1, <2>4, <2>5 DEF Working
<1>4. CASE MoveStalledJobsToWait
  <2>1. Requeues(Stalling, {}, {})
    BY <1>1, <1>4, StallEffect
  <2>2. k \in Stalling \/ active'[k] = active[k]
    BY <2>1, Zenon DEF Requeues
  <2>3. k \in Stalling
    BY <1>1, <2>2
  <2> QED
    BY <1>1, <2>3 DEF Stalling, SlotInv, FreshUnmarked
<1>5. ASSUME NEW j \in Jobs, Entering(j) PROVE FALSE
  BY <1>1, <1>5 DEF Entering
<1>6. CASE Still
  BY <1>1, <1>6 DEF Still
<1> QED
  BY <1>2, <1>3, <1>4, <1>5, <1>6, StepKinds

\* Whatever renewals are late and replies are lost: a job leaves `active` by the slot that
\* works on it under its lock, or by a check that finds it unlocked and marked by the one before.
THEOREM SharedLeavesFairly == Spec => LeavesFairly
<1>1. Inv /\ [Next]_vars =>
        [\A j \in Jobs : active[j] > 0 /\ active'[j] = 0 =>
            \/ lock[j] # NoLock /\ Working(lock[j], j)
            \/ lock[j] = NoLock /\ j \notin fresh]_vars
  BY LeavesStep
<1> QED
  BY InvInit, InvStep, <1>1, PTL DEF Spec, LeavesFairly

-----------------------------------------------------------------------------
\* The refinement of JobLeases.
LifeKnown ==
  \A k \in Jobs :
    /\ add[k] # "added" => Life(k) = "new" /\ At(k, "none")
    /\ \A key \in QueueKeys : At(k, key) => Life(k) = "queued"
    /\ At(k, "active") => Life(k) = "leased"
    /\ \A key \in DoneKeys : At(k, key) => Life(k) = "settled"
    /\ add[k] = "added" /\ At(k, "none") => Life(k) = "removed"

\* The state of a job in the lease protocol, read off the one key it is in.
LEMMA LifeFacts == OnePlace => LifeKnown
<1> SUFFICES ASSUME OnePlace, NEW k \in Jobs
             PROVE  /\ add[k] # "added" => Life(k) = "new" /\ At(k, "none")
                    /\ \A key \in QueueKeys : At(k, key) => Life(k) = "queued"
                    /\ At(k, "active") => Life(k) = "leased"
                    /\ \A key \in DoneKeys : At(k, key) => Life(k) = "settled"
                    /\ add[k] = "added" /\ At(k, "none") => Life(k) = "removed"
  BY DEF LifeKnown
<1>1. Stored(k) => \E key \in QueueKeys \cup {"active"} \cup DoneKeys : At(k, key)
  BY DEF OnePlace
<1>2. ~Stored(k) => At(k, "none")
  BY DEF OnePlace
<1>3. /\ \A key \in QueueKeys : At(k, key) => ~At(k, "none") /\ ~At(k, "active") /\ \A key1 \in DoneKeys : ~At(k, key1)
      /\ \A key \in DoneKeys : At(k, key) => ~At(k, "none") /\ ~At(k, "active")
      /\ At(k, "active") => ~At(k, "none")
  BY DEF At, QueueKeys, DoneKeys
<1>4. Stored(k) <=> add[k] = "added" /\ hash[k] # {}
  BY DEF Stored
<1>5. add[k] # "added" => Life(k) = "new" /\ At(k, "none")
  BY <1>2, <1>4 DEF Life
<1>6. ASSUME NEW key \in QueueKeys, At(k, key) PROVE Life(k) = "queued"
  <2>1. Stored(k) /\ (\E key1 \in QueueKeys : At(k, key1)) /\ ~At(k, "active") /\ ~(\E key1 \in DoneKeys : At(k, key1))
    BY <1>2, <1>3, <1>6
  <2> QED
    BY <1>4, <2>1 DEF Life
<1>7. ASSUME At(k, "active") PROVE Life(k) = "leased"
  <2>1. Stored(k) /\ ~(\E key1 \in QueueKeys : At(k, key1)) /\ ~(\E key1 \in DoneKeys : At(k, key1))
    BY <1>2, <1>3, <1>7
  <2> QED
    BY <1>4, <1>7, <2>1 DEF Life
<1>8. ASSUME NEW key \in DoneKeys, At(k, key) PROVE Life(k) = "settled"
  <2>1. Stored(k) /\ (\E key1 \in DoneKeys : At(k, key1)) /\ ~At(k, "active") /\ ~(\E key1 \in QueueKeys : At(k, key1))
    BY <1>2, <1>3, <1>8
  <2> QED
    BY <1>4, <2>1 DEF Life
<1>9. ASSUME add[k] = "added", At(k, "none") PROVE Life(k) = "removed"
  <2>1. hash[k] = {} /\ ~Stored(k)
    BY <1>1, <1>3, <1>4, <1>9
  <2> QED
    BY <1>9, <2>1 DEF Life
<1> QED
  BY <1>5, <1>6, <1>7, <1>8, <1>9

\* The same after a step.
LEMMA LifeFactsNext == OnePlace' => LifeKnown'
BY LifeFacts, PTL

\* In the lease protocol a hand-over leases one job and settles or removes others.
LEMMA HandOverLife ==
  ASSUME Inv, OnePlace', UNCHANGED add, NEW s \in Slots, NEW next \in Jobs \cup {NoJob}, NEW due,
         NEW j \in Jobs \cup {NoJob}, NEW target, NEW gone,
         HandOver(s, next, due, j, target, gone), NEW k \in Jobs
  PROVE  /\ k = next => Life(k) = "queued" /\ Life(k)' = "leased" /\ k \notin gone /\ k # j
         /\ k = j => Life(k) = "leased" /\ (k \notin gone => Life(k)' = "settled")
         /\ k \in gone => Life(k)' = "removed" /\ (k = j \/ Life(k) = "settled")
         /\ k # next /\ k # j /\ k \notin gone => Life(k)' = Life(k)
<1>1. Moved(next, due, j, target, gone, k)
  BY InvParts, HandOverPlaces
<1>2. /\ add[k] # "added" => Life(k) = "new" /\ At(k, "none")
      /\ \A key \in QueueKeys : At(k, key) => Life(k) = "queued"
      /\ At(k, "active") => Life(k) = "leased"
      /\ \A key \in DoneKeys : At(k, key) => Life(k) = "settled"
      /\ add[k] = "added" /\ At(k, "none") => Life(k) = "removed"
  BY LifeFacts DEF Inv, LifeKnown
<1>3. /\ add[k] # "added" => Life(k)' = "new"
      /\ \A key \in QueueKeys : At(k, key)' => Life(k)' = "queued"
      /\ At(k, "active")' => Life(k)' = "leased"
      /\ \A key \in DoneKeys : At(k, key)' => Life(k)' = "settled"
      /\ add[k] = "added" /\ At(k, "none")' => Life(k)' = "removed"
  <2>1. LifeKnown'
    BY LifeFactsNext
  <2> QED
    BY <2>1 DEF LifeKnown
<1>4. CASE k = next
  BY <1>1, <1>2, <1>3, <1>4 DEF Moved
<1>5. CASE k # next /\ k = j
  <2>1. At(k, "active") /\ (k \notin gone => At(k, target)') /\ (k \in gone => At(k, "none")') /\ target \in DoneKeys
    BY <1>1, <1>5 DEF Moved, HandOver
  <2>2. Life(k) = "leased" /\ add[k] = "added"
    BY <1>2, <2>1
  <2> QED
    BY <1>3, <1>5, <2>1, <2>2
<1>6. CASE k # next /\ k # j /\ k \in gone
  <2>1. (\E key \in DoneKeys : At(k, key)) /\ At(k, "none")'
    BY <1>1, <1>6 DEF Moved
  <2>2. Life(k) = "settled" /\ add[k] = "added"
    BY <1>2, <2>1
  <2> QED
    BY <1>3, <1>6, <2>1, <2>2
<1>7. CASE k # next /\ k # j /\ k \notin gone
  <2>1. CASE k \in due
    <3>1. At(k, "delayed") /\ \E key \in QueueKeys : At(k, key)'
      BY <1>1, <1>7, <2>1 DEF Moved
    <3> QED
      BY <1>2, <1>3, <1>7, <3>1 DEF QueueKeys
  <2>2. CASE k \notin due
    <3>1. PICK key \in AllKeys \cup {"none"} : At(k, key)
      BY Placed DEF Inv
    <3>2. At(k, key)'
      BY <1>1, <1>7, <2>2, <3>1 DEF Moved
    <3> QED
      BY <1>2, <1>3, <1>7, <3>1, <3>2 DEF AllKeys
  <2> QED
    BY <2>1, <2>2
<1> QED
  BY <1>4, <1>5, <1>6, <1>7

\* Putting jobs back queues those that were leased.
LEMMA RequeuesLife ==
  ASSUME Inv, OnePlace', UNCHANGED add, NEW S, NEW due, NEW made, Requeues(S, due, made), NEW k \in Jobs
  PROVE  /\ k \in S => Life(k) = "leased" /\ Life(k)' = "queued"
         /\ k \notin S => Life(k)' = Life(k)
<1>1. /\ k \in S \cup due => \E key \in QueueKeys : At(k, key)'
      /\ k \notin S \cup due => \A key \in AllKeys \cup {"none"} : At(k, key) => At(k, key)'
      /\ k \in S => active[k] > 0
      /\ k \in due => k \in delayed
  BY DEF Requeues
<1>2. /\ add[k] # "added" => Life(k) = "new" /\ At(k, "none")
      /\ \A key \in QueueKeys : At(k, key) => Life(k) = "queued"
      /\ At(k, "active") => Life(k) = "leased"
      /\ \A key \in DoneKeys : At(k, key) => Life(k) = "settled"
      /\ add[k] = "added" /\ At(k, "none") => Life(k) = "removed"
  BY LifeFacts DEF Inv, LifeKnown
<1>3. /\ add[k] # "added" => Life(k)' = "new"
      /\ \A key \in QueueKeys : At(k, key)' => Life(k)' = "queued"
      /\ At(k, "active")' => Life(k)' = "leased"
      /\ \A key \in DoneKeys : At(k, key)' => Life(k)' = "settled"
      /\ add[k] = "added" /\ At(k, "none")' => Life(k)' = "removed"
  <2>1. LifeKnown'
    BY LifeFactsNext
  <2> QED
    BY <2>1 DEF LifeKnown
<1>4. PICK key \in AllKeys \cup {"none"} : At(k, key)
  BY Placed DEF Inv
<1>5. CASE k \in S
  <2>1. At(k, "active")
    BY <1>1, <1>4, <1>5 DEF At
  <2> QED
    BY <1>1, <1>2, <1>3, <1>5, <2>1
<1>6. CASE k \notin S /\ k \in due
  <2>1. At(k, "delayed")
    BY <1>1, <1>4, <1>6 DEF At
  <2> QED
    BY <1>1, <1>2, <1>3, <1>6, <2>1 DEF QueueKeys
<1>7. CASE k \notin S /\ k \notin due
  BY <1>1, <1>2, <1>3, <1>4, <1>7 DEF AllKeys
<1> QED
  BY <1>5, <1>6, <1>7

\* A call that hands over is a Grant or a Settle, or nothing.
LEMMA HandsLeases ==
  ASSUME Inv, OnePlace', NEW s \in Slots, NEW next \in Jobs \cup {NoJob}, NEW lost \in BOOLEAN,
         Hands(s, next, lost)
  PROVE  Leases!Next \/ UNCHANGED Leases!leaseVars
<1> DEFINE life == [k \in Jobs |-> Life(k)]
<1>1. PICK due, j, target, gone :
           /\ j \in Jobs \cup {NoJob}
           /\ HandOver(s, next, due, j, target, gone) /\ UNCHANGED add
           /\ j = NoJob \/ (j = held[s] /\ lock[j] = s /\ pc[s] = "work")
  BY HandsScript
<1>2. NoJob \notin Jobs /\ lock \in [Jobs -> Slots \cup {NoLock}]
  BY KeysAssumption DEF Inv, TypeOK, KeysTypeOK
<1>3. \A k \in Jobs :
         /\ k = next => Life(k) = "queued" /\ Life(k)' = "leased" /\ k \notin gone /\ k # j
         /\ k = j => Life(k) = "leased" /\ (k \notin gone => Life(k)' = "settled")
         /\ k \in gone => Life(k)' = "removed" /\ (k = j \/ Life(k) = "settled")
         /\ k # next /\ k # j /\ k \notin gone => Life(k)' = Life(k)
  BY <1>1, HandOverLife
<1>4. lock' = [k \in Jobs |-> IF k = next THEN s ELSE IF k = j THEN NoLock ELSE lock[k]]
  BY <1>1 DEF HandOver
<1>5. /\ j = NoJob => gone = {}
      /\ gone \in SUBSET Jobs
  <2>1. completed \subseteq Jobs /\ failed \subseteq Jobs
    BY DEF Inv, TypeOK, KeysTypeOK
  <2> QED
    BY <1>1, <2>1 DEF HandOver
<1>6. CASE j \in Jobs
  <2> DEFINE granted == {next} \cap Jobs
  <2>1. life' = [k \in Jobs |-> IF k \in gone THEN "removed"
                             ELSE IF k \in granted THEN "leased"
                             ELSE IF k = j THEN "settled" ELSE life[k]]
    <3>1. \A k \in Jobs : Life(k)' = IF k \in gone THEN "removed"
                             ELSE IF k \in granted THEN "leased"
                             ELSE IF k = j THEN "settled" ELSE Life(k)
      BY <1>3
    <3> QED
      BY <3>1
  <2>2. lock' = [k \in Jobs |-> IF k \in granted THEN s ELSE IF k = j THEN NoLock ELSE lock[k]]
    BY <1>4
  <2>3. life[j] = "leased" /\ lock[j] = s
    BY <1>1, <1>2, <1>3, <1>6
  <2>4. (\A k \in gone : k = j \/ life[k] = "settled") /\ (\A k \in granted : life[k] = "queued")
        /\ \A k, l \in granted : k = l
    BY <1>3, <1>5
  <2>5. Leases!Settle(s, j, gone, granted)
    BY <2>1, <2>2, <2>3, <2>4 DEF Leases!Settle
  <2>6. granted \in SUBSET Jobs
    OBVIOUS
  <2> HIDE DEF granted
  <2> QED
    BY <1>5, <1>6, <2>5, <2>6 DEF Leases!Next
<1>7. CASE j = NoJob /\ next \in Jobs
  <2>1. life' = [life EXCEPT ![next] = "leased"]
    <3>1. \A k \in Jobs : Life(k)' = IF k = next THEN "leased" ELSE Life(k)
      BY <1>2, <1>3, <1>5, <1>7
    <3> QED
      BY <1>7, <3>1
  <2>2. lock' = [lock EXCEPT ![next] = s]
    BY <1>2, <1>4, <1>7
  <2>3. life[next] = "queued"
    BY <1>3, <1>7
  <2>4. Leases!Grant(s, next)
    BY <2>1, <2>2, <2>3 DEF Leases!Grant
  <2> QED
    BY <1>7, <2>4 DEF Leases!Next
<1>8. CASE j = NoJob /\ next = NoJob
  <2>1. life' = life
    <3>1. \A k \in Jobs : Life(k)' = Life(k)
      BY <1>2, <1>3, <1>5, <1>8
    <3> QED
      BY <3>1
  <2>2. lock' = lock
    BY <1>2, <1>4, <1>8
  <2> QED
    BY <2>1, <2>2 DEF Leases!leaseVars
<1> QED
  BY <1>1, <1>6, <1>7, <1>8

\* Every step is a step of the lease protocol or a stutter.
LEMMA LeasesStep ==
  ASSUME Inv, OnePlace', [Next]_vars
  PROVE  Leases!Next \/ UNCHANGED Leases!leaseVars
<1> DEFINE life == [k \in Jobs |-> Life(k)]
<1>1. /\ ScriptInv /\ SlotTypes /\ NoJob \notin Jobs /\ NoLock \notin Slots
      /\ lock \in [Jobs -> Slots \cup {NoLock}]
  BY InvParts, KeysAssumption DEF ScriptInv, KeysTypeOK
<1>2. ASSUME NEW s \in Slots, NEW next \in Jobs \cup {NoJob}, NEW lost \in BOOLEAN, Hands(s, next, lost)
      PROVE  Leases!Next \/ UNCHANGED Leases!leaseVars
  BY <1>2, HandsLeases
<1>3. ASSUME NEW s \in Slots, NEW lifo \in BOOLEAN, pc[s] # "idle", RetryJob(s, held[s], lifo), UNCHANGED add
      PROVE  Leases!Next \/ UNCHANGED Leases!leaseVars
  <2> DEFINE j == held[s]
  <2>1. j \in Jobs
    BY <1>1, <1>3 DEF SlotTypes
  <2>2. PICK S, due : Requeues(S, due, S) /\ ((S = {} /\ lock[j] # s) \/ (S = {j} /\ lock[j] = s))
    BY <1>1, <1>3, <2>1, RetryJobEffect
  <2> HIDE DEF j
  <2>3. \A k \in Jobs : /\ k \in S => Life(k) = "leased" /\ Life(k)' = "queued"
                        /\ k \notin S => Life(k)' = Life(k)
    BY <1>3, <2>2, RequeuesLife
  <2>4. /\ \A k \in Jobs : /\ k \in S => lock'[k] = NoLock
                           /\ k \notin S => lock'[k] = lock[k]
        /\ lock' \in [Jobs -> Slots \cup {NoLock}]
    BY <2>2, Zenon DEF Requeues
  <2>5. CASE S = {}
    <3>1. life' = life
      BY <2>3, <2>5
    <3>2. lock' = lock
      BY <1>1, <2>4, <2>5
    <3> QED
      BY <3>1, <3>2 DEF Leases!leaseVars
  <2>6. CASE S = {j} /\ lock[j] = s
    <3>1. life' = [life EXCEPT ![j] = "queued"] /\ life[j] = "leased"
      BY <2>1, <2>3, <2>6
    <3>2. lock' = [lock EXCEPT ![j] = NoLock]
      BY <1>1, <2>1, <2>4, <2>6
    <3>3. Leases!Return(s, j)
      BY <2>6, <3>1, <3>2 DEF Leases!Return
    <3> QED
      BY <2>1, <3>3 DEF Leases!Next
  <2> QED
    BY <2>2, <2>5, <2>6
<1>4. ASSUME MoveStalledJobsToWait, UNCHANGED add
      PROVE  Leases!Next \/ UNCHANGED Leases!leaseVars
  <2>1. \A k \in Jobs : /\ k \in Stalling => Life(k) = "leased" /\ Life(k)' = "queued"
                        /\ k \notin Stalling => Life(k)' = Life(k)
    BY <1>1, <1>4, StallEffect, RequeuesLife
  <2>2. lock' = lock
    BY <1>4 DEF MoveStalledJobsToWait
  <2>3. Stalling \in SUBSET Jobs /\ \A k \in Stalling : lock[k] = NoLock
    BY <1>1 DEF Stalling, ScriptInv, ScriptsTypeOK
  <2> HIDE DEF life
  <2>4. life' = [k \in Jobs |-> IF k \in Stalling THEN "queued" ELSE life[k]] /\ \A k \in Stalling : life[k] = "leased"
    BY <2>1, <2>3 DEF life
  <2> USE DEF life
  <2>5. Leases!Reclaim(Stalling)
    BY <2>2, <2>3, <2>4 DEF Leases!Reclaim
  <2> QED
    BY <2>3, <2>5 DEF Leases!Next
<1>5. ASSUME NEW j \in Jobs, Entering(j)
      PROVE  Leases!Next \/ UNCHANGED Leases!leaseVars
  <2>1. LifeKnown /\ LifeKnown'
    BY LifeFacts, LifeFactsNext DEF Inv
  <2>2. ASSUME NEW k \in Jobs, k # j PROVE Life(k)' = Life(k)
    <3>1. add'[k] = add[k] /\ \A key \in AllKeys \cup {"none"} : At(k, key) => At(k, key)'
      BY <1>5, <2>2 DEF Entering
    <3>2. PICK key \in AllKeys \cup {"none"} : At(k, key)
      BY Placed DEF Inv
    <3>3. At(k, key)'
      BY <3>1, <3>2
    <3> QED
      BY <2>1, <3>1, <3>2, <3>3 DEF LifeKnown, AllKeys
  <2>3. Life(j) = "new" /\ UNCHANGED lock
    BY <1>5, <2>1 DEF Entering, LifeKnown
  <2>4. Life(j)' = "new" \/ Life(j)' = "queued"
    BY <1>5, <2>1 DEF Entering, LifeKnown
  <2>5. CASE Life(j)' = "new"
    <3>1. life' = life
      BY <2>2, <2>3, <2>5
    <3> QED
      BY <2>3, <3>1 DEF Leases!leaseVars
  <2>6. CASE Life(j)' = "queued"
    <3>1. life' = [life EXCEPT ![j] = "queued"] /\ life[j] = "new"
      BY <2>2, <2>3, <2>6
    <3>2. Leases!Queue(j)
      BY <2>3, <3>1 DEF Leases!Queue
    <3> QED
      BY <3>2 DEF Leases!Next
  <2> QED
    BY <2>4, <2>5, <2>6
<1>6. ASSUME Still
      PROVE  Leases!Next \/ UNCHANGED Leases!leaseVars
  <2>1. life' = life
    <3>1. \A k \in Jobs : Life(k)' = Life(k)
      BY <1>6 DEF Still, Life, Stored, At, InList
    <3> QED
      BY <3>1
  <2>2. CASE lock' = lock
    BY <2>1, <2>2 DEF Leases!leaseVars
  <2>3. CASE lock' # lock
    <3>1. PICK j \in Jobs : lock' = [lock EXCEPT ![j] = NoLock]
      BY <1>6, <2>3 DEF Still
    <3>2. lock[j] # NoLock
      BY <1>1, <2>3, <3>1
    <3>3. active[j] > 0
      BY <3>2 DEF Inv, LockedActive
    <3>4. At(j, "active")
      <4>1. PICK key \in AllKeys \cup {"none"} : At(j, key)
        BY Placed DEF Inv
      <4> QED
        BY <3>3, <4>1 DEF At
    <3>5. life[j] = "leased"
      BY <3>4, LifeFacts DEF Inv, LifeKnown
    <3>6. Leases!Lapse(j)
      BY <2>1, <3>1, <3>2, <3>5 DEF Leases!Lapse
    <3> QED
      BY <3>6 DEF Leases!Next
  <2> QED
    BY <2>2, <2>3
<1> QED
  BY <1>2, <1>3, <1>4, <1>5, <1>6, StepKinds

\* The scripts, called as SharedQueue calls them, implement the leases: no job is lost,
\* leased to two slots at a time, or settled by a slot that does not have its lease.
THEOREM SharedKeepsLeases == Spec => LeasesKept
<1>1. Init => Leases!Init
  <2> SUFFICES ASSUME Init PROVE Leases!Init
    OBVIOUS
  <2>1. LifeKnown
    BY InvInit, LifeFacts DEF Inv
  <2>2. \A k \in Jobs : Life(k) = "new"
    BY <2>1 DEF Init, ProducerInit, LifeKnown
  <2> QED
    BY <2>2 DEF Leases!Init, Init, KeysInit
<1>2. Inv /\ Inv' /\ [Next]_vars => [Leases!Next]_(Leases!leaseVars)
  <2> SUFFICES ASSUME Inv, Inv', [Next]_vars PROVE Leases!Next \/ UNCHANGED Leases!leaseVars
    OBVIOUS
  <2> QED
    BY LeasesStep DEF Inv
<1> QED
  BY InvInit, InvStep, <1>1, <1>2, PTL DEF Spec, LeasesKept, Leases!Spec

\* A step of JobLeases keeps owners to leased jobs and does nothing that is not final,
\* whatever the mapping gives it.
LEMMA LeasesFinalStep ==
  ASSUME lock \in [Jobs -> Slots \cup {NoLock}], Leases!OwnedLeased, [Leases!Next]_(Leases!leaseVars)
  PROVE  Leases!OwnedLeased' /\ Leases!Final
<1> DEFINE Lives == [j \in Jobs |-> Life(j)]
           LeasedOnly == \A j \in Jobs : lock[j] # NoLock => Lives[j] = "leased"
           Finals == \A j \in Jobs :
             /\ lock[j] # NoLock => lock'[j] \in {lock[j], NoLock}
             /\ Lives[j] \notin Leases!Ended /\ Lives'[j] \in Leases!Ended => Lives[j] = "leased" /\ lock[j] # NoLock
             /\ Lives[j] \in Leases!Ended => Lives'[j] \in {Lives[j], "removed"}
<1>1. LeasedOnly
  BY DEF Leases!OwnedLeased
<1>2. LeasedOnly' => Leases!OwnedLeased'
  BY DEF Leases!OwnedLeased
<1>3. Finals => Leases!Final
  BY DEF Leases!Final
<1>4. Lives = [j \in Jobs |-> Lives[j]]
  OBVIOUS
<1>5. SUFFICES LeasedOnly' /\ Finals
  BY <1>2, <1>3
<1>6. CASE UNCHANGED <<Lives, lock>>
  <2> HIDE DEF Lives
  <2> QED BY <1>1, <1>6
<1>7. ASSUME NEW j \in Jobs, Leases!Queue(j) PROVE LeasedOnly' /\ Finals
  <2>1. Lives[j] = "new" /\ Lives' = [Lives EXCEPT ![j] = "queued"] /\ lock' = lock
    BY <1>7 DEF Leases!Queue
  <2> HIDE DEF Lives
  <2> QED BY <1>1, <1>4, <2>1 DEF Leases!Ended
<1>8. ASSUME NEW j \in Jobs, Leases!Lapse(j) PROVE LeasedOnly' /\ Finals
  <2>1. lock' = [lock EXCEPT ![j] = NoLock] /\ Lives' = Lives
    BY <1>8 DEF Leases!Lapse
  <2> HIDE DEF Lives
  <2> QED BY <1>1, <2>1 DEF Leases!Ended
<1>9. ASSUME NEW s \in Slots, NEW j \in Jobs, Leases!Grant(s, j) PROVE LeasedOnly' /\ Finals
  <2>1. Lives[j] = "queued" /\ Lives' = [Lives EXCEPT ![j] = "leased"] /\ lock' = [lock EXCEPT ![j] = s]
    BY <1>9 DEF Leases!Grant
  <2> HIDE DEF Lives
  <2> QED BY <1>1, <1>4, <2>1 DEF Leases!Ended
<1>10. ASSUME NEW s \in Slots, NEW j \in Jobs, Leases!Return(s, j) PROVE LeasedOnly' /\ Finals
  <2>1. Lives[j] = "leased" /\ Lives' = [Lives EXCEPT ![j] = "queued"] /\ lock' = [lock EXCEPT ![j] = NoLock]
    BY <1>10 DEF Leases!Return
  <2> HIDE DEF Lives
  <2> QED BY <1>1, <1>4, <2>1 DEF Leases!Ended
<1>11. ASSUME NEW S \in SUBSET Jobs, Leases!Reclaim(S) PROVE LeasedOnly' /\ Finals
  <2>1. /\ \A j \in S : Lives[j] = "leased" /\ lock[j] = NoLock
        /\ Lives' = [j \in Jobs |-> IF j \in S THEN "queued" ELSE Lives[j]] /\ lock' = lock
    BY <1>11 DEF Leases!Reclaim
  <2> HIDE DEF Lives
  <2> QED BY <1>1, <2>1 DEF Leases!Ended
<1>12. ASSUME NEW s \in Slots, NEW j \in Jobs, NEW gone \in SUBSET Jobs, NEW granted \in SUBSET Jobs,
              Leases!Settle(s, j, gone, granted)
       PROVE  LeasedOnly' /\ Finals
  <2>1. /\ Lives[j] = "leased" /\ lock[j] = s
        /\ \A k \in gone : k = j \/ Lives[k] = "settled"
        /\ \A k \in granted : Lives[k] = "queued"
        /\ Lives' = [k \in Jobs |-> IF k \in gone THEN "removed" ELSE IF k \in granted THEN "leased"
                                    ELSE IF k = j THEN "settled" ELSE Lives[k]]
        /\ lock' = [k \in Jobs |-> IF k \in granted THEN s ELSE IF k = j THEN NoLock ELSE lock[k]]
    BY <1>12 DEF Leases!Settle
  <2> HIDE DEF Lives
  <2> QED BY <1>1, <2>1, KeysAssumption DEF Leases!Ended, KeysAssumption
<1> HIDE DEF LeasedOnly, Finals
<1> QED BY <1>6, <1>7, <1>8, <1>9, <1>10, <1>11, <1>12 DEF Leases!Next, Leases!leaseVars

\* What the implementation of JobLeases amounts to: only jobs in `active` are locked, no
\* lock goes from one slot to another, a job gets to `completed` or `failed`, or is removed,
\* only by the slot whose lock it has, and never comes back.
THEOREM LeasesEnd == Spec => []Leases!OwnedLeased /\ Leases!LeasesFinal
<1>1. Leases!Init => Leases!OwnedLeased
  BY DEF Leases!Init, Leases!OwnedLeased
<1>2. TypeOK => lock \in [Jobs -> Slots \cup {NoLock}]
  BY DEF TypeOK, KeysTypeOK
<1>3. TypeOK /\ Leases!OwnedLeased /\ [Leases!Next]_(Leases!leaseVars) => Leases!OwnedLeased'
  BY <1>2, LeasesFinalStep
<1>4. TypeOK /\ Leases!OwnedLeased /\ [Leases!Next]_(Leases!leaseVars)
        => [Leases!Final]_(Leases!leaseVars)
  BY <1>2, LeasesFinalStep
<1> QED BY <1>1, <1>3, <1>4, SharedTypes, SharedKeepsLeases, PTL
        DEF LeasesKept, Leases!Spec, Leases!LeasesFinal

-----------------------------------------------------------------------------
\* What GetJobCounts has not counted by its command `cursor` is at that stage of its way, or
\* further on.
CoverInv ==
  /\ cursor = 0 => missing = {}
  /\ \A k \in missing :
       /\ cursor \in 1..4 => Stage(k) >= cursor
       /\ cursor = 1 => ~InList(wait, k)
       /\ cursor = 5 => Stage(k) >= 4 /\ k \notin completed

\* No step moves an id between two keys of one stage.
NoCross ==
  \A k \in Jobs : (k \in prioritized => ~InList(wait', k)) /\ (k \in failed => k \notin completed')

StageKnown ==
  \A k \in Jobs :
    /\ Stage(k) \in {0, 1, 2, 3, 4}
    /\ InList(wait, k) \/ k \in prioritized <=> Stage(k) = 1
    /\ Stage(k) = 2 => k \in delayed
    /\ Stage(k) = 3 => active[k] > 0
    /\ Stage(k) = 4 => k \in completed \cup failed

\* The stage of the count a job belongs to, read off the one key it is in.
LEMMA StageFacts == OnePlace => StageKnown
<1> SUFFICES ASSUME OnePlace, NEW k \in Jobs
             PROVE  /\ Stage(k) \in {0, 1, 2, 3, 4}
                    /\ InList(wait, k) \/ k \in prioritized <=> Stage(k) = 1
                    /\ Stage(k) = 2 => k \in delayed
                    /\ Stage(k) = 3 => active[k] > 0
                    /\ Stage(k) = 4 => k \in completed \cup failed
  BY Zenon DEF StageKnown
<1>1. PICK key \in AllKeys \cup {"none"} : At(k, key)
  BY Placed
<1>2. CASE key = "wait" \/ key = "prioritized"
  BY <1>1, <1>2 DEF Stage, At
<1>3. CASE key = "delayed"
  BY <1>1, <1>3 DEF Stage, At
<1>4. CASE key = "active"
  BY <1>1, <1>4 DEF Stage, At
<1>5. CASE key \in DoneKeys
  BY <1>1, <1>5 DEF Stage, At, DoneKeys
<1>6. CASE key = "none" \/ key = "paused"
  BY <1>1, <1>6 DEF Stage, At
<1> QED
  BY <1>2, <1>3, <1>4, <1>5, <1>6 DEF AllKeys, QueueKeys

\* The same after a step.
LEMMA StageFactsNext == OnePlace' => StageKnown'
  BY StageFacts, PTL

\* No step moves an id between two keys of one stage of the count.
LEMMA StepCross ==
  ASSUME Inv, [Next]_vars
  PROVE  NoCross
<1> SUFFICES ASSUME NEW k \in Jobs
             PROVE  (k \in prioritized => ~InList(wait', k)) /\ (k \in failed => k \notin completed')
  BY DEF NoCross
<1>1. /\ ScriptInv /\ SlotTypes /\ SlotInv /\ NoJob \notin Jobs
      /\ \A i \in Jobs : add[i] # "added" => At(i, "none")
  BY InvParts, KeysAssumption DEF ScriptInv, OnePlace, Stored
<1>2. /\ k \in prioritized => At(k, "prioritized")
      /\ k \in failed => At(k, "failed")
  <2>1. PICK key \in AllKeys \cup {"none"} : At(k, key)
    BY <1>1, Placed DEF ScriptInv
  <2> QED
    BY <2>1 DEF At
<1>3. ASSUME NEW S, NEW due, NEW made, Requeues(S, due, made)
      PROVE  (k \in prioritized => ~InList(wait', k)) /\ (k \in failed => k \notin completed')
  <2>1. /\ k \notin S \cup due => \A key \in AllKeys \cup {"none"} : At(k, key) => At(k, key)'
        /\ k \in S => active[k] > 0
        /\ k \in due => k \in delayed
        /\ completed' = completed
    BY <1>3, Zenon DEF Requeues
  <2>2. k \in prioritized => k \notin S \cup due
    BY <1>2, <2>1 DEF At
  <2>3. k \in prioritized => At(k, "prioritized")'
    BY <1>2, <2>1, <2>2 DEF AllKeys, QueueKeys
  <2> QED
    BY <1>2, <2>1, <2>3 DEF At
<1>4. ASSUME NEW s \in Slots, NEW next \in Jobs \cup {NoJob}, NEW lost \in BOOLEAN, Hands(s, next, lost)
      PROVE  (k \in prioritized => ~InList(wait', k)) /\ (k \in failed => k \notin completed')
  <2>1. PICK due, j, target, gone :
           /\ j \in Jobs \cup {NoJob}
           /\ HandOver(s, next, due, j, target, gone) /\ UNCHANGED add
           /\ j = NoJob \/ (j = held[s] /\ lock[j] = s /\ pc[s] = "work")
    BY <1>4, HandsScript
  <2>2. /\ InList(wait', k) => InList(wait, k) \/ k \in Plain(due)
        /\ due \in SUBSET delayed
    BY <2>1 DEF HandOver, Pulls
  <2>3. k \in completed' => k \in completed \/ (k = j /\ j \in Jobs /\ active[j] > 0)
    BY <2>1 DEF HandOver
  <2>4. Plain(due) \subseteq due
    BY DEF Plain
  <2> QED
    BY <1>2, <2>2, <2>3, <2>4 DEF At
<1>5. ASSUME NEW s \in Slots, NEW lifo \in BOOLEAN, pc[s] # "idle", RetryJob(s, held[s], lifo)
      PROVE  (k \in prioritized => ~InList(wait', k)) /\ (k \in failed => k \notin completed')
  <2>1. held[s] \in Jobs
    BY <1>1, <1>5 DEF SlotTypes
  <2>2. PICK S, due : Requeues(S, due, S)
    BY <1>1, <1>5, <2>1, RetryJobEffect
  <2> QED
    BY <2>2, <1>3
<1>6. CASE MoveStalledJobsToWait
  BY <1>1, <1>3, <1>6, StallEffect
<1>7. ASSUME NEW j \in Jobs, Entering(j)
      PROVE  (k \in prioritized => ~InList(wait', k)) /\ (k \in failed => k \notin completed')
  <2>1. CASE k = j
    BY <1>1, <1>2, <1>7, <2>1 DEF Entering, At
  <2>2. CASE k # j
    <3>1. \A key \in AllKeys \cup {"none"} : At(k, key) => At(k, key)'
      BY <1>7, <2>2 DEF Entering
    <3> QED
      BY <1>2, <3>1 DEF At, AllKeys, QueueKeys, DoneKeys
  <2> QED
    BY <2>1, <2>2
<1>8. CASE Still
  BY <1>2, <1>8 DEF Still, At
<1> QED
  BY <1>4, <1>5, <1>6, <1>7, <1>8, StepKinds

\* A step of GetJobCounts, one that Onward looks at, or one that moves no id.
LEMMA CountKinds ==
  ASSUME [Next]_vars
  PROVE  \/ CountFirst \/ CountNext \/ CountLast
         \/ Onward /\ cursor' = cursor
         \/ UNCHANGED <<wait, prioritized, delayed, active, completed, failed, missing, cursor>>
<1>1. ASSUME NEW j \in Jobs, Add(j) \/ AddForeign(j) \/ LockExpires(j) \/ LockLapses(j)
      PROVE  \/ Onward /\ cursor' = cursor
             \/ UNCHANGED <<wait, prioritized, delayed, active, completed, failed, missing, cursor>>
  BY <1>1 DEF Add, AddForeign, LockExpires, LockLapses, pending, finished, history
<1>2. CASE PauseQueue \/ ResumeQueue \/ CheckExpires \/ UNCHANGED vars
  BY <1>2 DEF PauseQueue, Pause, ResumeQueue, Resume, CheckExpires, vars, keys, pending, finished, history
<1>3. ASSUME NEW s \in Slots, FetchJob(s) \/ Settle(s) \/ Renew(s)
      PROVE  \/ Onward /\ cursor' = cursor
             \/ UNCHANGED <<wait, prioritized, delayed, active, completed, failed, missing, cursor>>
  BY <1>3 DEF FetchJob, Settle, FinishJob, FinishRefused, RetryHeld, Renew, ExtendLock, keys, pending, finished
<1>4. CASE CheckStalled
  BY <1>4 DEF CheckStalled
<1>5. ASSUME NEW s \in Slots, FetchLost(s) \/ SettleLost(s) \/ Crash(s)
      PROVE  \/ Onward /\ cursor' = cursor
             \/ UNCHANGED <<wait, prioritized, delayed, active, completed, failed, missing, cursor>>
  BY <1>5 DEF FetchLost, SettleLost, Crash, keys, pending, finished
<1> QED
  BY <1>1, <1>2, <1>3, <1>4, <1>5 DEF Next

\* Every step keeps what CountsCover needs.
LEMMA CoverStep == Inv /\ CoverInv /\ [Next]_vars => CoverInv'
<1> SUFFICES ASSUME Inv, CoverInv, [Next]_vars PROVE CoverInv'
  OBVIOUS
<1>1. /\ NoCross /\ cursor \in 0..5 /\ missing \subseteq Jobs
      /\ StageKnown /\ StageKnown'
  BY StepCross, StageFacts, StageFactsNext, InvStep DEF Inv, TypeOK
<1>2. CASE CountFirst
  <2>1. \A k \in Jobs : Stage(k)' = Stage(k) /\ InList(wait, k)' = InList(wait, k)
    BY <1>2 DEF CountFirst, keys, pending, finished, Stage, InList
  <2>2. \A k \in missing' : k \in Jobs /\ Stage(k) > 0 /\ ~InList(wait, k)
    BY <1>2 DEF CountFirst, Counted
  <2> QED
    BY <1>1, <1>2, <2>1, <2>2 DEF CountFirst, CoverInv, StageKnown
<1>3. CASE CountNext
  <2>1. \A k \in Jobs : Stage(k)' = Stage(k)
    BY <1>3 DEF CountNext, keys, pending, finished, Stage, InList
  <2>2. cursor \in 1..4 /\ cursor' = cursor + 1 /\ completed' = completed
    BY <1>3 DEF CountNext, keys, finished
  <2>3. \A k \in missing' : k \in missing /\ k \in Jobs /\ k \notin Counted(cursor + 1)
    BY <1>1, <1>3 DEF CountNext
  <2>4. ASSUME NEW k \in missing', cursor \in 1..3 PROVE Stage(k) >= cursor + 1
    <3>1. CASE cursor = 1
      BY <1>1, <2>3, <2>4, <3>1 DEF Counted, CoverInv, StageKnown
    <3>2. CASE cursor = 2
      BY <1>1, <2>3, <2>4, <3>2 DEF Counted, CoverInv, StageKnown
    <3>3. CASE cursor = 3
      BY <1>1, <2>3, <2>4, <3>3 DEF Counted, CoverInv, StageKnown
    <3> QED
      BY <2>4, <3>1, <3>2, <3>3
  <2>5. ASSUME NEW k \in missing', cursor = 4 PROVE Stage(k) >= 4 /\ k \notin completed
    BY <2>3, <2>5 DEF Counted, CoverInv
  <2> QED
    BY <2>1, <2>2, <2>3, <2>4, <2>5 DEF CoverInv
<1>4. CASE CountLast
  BY <1>4 DEF CountLast, CoverInv
<1>5. CASE Onward /\ cursor' = cursor
  <2>1. \A k \in missing' : k \in missing /\ k \in Jobs /\ Stage(k)' >= Stage(k)
    BY <1>1, <1>5 DEF Onward
  <2>2. cursor = 0 => missing' = {}
    BY <2>1 DEF CoverInv
  <2>3. ASSUME NEW k \in missing', cursor \in 1..4 PROVE Stage(k)' >= cursor
    BY <1>1, <2>1, <2>3 DEF CoverInv, StageKnown
  <2>4. ASSUME NEW k \in missing', cursor = 1 PROVE ~InList(wait', k)
    BY <1>1, <2>1, <2>4 DEF CoverInv, StageKnown, NoCross
  <2>5. ASSUME NEW k \in missing', cursor = 5 PROVE Stage(k)' >= 4 /\ k \notin completed'
    <3>1. Stage(k) = 4 /\ k \notin completed /\ Stage(k)' >= Stage(k)
      BY <1>1, <2>1, <2>5 DEF CoverInv, StageKnown
    <3>2. k \in failed
      BY <1>1, <2>1, <3>1 DEF StageKnown
    <3> QED
      BY <1>1, <2>1, <3>1, <3>2 DEF NoCross, StageKnown
  <2> QED
    BY <1>5, <2>2, <2>3, <2>4, <2>5 DEF CoverInv
<1>6. CASE UNCHANGED <<wait, prioritized, delayed, active, completed, failed, missing, cursor>>
  <2>1. \A k : Stage(k)' = Stage(k) /\ InList(wait, k)' = InList(wait, k)
    BY <1>6 DEF Stage, InList
  <2> QED
    BY <1>6, <2>1 DEF CoverInv
<1> QED
  BY <1>2, <1>3, <1>4, <1>5, <1>6, CountKinds

\* GetJobCounts misses no job that was in the keys it counts all the time and took no step
\* back: its commands follow the way of a job.
THEOREM CountsCoverJobs == Spec => []CountsCover
<1>1. Init => CoverInv
  BY DEF Init, CoverInv
<1>2. Inv /\ CoverInv => CountsCover
  <2> SUFFICES ASSUME Inv, CoverInv, cursor = 5, NEW k \in missing PROVE k \in failed
    BY DEF CountsCover, Counted
  <2>1. k \in Jobs /\ StageKnown
    BY StageFacts DEF Inv, TypeOK
  <2> QED
    BY <2>1 DEF CoverInv, StageKnown
<1> QED
  BY InvAlways, CoverStep, <1>1, <1>2, PTL DEF Spec

-----------------------------------------------------------------------------
(* The global concurrency *)

\* The entries of a list that is kept as a bag.
Entries(bag) == UNION { {j} \X (1..bag[j]) : j \in Jobs }

\* The entries, one by one.
LEMMA EntriesAre ==
  ASSUME NEW bag
  PROVE  \A e : e \in Entries(bag) <=> \E j \in Jobs : \E i \in 1..bag[j] : e = <<j, i>>
BY DEF Entries

\* A list with every id at most once has finitely many entries.
LEMMA EntriesFinite ==
  ASSUME NEW bag \in [Jobs -> Nat], \A j \in Jobs : bag[j] <= 1
  PROVE  IsFiniteSet(Entries(bag))
<1> DEFINE T == { j \in Jobs : bag[j] = 1 }
           f == [j \in T |-> <<j, 1>>]
<1>1. IsFiniteSet(T)
  BY ScriptsAssumption, FS_Subset DEF ScriptsAssumption
<1>2. \A e : e \in Entries(bag) <=> \E j \in T : e = <<j, 1>>
  <2>1. ASSUME NEW j \in Jobs PROVE bag[j] = 0 \/ bag[j] = 1
    <3>1. bag[j] \in Nat /\ bag[j] <= 1
      OBVIOUS
    <3> QED
      BY <3>1
  <2>2. \A j \in Jobs : \A i : i \in 1..bag[j] <=> i = 1 /\ j \in T
    BY <2>1
  <2> HIDE DEF T
  <2>3. T \subseteq Jobs
    BY DEF T
  <2> QED
    BY <2>2, <2>3, EntriesAre
<1>3. f \in Surjection(T, Entries(bag))
  <2>1. f \in [T -> Entries(bag)]
    BY <1>2
  <2>2. \A e \in Entries(bag) : \E j \in T : f[j] = e
    BY <1>2
  <2> HIDE DEF f, T
  <2> QED
    BY <2>1, <2>2 DEF Surjection
<1> QED
  BY <1>1, <1>3, FS_Surjection

\* A list with fewer entries is not longer, and LPUSH makes it longer by one.
LEMMA LLenFacts ==
  ASSUME NEW bag \in [Jobs -> Nat], \A j \in Jobs : bag[j] <= 1
  PROVE  /\ LLen(bag) \in Nat
         /\ \A less \in [Jobs -> Nat] : (\A j \in Jobs : less[j] <= bag[j]) => LLen(less) <= LLen(bag)
         /\ \A j \in Jobs : LLen([bag EXCEPT ![j] = @ + 1]) <= LLen(bag) + 1
<1>1. IsFiniteSet(Entries(bag)) /\ \A any : LLen(any) = Cardinality(Entries(any))
  BY EntriesFinite DEF LLen, Entries
<1>2. LLen(bag) \in Nat
  BY <1>1, FS_CardinalityType
<1>3. ASSUME NEW less \in [Jobs -> Nat], \A j \in Jobs : less[j] <= bag[j] PROVE LLen(less) <= LLen(bag)
  <2>1. ASSUME NEW j \in Jobs PROVE 1..less[j] \subseteq 1..bag[j]
    <3>1. less[j] \in Nat /\ bag[j] \in Nat /\ less[j] <= bag[j]
      BY <1>3
    <3> QED
      BY <3>1
  <2>2. Entries(less) \subseteq Entries(bag)
    BY <2>1, EntriesAre
  <2> QED
    BY <1>1, <2>2, FS_Subset
<1>4. ASSUME NEW j \in Jobs PROVE LLen([bag EXCEPT ![j] = @ + 1]) <= LLen(bag) + 1
  <2> DEFINE more == [bag EXCEPT ![j] = @ + 1]
  <2>1. \A k \in Jobs : \A i : i \in 1..more[k] => i \in 1..bag[k] \/ (k = j /\ i = bag[j] + 1)
    OBVIOUS
  <2> HIDE DEF more
  <2>2. Entries(more) \subseteq Entries(bag) \cup {<<j, bag[j] + 1>>}
    BY <2>1, EntriesAre
  <2> DEFINE both == Entries(bag) \cup {<<j, bag[j] + 1>>}
  <2>3. IsFiniteSet(both) /\ Cardinality(both) <= Cardinality(Entries(bag)) + 1
    <3>1. Cardinality(Entries(bag)) \in Nat
      BY <1>1, FS_CardinalityType
    <3>2. /\ IsFiniteSet(both)
          /\ Cardinality(both) = IF <<j, bag[j] + 1>> \in Entries(bag)
                                 THEN Cardinality(Entries(bag)) ELSE Cardinality(Entries(bag)) + 1
      BY <1>1, FS_AddElement
    <3> HIDE DEF both
    <3> QED
      BY <3>1, <3>2
  <2>4. Cardinality(Entries(more)) <= Cardinality(both) /\ Cardinality(Entries(more)) \in Nat
    <3> HIDE DEF both
    <3>1. Entries(more) \in SUBSET both
      BY <2>2 DEF both
    <3> QED
      BY <2>3, <3>1, FS_Subset, FS_CardinalityType
  <2>5. Cardinality(both) \in Nat
    BY <2>3, FS_CardinalityType
  <2>6. LLen(more) <= LLen(bag) + 1
    BY <1>1, <1>2, <2>3, <2>4, <2>5
  <2> QED
    BY <2>6 DEF more
<1> QED
  BY <1>2, <1>3, <1>4

\* What may happen to the active list: ids go, or one comes to what is left of it while
\* that is below the concurrency.
Room ==
  /\ concurrency' = concurrency
  /\ \/ \A k \in Jobs : active'[k] <= active[k]
     \/ \E act \in [Jobs -> Nat], next \in Jobs :
          /\ \A k \in Jobs : act[k] <= active[k]
          /\ concurrency # NoLimit => ~(LLen(act) >= concurrency)
          /\ active' = [act EXCEPT ![next] = @ + 1]

\* Handing out a job asks for room.
LEMMA HandRoom ==
  ASSUME active \in [Jobs -> Nat], NoJob \notin Jobs, concurrency' = concurrency,
         NEW s, NEW next \in Jobs \cup {NoJob}, NEW w, NEW p, NEW locks, NEW started, NEW h,
         NEW act \in [Jobs -> Nat], \A k \in Jobs : act[k] <= active[k],
         Hand(s, next, w, p, act, locks, started, h)
  PROVE  Room
<1>1. CASE active' = act
  BY <1>1 DEF Room
<1>2. CASE next \in Nexts(w, p) /\ next \in Jobs /\ ~PausedOrMaxed(act) /\ active' = [act EXCEPT ![next] = @ + 1]
  BY <1>2 DEF Room, PausedOrMaxed
<1>3. active' = act \/ (next \in Nexts(w, p) /\ ~PausedOrMaxed(act) /\ active' = [act EXCEPT ![next] = @ + 1])
  BY Zenon DEF Hand
<1>4. CASE next = NoJob
  <2>1. active' = act \/ (next \in Nexts(w, p) /\ active' = [act EXCEPT ![NoJob] = @ + 1])
    BY <1>3, <1>4
  <2>2. [act EXCEPT ![NoJob] = @ + 1] = act
    OBVIOUS
  <2> QED
    BY <1>1, <2>1, <2>2
<1>5. CASE next # NoJob
  BY <1>1, <1>2, <1>3, <1>5
<1> QED
  BY <1>4, <1>5

\* moveToActive does,
LEMMA MoveToActiveRoom ==
  ASSUME active \in [Jobs -> Nat], NoJob \notin Jobs,
         NEW s, NEW next \in Jobs \cup {NoJob}, MoveToActive(s, next)
  PROVE  Room
<1>1. PICK due, o :
        Hand(s, next, WaitAfter(o), PrioAfter(due), active, lock, ats, Written(hash, due))
  BY Zenon DEF MoveToActive
<1>2. concurrency' = concurrency
  BY DEF MoveToActive
<1>3. \A k \in Jobs : active[k] <= active[k]
  OBVIOUS
<1> QED
  BY <1>1, <1>2, <1>3, HandRoom

\* and moveToFinished.
LEMMA MoveToFinishedRoom ==
  ASSUME active \in [Jobs -> Nat], NoJob \notin Jobs,
         NEW s, NEW j \in Jobs, NEW target, NEW keep, NEW fetch, NEW next \in Jobs \cup {NoJob},
         MoveToFinished(s, j, target, keep, fetch, next)
  PROVE  Room
<1> DEFINE act == [active EXCEPT ![j] = @ - 1]
<1>1. CASE active[j] > 0
  <2>1. Finish(s, j, target, keep, fetch, next)
    BY <1>1 DEF MoveToFinished
  <2>2. /\ concurrency' = concurrency
        /\ \/ \E due, o, locks, started, h :
                Hand(s, next, WaitAfter(o), PrioAfter(due), act, locks, started, h)
           \/ active' = act
    BY <2>1, Zenon DEF Finish
  <2>3. act \in [Jobs -> Nat] /\ \A k \in Jobs : act[k] <= active[k]
    BY <1>1
  <2> HIDE DEF act
  <2>4. CASE active' = act
    BY <2>2, <2>3, <2>4 DEF Room
  <2>5. CASE \E due, o, locks, started, h :
               Hand(s, next, WaitAfter(o), PrioAfter(due), act, locks, started, h)
    BY <2>2, <2>3, <2>5, HandRoom
  <2> QED
    BY <2>2, <2>4, <2>5
<1>2. CASE ~(active[j] > 0)
  BY <1>2 DEF MoveToFinished, Room
<1> QED
  BY <1>1, <1>2

\* The other scripts only take ids away.
LEMMA RequeuesRoom ==
  ASSUME active \in [Jobs -> Nat], NEW S, NEW due, NEW made, Requeues(S, due, made),
         concurrency' = concurrency
  PROVE  Room
<1>1. \A k \in Jobs : active'[k] = active[k] - 1 \/ active'[k] = active[k]
  BY Zenon DEF Requeues
<1> QED
  BY <1>1 DEF Room

\* Every step.
LEMMA StepRoom ==
  ASSUME Inv, [Next]_vars
  PROVE  Room
<1>1. /\ ScriptInv /\ HashKept /\ SlotTypes /\ SlotInv
      /\ NoJob \notin Jobs /\ active \in [Jobs -> Nat]
  BY InvParts, KeysAssumption DEF ScriptInv, KeysTypeOK
<1>2. ASSUME UNCHANGED <<active, concurrency>> PROVE Room
  BY <1>1, <1>2 DEF Room
<1>3. ASSUME NEW j \in Jobs, Add(j) \/ AddForeign(j) PROVE Room
  <2>1. UNCHANGED concurrency /\ Entering(j)
    BY <1>3, EnterKeeps DEF Add, AddForeign, scriptKeys
  <2> QED
    BY <1>2, <2>1 DEF Entering
<1>4. CASE \/ PauseQueue \/ ResumeQueue \/ CountFirst \/ CountNext \/ CountLast \/ CheckExpires
           \/ \E s \in Slots : FinishRefused(s) \/ Renew(s) \/ Crash(s)
           \/ \E j \in Jobs : LockExpires(j) \/ LockLapses(j)
  <2>1. UNCHANGED concurrency
    BY <1>4 DEF PauseQueue, ResumeQueue, CountFirst, CountNext, CountLast, CheckExpires,
                FinishRefused, Renew, ExtendLock, Crash, LockExpires, LockLapses, scriptKeys
  <2>2. Still
    BY <1>1, <1>4, StillActions
  <2> QED
    BY <1>2, <2>1, <2>2 DEF Still
<1>5. ASSUME NEW s \in Slots, FetchJob(s) \/ FetchLost(s) PROVE Room
  <2>1. PICK next \in Jobs \cup {NoJob} : MoveToActive(s, next)
    BY <1>5 DEF FetchJob, FetchLost
  <2> QED
    BY <1>1, <2>1, MoveToActiveRoom
<1>6. ASSUME NEW s \in Slots, pc[s] # "idle", NEW lifo \in BOOLEAN, RetryJob(s, held[s], lifo) PROVE Room
  <2>1. held[s] \in Jobs
    BY <1>1, <1>6 DEF SlotTypes
  <2>2. concurrency' = concurrency
    BY <1>6 DEF RetryJob
  <2>3. PICK S, due : Requeues(S, due, S)
    BY <1>1, <1>6, <2>1, RetryJobEffect
  <2> QED
    BY <1>1, <2>2, <2>3, RequeuesRoom
<1>7. ASSUME NEW s \in Slots, FinishJob(s) PROVE Room
  <2>1. PICK target \in Targets(s), keep \in KeepJobs, fetch \in BOOLEAN, next \in Jobs \cup {NoJob} :
          MoveToFinished(s, held[s], target, keep, fetch, next)
    BY <1>7 DEF FinishJob
  <2>2. held[s] \in Jobs
    BY <1>1, <1>7 DEF FinishJob, SlotTypes
  <2> QED
    BY <1>1, <2>1, <2>2, MoveToFinishedRoom
<1>8. ASSUME NEW s \in Slots, RetryHeld(s) PROVE Room
  <2>1. pc[s] # "idle" /\ \E lifo \in BOOLEAN : RetryJob(s, held[s], lifo)
    BY <1>8 DEF RetryHeld
  <2> QED
    BY <1>6, <2>1
<1>9. ASSUME NEW s \in Slots, SettleLost(s) PROVE Room
  <2>1. /\ pc[s] = "work"
        /\ \/ \E target, keep, fetch : \E next \in Jobs \cup {NoJob} :
                MoveToFinished(s, held[s], target, keep, fetch, next)
           \/ \E lifo \in BOOLEAN : RetryJob(s, held[s], lifo)
    BY <1>9, Zenon DEF SettleLost
  <2>2. held[s] \in Jobs
    BY <1>1, <2>1 DEF SlotTypes
  <2> QED
    BY <1>1, <1>6, <2>1, <2>2, MoveToFinishedRoom
<1>10. CASE CheckStalled
  <2>1. Requeues(Stalling, {}, {}) /\ concurrency' = concurrency
    BY <1>1, <1>10, StallEffect DEF CheckStalled, MoveStalledJobsToWait
  <2> QED
    BY <1>1, <2>1, RequeuesRoom
<1>11. CASE UNCHANGED vars
  BY <1>2, <1>11 DEF vars, keys, scriptKeys
<1> QED
  BY <1>3, <1>4, <1>5, <1>7, <1>8, <1>9, <1>10, <1>11 DEF Next, Settle

\* The bound holds before any job,
LEMMA BoundInit == Init => ActiveBounded
<1> SUFFICES ASSUME Init, concurrency # NoLimit PROVE LLen(active) <= concurrency
  BY DEF ActiveBounded
<1>1. active \in [Jobs -> Nat] /\ \A j \in Jobs : active[j] = 0
  BY DEF Init, KeysInit
<1>2. \A e : e \notin Entries(active)
  BY <1>1, EntriesAre
<1>3. Entries(active) = {}
  BY <1>2
<1>4. LLen(active) = 0
  BY <1>3, FS_EmptySet DEF LLen, Entries
<1>5. concurrency \in Nat
  BY ScriptsAssumption DEF ScriptsAssumption, Init, ScriptsInit
<1> QED
  BY <1>4, <1>5

\* and each step keeps it.
LEMMA BoundStep == Inv /\ ActiveBounded /\ [Next]_vars => ActiveBounded'
<1> SUFFICES ASSUME Inv, ActiveBounded, [Next]_vars, concurrency' # NoLimit
             PROVE  LLen(active') <= concurrency'
  BY DEF ActiveBounded, LLen
<1>1. active \in [Jobs -> Nat] /\ active' \in [Jobs -> Nat] /\ concurrency \in Concurrencies
  BY InvStep DEF Inv, TypeOK, KeysTypeOK, ScriptsTypeOK
<1>2. \A j \in Jobs : active[j] <= 1
  BY DEF Inv, OnePlace
<1>3. Room
  BY StepRoom
<1>4. concurrency' = concurrency /\ concurrency \in Nat /\ LLen(active) <= concurrency
  BY <1>1, <1>3, ScriptsAssumption DEF Room, ScriptsAssumption, ActiveBounded
<1>5. CASE \A k \in Jobs : active'[k] <= active[k]
  <2>1. LLen(active) \in Nat /\ LLen(active') <= LLen(active)
    BY <1>1, <1>2, <1>5, LLenFacts
  <2>2. LLen(active') \in Nat
    <3>1. \A j \in Jobs : active'[j] <= 1
      BY <1>1, <1>2, <1>5
    <3> QED
      BY <1>1, <3>1, LLenFacts
  <2> QED
    BY <1>4, <2>1, <2>2
<1>6. ASSUME NEW act \in [Jobs -> Nat], NEW next \in Jobs,
             \A k \in Jobs : act[k] <= active[k],
             concurrency # NoLimit => ~(LLen(act) >= concurrency),
             active' = [act EXCEPT ![next] = @ + 1]
      PROVE  LLen(active') <= concurrency'
  <2>1. \A j \in Jobs : act[j] <= 1
    BY <1>1, <1>2, <1>6
  <2>2. LLen(act) \in Nat /\ LLen(active') <= LLen(act) + 1
    BY <1>6, <2>1, LLenFacts
  <2>3. \A j \in Jobs : active'[j] <= 1
    BY InvStep DEF Inv, OnePlace
  <2>4. LLen(active') \in Nat
    BY <1>1, <2>3, LLenFacts
  <2> QED
    BY <1>4, <1>6, <2>2, <2>4
<1> QED
  BY <1>3, <1>5, <1>6 DEF Room

\* No workers, however many fetch at a time or whose replies are lost, have more jobs
\* active than the concurrency that meta gives the queue.
THEOREM ConcurrencyKept == Spec => []ActiveBounded
  BY BoundInit, BoundStep, InvInit, InvStep, PTL DEF Spec
=============================================================================
