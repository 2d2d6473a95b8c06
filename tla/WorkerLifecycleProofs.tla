----------------------- MODULE WorkerLifecycleProofs -----------------------
(***************************************************************************)
(* Proofs about WorkerLifecycle, for any finite set of jobs and any        *)
(* concurrency.  None of the three invariants is inductive alone.  Counted *)
(* gives wg the meaning of a set of goroutines, InHand ties the job being  *)
(* picked up to the program counter of the main loop, and Placed ties the  *)
(* place of an id to the progress of its goroutine.                        *)
(***************************************************************************)
EXTENDS WorkerLifecycle, FiniteSetTheorems, TLAPS

Started == { j \in Jobs : run[j] \notin {"none", "gone"} }
Counted == wg = Cardinality(Started)

InHand ==
  \/ main \in {"lock", "activate"} /\ \E j \in Jobs : /\ picked = {j} /\ run[j] = "none"
                                                      /\ place[j] = "nowhere"
  \/ main = "spawn" /\ \E j \in Jobs : /\ picked = {j} /\ run[j] = "none"
                                       /\ place[j] = "active"
  \/ main \notin {"lock", "activate", "spawn"} /\ picked = {}

PlacedAt(j) ==
  /\ place[j] = "queued" => run[j] = "none"
  /\ run[j] \in {"load", "work", "leave"} => place[j] = "active"
  /\ run[j] = "record" => place[j] = "nowhere"
  /\ run[j] = "none" /\ j \notin picked /\ ~cancelled => place[j] = "queued"
  /\ run[j] \in {"release", "done", "gone"} /\ ~cancelled => place[j] = "recorded"
Placed == \A j \in Jobs : PlacedAt(j)

Quiet == main = "returned" => Started = {}

Latest ==
  /\ late <= 1
  /\ main \in {"new", "pop"} => late = 0
  /\ late > 0 => Stopping

Inv == TypeOK /\ SlotsAccounted /\ Counted /\ InHand /\ Placed /\ Quiet /\ Latest
-----------------------------------------------------------------------------
\* The goroutines of finitely many jobs can be counted.
LEMMA Finite ==
  /\ IsFiniteSet(Holders) /\ Cardinality(Holders) \in Nat
  /\ IsFiniteSet(Started) /\ Cardinality(Started) \in Nat
<1>1. Holders \in SUBSET Jobs /\ Started \in SUBSET Jobs
  BY DEF Holders, Started
<1> QED
  BY <1>1, LifecycleAssumption, FS_Subset, FS_CardinalityType

\* An element more, an element less.
LEMMA OneMore ==
  ASSUME NEW S, NEW x, IsFiniteSet(S), x \notin S
  PROVE  Cardinality(S \cup {x}) = Cardinality(S) + 1
BY FS_AddElement

\* A finite set without one of its elements.
LEMMA OneLess ==
  ASSUME NEW S, NEW x, IsFiniteSet(S), x \in S
  PROVE  Cardinality(S \ {x}) = Cardinality(S) - 1
BY FS_RemoveElement

\* A set with an element is not counted as 0.
LEMMA SomeIn ==
  ASSUME NEW S, NEW x, IsFiniteSet(S), Cardinality(S) \in Nat, x \in S
  PROVE  Cardinality(S) # 0 /\ Cardinality(S) - 1 \in Nat
<1>1. Cardinality(S) # 0
  BY FS_EmptySet
<1> QED
  BY <1>1

\* The counters stay natural numbers because a goroutine that releases is counted.
LEMMA TypeStep == TypeOK /\ Counted /\ [Next]_vars => TypeOK'
<1> SUFFICES ASSUME TypeOK, Counted, [Next]_vars PROVE TypeOK'
  OBVIOUS
<1> USE DEF TypeOK
<1>1. CASE Start
  BY <1>1 DEF Start
<1>2. CASE SeeShutdown
  BY <1>2 DEF SeeShutdown
<1>3. CASE Acquire
  BY <1>3 DEF Acquire
<1>4. CASE Pop
  BY <1>4 DEF Pop
<1>5. CASE Lock
  BY <1>5 DEF Lock
<1>6. CASE Activate
  BY <1>6 DEF Activate
<1>7. CASE Spawn
  BY <1>7 DEF Spawn
<1>8. CASE GiveBack
  BY <1>8 DEF GiveBack
<1>9. CASE Drained
  BY <1>9 DEF Drained
<1>10. CASE TimeOut
  BY <1>10 DEF TimeOut
<1>11. CASE CallStop
  BY <1>11 DEF CallStop
<1>12. CASE StopReturns
  BY <1>12 DEF StopReturns
<1>13. CASE Cancel
  BY <1>13 DEF Cancel
<1>14. ASSUME NEW j \in Jobs, Load(j) PROVE TypeOK'
  BY <1>14 DEF Load, RunGoes
<1>15. ASSUME NEW j \in Jobs, Process(j) PROVE TypeOK'
  BY <1>15 DEF Process, RunGoes
<1>16. ASSUME NEW j \in Jobs, Leave(j) PROVE TypeOK'
  BY <1>16 DEF Leave, RunGoes
<1>17. ASSUME NEW j \in Jobs, Record(j) PROVE TypeOK'
  BY <1>17 DEF Record, RunGoes
<1>18. ASSUME NEW j \in Jobs, Release(j) PROVE TypeOK'
  BY <1>18 DEF Release, RunGoes
<1>19. ASSUME NEW j \in Jobs, Done(j) PROVE TypeOK'
  <2>1. wg - 1 \in Nat
    BY <1>19, Finite, SomeIn DEF Done, Counted, Started
  <2> QED
    BY <1>19, <2>1 DEF Done, RunGoes
<1>20. CASE UNCHANGED vars
  BY <1>20 DEF vars
<1> QED
  BY <1>1, <1>2, <1>3, <1>4, <1>5, <1>6, <1>7, <1>8, <1>9, <1>10, <1>11, <1>12, <1>13,
     <1>14, <1>15, <1>16, <1>17, <1>18, <1>19, <1>20
     DEF Next, MainStep, RunStep

\* Only a pop that was on its way when the shutdown began is late.
LEMMA LatestStep == TypeOK /\ Latest /\ [Next]_vars => Latest'
<1> SUFFICES ASSUME TypeOK, Latest, [Next]_vars PROVE Latest'
  OBVIOUS
<1> USE DEF TypeOK, Latest, Stopping
<1>1. CASE Start
  BY <1>1 DEF Start
<1>2. CASE SeeShutdown
  BY <1>2 DEF SeeShutdown
<1>3. CASE Acquire
  BY <1>3 DEF Acquire
<1>4. CASE Pop
  BY <1>4 DEF Pop
<1>5. CASE Lock
  BY <1>5 DEF Lock
<1>6. CASE Activate
  BY <1>6 DEF Activate
<1>7. CASE Spawn
  BY <1>7 DEF Spawn
<1>8. CASE GiveBack
  BY <1>8 DEF GiveBack
<1>9. CASE Drained
  BY <1>9 DEF Drained
<1>10. CASE TimeOut
  BY <1>10 DEF TimeOut
<1>11. CASE CallStop
  BY <1>11 DEF CallStop
<1>12. CASE StopReturns
  BY <1>12 DEF StopReturns
<1>13. CASE Cancel
  BY <1>13 DEF Cancel
<1>14. ASSUME NEW j \in Jobs, Load(j) PROVE Latest'
  BY <1>14 DEF Load, RunGoes
<1>15. ASSUME NEW j \in Jobs, Process(j) PROVE Latest'
  BY <1>15 DEF Process, RunGoes
<1>16. ASSUME NEW j \in Jobs, Leave(j) PROVE Latest'
  BY <1>16 DEF Leave, RunGoes
<1>17. ASSUME NEW j \in Jobs, Record(j) PROVE Latest'
  BY <1>17 DEF Record, RunGoes
<1>18. ASSUME NEW j \in Jobs, Release(j) PROVE Latest'
  BY <1>18 DEF Release, RunGoes
<1>19. ASSUME NEW j \in Jobs, Done(j) PROVE Latest'
  BY <1>19 DEF Done, RunGoes
<1>20. CASE UNCHANGED vars
  BY <1>20 DEF vars
<1> QED
  BY <1>1, <1>2, <1>3, <1>4, <1>5, <1>6, <1>7, <1>8, <1>9, <1>10, <1>11, <1>12, <1>13,
     <1>14, <1>15, <1>16, <1>17, <1>18, <1>19, <1>20
     DEF Next, MainStep, RunStep

\* The main loop has the one id it popped, and has not spawned its goroutine.
LEMMA HandStep == TypeOK /\ InHand /\ Placed /\ [Next]_vars => InHand'
<1> SUFFICES ASSUME TypeOK, InHand, Placed, [Next]_vars PROVE InHand'
  OBVIOUS
<1> USE DEF TypeOK, InHand, Placed, PlacedAt
<1>1. CASE Start
  BY <1>1 DEF Start
<1>2. CASE SeeShutdown
  BY <1>2 DEF SeeShutdown
<1>3. CASE Acquire
  BY <1>3 DEF Acquire
<1>4. CASE Pop
  BY <1>4 DEF Pop
<1>5. CASE Lock
  BY <1>5 DEF Lock
<1>6. CASE Activate
  BY <1>6 DEF Activate
<1>7. CASE Spawn
  BY <1>7 DEF Spawn
<1>8. CASE GiveBack
  BY <1>8 DEF GiveBack
<1>9. CASE Drained
  BY <1>9 DEF Drained
<1>10. CASE TimeOut
  BY <1>10 DEF TimeOut
<1>11. CASE CallStop
  BY <1>11 DEF CallStop
<1>12. CASE StopReturns
  BY <1>12 DEF StopReturns
<1>13. CASE Cancel
  BY <1>13 DEF Cancel
<1>14. ASSUME NEW j \in Jobs, Load(j) PROVE InHand'
  BY <1>14 DEF Load, RunGoes
<1>15. ASSUME NEW j \in Jobs, Process(j) PROVE InHand'
  BY <1>15 DEF Process, RunGoes
<1>16. ASSUME NEW j \in Jobs, Leave(j) PROVE InHand'
  BY <1>16 DEF Leave, RunGoes
<1>17. ASSUME NEW j \in Jobs, Record(j) PROVE InHand'
  BY <1>17 DEF Record, RunGoes
<1>18. ASSUME NEW j \in Jobs, Release(j) PROVE InHand'
  BY <1>18 DEF Release, RunGoes
<1>19. ASSUME NEW j \in Jobs, Done(j) PROVE InHand'
  BY <1>19 DEF Done, RunGoes
<1>20. CASE UNCHANGED vars
  BY <1>20 DEF vars
<1> QED
  BY <1>1, <1>2, <1>3, <1>4, <1>5, <1>6, <1>7, <1>8, <1>9, <1>10, <1>11, <1>12, <1>13,
     <1>14, <1>15, <1>16, <1>17, <1>18, <1>19, <1>20
     DEF Next, MainStep, RunStep

\* Each id is where its goroutine, or the main loop, has put it.
LEMMA PlacedStep == TypeOK /\ InHand /\ Placed /\ [Next]_vars => Placed'
<1> SUFFICES ASSUME TypeOK, InHand, Placed, [Next]_vars PROVE Placed'
  OBVIOUS
<1> USE DEF TypeOK, InHand, Placed, PlacedAt
<1>1. CASE Start
  BY <1>1 DEF Start
<1>2. CASE SeeShutdown
  BY <1>2 DEF SeeShutdown
<1>3. CASE Acquire
  BY <1>3 DEF Acquire
<1>4. CASE Pop
  BY <1>4 DEF Pop
<1>5. CASE Lock
  BY <1>5 DEF Lock
<1>6. CASE Activate
  BY <1>6 DEF Activate
<1>7. CASE Spawn
  BY <1>7 DEF Spawn
<1>8. CASE GiveBack
  BY <1>8 DEF GiveBack
<1>9. CASE Drained
  BY <1>9 DEF Drained
<1>10. CASE TimeOut
  BY <1>10 DEF TimeOut
<1>11. CASE CallStop
  BY <1>11 DEF CallStop
<1>12. CASE StopReturns
  BY <1>12 DEF StopReturns
<1>13. CASE Cancel
  BY <1>13 DEF Cancel
<1>14. ASSUME NEW j \in Jobs, Load(j) PROVE Placed'
  BY <1>14 DEF Load, RunGoes
<1>15. ASSUME NEW j \in Jobs, Process(j) PROVE Placed'
  BY <1>15 DEF Process, RunGoes
<1>16. ASSUME NEW j \in Jobs, Leave(j) PROVE Placed'
  BY <1>16 DEF Leave, RunGoes
<1>17. ASSUME NEW j \in Jobs, Record(j) PROVE Placed'
  BY <1>17 DEF Record, RunGoes
<1>18. ASSUME NEW j \in Jobs, Release(j) PROVE Placed'
  BY <1>18 DEF Release, RunGoes
<1>19. ASSUME NEW j \in Jobs, Done(j) PROVE Placed'
  BY <1>19 DEF Done, RunGoes
<1>20. CASE UNCHANGED vars
  BY <1>20 DEF vars
<1> QED
  BY <1>1, <1>2, <1>3, <1>4, <1>5, <1>6, <1>7, <1>8, <1>9, <1>10, <1>11, <1>12, <1>13,
     <1>14, <1>15, <1>16, <1>17, <1>18, <1>19, <1>20
     DEF Next, MainStep, RunStep

\* The semaphore counts the pickup in progress and the goroutines before their release.
LEMMA SlotsStep == TypeOK /\ InHand /\ SlotsAccounted /\ [Next]_vars => SlotsAccounted'
<1> SUFFICES ASSUME TypeOK, InHand, SlotsAccounted, [Next]_vars PROVE SlotsAccounted'
  OBVIOUS
<1> USE DEF TypeOK, SlotsAccounted
<1>1. CASE Start
  <2>1. Holders' = Holders
    BY <1>1 DEF Start, Holders
  <2> QED
    BY <1>1, <2>1, Finite, LifecycleAssumption DEF Start, MainHolds
<1>2. CASE SeeShutdown
  <2>1. Holders' = Holders
    BY <1>2 DEF SeeShutdown, Holders
  <2> QED
    BY <1>2, <2>1, Finite, LifecycleAssumption DEF SeeShutdown, MainHolds
<1>3. CASE Acquire
  <2>1. Holders' = Holders
    BY <1>3 DEF Acquire, Holders
  <2> QED
    BY <1>3, <2>1, Finite, LifecycleAssumption DEF Acquire, MainHolds
<1>4. CASE Pop
  <2>1. Holders' = Holders
    BY <1>4 DEF Pop, Holders
  <2> QED
    BY <1>4, <2>1, Finite, LifecycleAssumption DEF Pop, MainHolds
<1>5. CASE Lock
  <2>1. Holders' = Holders
    BY <1>5 DEF Lock, Holders
  <2> QED
    BY <1>5, <2>1, Finite, LifecycleAssumption DEF Lock, MainHolds
<1>6. CASE Activate
  <2>1. Holders' = Holders
    BY <1>6 DEF Activate, Holders
  <2> QED
    BY <1>6, <2>1, Finite, LifecycleAssumption DEF Activate, MainHolds
<1>7. CASE Spawn
  <2>1. PICK j \in Jobs : picked = {j} /\ run[j] = "none"
    BY <1>7 DEF Spawn, InHand
  <2>2. Holders' = Holders \cup {j}
    BY <1>7, <2>1 DEF Spawn, Holders
  <2>3. Cardinality(Holders') = Cardinality(Holders) + 1
    BY <2>1, <2>2, Finite, OneMore DEF Holders
  <2> QED
    BY <1>7, <2>3, Finite DEF Spawn, MainHolds
<1>8. CASE GiveBack
  <2>1. Holders' = Holders
    BY <1>8 DEF GiveBack, Holders
  <2> QED
    BY <1>8, <2>1, Finite, LifecycleAssumption DEF GiveBack, MainHolds
<1>9. CASE Drained
  <2>1. Holders' = Holders
    BY <1>9 DEF Drained, Holders
  <2> QED
    BY <1>9, <2>1, Finite, LifecycleAssumption DEF Drained, MainHolds
<1>10. CASE TimeOut
  <2>1. Holders' = Holders
    BY <1>10 DEF TimeOut, Holders
  <2> QED
    BY <1>10, <2>1, Finite, LifecycleAssumption DEF TimeOut, MainHolds
<1>11. CASE CallStop
  <2>1. Holders' = Holders
    BY <1>11 DEF CallStop, Holders
  <2> QED
    BY <1>11, <2>1, Finite, LifecycleAssumption DEF CallStop, MainHolds
<1>12. CASE StopReturns
  <2>1. Holders' = Holders
    BY <1>12 DEF StopReturns, Holders
  <2> QED
    BY <1>12, <2>1, Finite, LifecycleAssumption DEF StopReturns, MainHolds
<1>13. CASE Cancel
  <2>1. Holders' = Holders
    BY <1>13 DEF Cancel, Holders
  <2> QED
    BY <1>13, <2>1, Finite, LifecycleAssumption DEF Cancel, MainHolds
<1>14. ASSUME NEW j \in Jobs, Load(j) PROVE SlotsAccounted'
  <2>1. Holders' = Holders
    BY <1>14 DEF Load, RunGoes, Holders
  <2> QED
    BY <1>14, <2>1 DEF Load, MainHolds
<1>15. ASSUME NEW j \in Jobs, Process(j) PROVE SlotsAccounted'
  <2>1. Holders' = Holders
    BY <1>15 DEF Process, RunGoes, Holders
  <2> QED
    BY <1>15, <2>1 DEF Process, MainHolds
<1>16. ASSUME NEW j \in Jobs, Leave(j) PROVE SlotsAccounted'
  <2>1. Holders' = Holders
    BY <1>16 DEF Leave, RunGoes, Holders
  <2> QED
    BY <1>16, <2>1 DEF Leave, MainHolds
<1>17. ASSUME NEW j \in Jobs, Record(j) PROVE SlotsAccounted'
  <2>1. Holders' = Holders
    BY <1>17 DEF Record, RunGoes, Holders
  <2> QED
    BY <1>17, <2>1 DEF Record, MainHolds
<1>18. ASSUME NEW j \in Jobs, Release(j) PROVE SlotsAccounted'
  <2>1. Holders' = Holders \ {j}
    BY <1>18 DEF Release, RunGoes, Holders
  <2>2. Cardinality(Holders') = Cardinality(Holders) - 1
    BY <1>18, <2>1, Finite, OneLess DEF Release, Holders
  <2> QED
    BY <1>18, <2>2, Finite, LifecycleAssumption DEF Release, MainHolds
<1>19. ASSUME NEW j \in Jobs, Done(j) PROVE SlotsAccounted'
  <2>1. Holders' = Holders
    BY <1>19 DEF Done, RunGoes, Holders
  <2> QED
    BY <1>19, <2>1 DEF Done, MainHolds
<1>20. CASE UNCHANGED vars
  BY <1>20 DEF vars, Holders, MainHolds
<1> QED
  BY <1>1, <1>2, <1>3, <1>4, <1>5, <1>6, <1>7, <1>8, <1>9, <1>10, <1>11, <1>12, <1>13,
     <1>14, <1>15, <1>16, <1>17, <1>18, <1>19, <1>20
     DEF Next, MainStep, RunStep

\* wg counts the goroutines, so Start returns only when there is none.
LEMMA CountedStep == TypeOK /\ InHand /\ Counted /\ Quiet /\ [Next]_vars => Counted' /\ Quiet'
<1> SUFFICES ASSUME TypeOK, InHand, Counted, Quiet, [Next]_vars PROVE Counted' /\ Quiet'
  OBVIOUS
<1> USE DEF TypeOK, Counted, Quiet
<1>1. CASE Start
  <2>1. Started' = Started
    BY <1>1 DEF Start, Started
  <2> QED
    BY <1>1, <2>1 DEF Start
<1>2. CASE SeeShutdown
  <2>1. Started' = Started
    BY <1>2 DEF SeeShutdown, Started
  <2> QED
    BY <1>2, <2>1 DEF SeeShutdown
<1>3. CASE Acquire
  <2>1. Started' = Started
    BY <1>3 DEF Acquire, Started
  <2> QED
    BY <1>3, <2>1 DEF Acquire
<1>4. CASE Pop
  <2>1. Started' = Started
    BY <1>4 DEF Pop, Started
  <2> QED
    BY <1>4, <2>1 DEF Pop
<1>5. CASE Lock
  <2>1. Started' = Started
    BY <1>5 DEF Lock, Started
  <2> QED
    BY <1>5, <2>1 DEF Lock
<1>6. CASE Activate
  <2>1. Started' = Started
    BY <1>6 DEF Activate, Started
  <2> QED
    BY <1>6, <2>1 DEF Activate
<1>7. CASE Spawn
  <2>1. PICK j \in Jobs : picked = {j} /\ run[j] = "none"
    BY <1>7 DEF Spawn, InHand
  <2>2. Started' = Started \cup {j}
    BY <1>7, <2>1 DEF Spawn, Started
  <2>3. Cardinality(Started') = Cardinality(Started) + 1
    BY <2>1, <2>2, Finite, OneMore DEF Started
  <2> QED
    BY <1>7, <2>3 DEF Spawn
<1>8. CASE GiveBack
  <2>1. Started' = Started
    BY <1>8 DEF GiveBack, Started
  <2> QED
    BY <1>8, <2>1 DEF GiveBack
<1>9. CASE Drained
  <2>1. Started' = Started
    BY <1>9 DEF Drained, Started
  <2>2. Started = {}
    BY <1>9, Finite, FS_EmptySet DEF Drained
  <2> QED
    BY <1>9, <2>1, <2>2 DEF Drained
<1>10. CASE TimeOut
  <2>1. Started' = Started
    BY <1>10 DEF TimeOut, Started
  <2> QED
    BY <1>10, <2>1 DEF TimeOut
<1>11. CASE CallStop
  <2>1. Started' = Started
    BY <1>11 DEF CallStop, Started
  <2> QED
    BY <1>11, <2>1 DEF CallStop
<1>12. CASE StopReturns
  <2>1. Started' = Started
    BY <1>12 DEF StopReturns, Started
  <2> QED
    BY <1>12, <2>1 DEF StopReturns
<1>13. CASE Cancel
  <2>1. Started' = Started
    BY <1>13 DEF Cancel, Started
  <2> QED
    BY <1>13, <2>1 DEF Cancel
<1>14. ASSUME NEW j \in Jobs, Load(j) PROVE Counted' /\ Quiet'
  <2>1. Started' = Started
    BY <1>14 DEF Load, RunGoes, Started
  <2> QED
    BY <1>14, <2>1 DEF Load
<1>15. ASSUME NEW j \in Jobs, Process(j) PROVE Counted' /\ Quiet'
  <2>1. Started' = Started
    BY <1>15 DEF Process, RunGoes, Started
  <2> QED
    BY <1>15, <2>1 DEF Process
<1>16. ASSUME NEW j \in Jobs, Leave(j) PROVE Counted' /\ Quiet'
  <2>1. Started' = Started
    BY <1>16 DEF Leave, RunGoes, Started
  <2> QED
    BY <1>16, <2>1 DEF Leave
<1>17. ASSUME NEW j \in Jobs, Record(j) PROVE Counted' /\ Quiet'
  <2>1. Started' = Started
    BY <1>17 DEF Record, RunGoes, Started
  <2> QED
    BY <1>17, <2>1 DEF Record
<1>18. ASSUME NEW j \in Jobs, Release(j) PROVE Counted' /\ Quiet'
  <2>1. Started' = Started
    BY <1>18 DEF Release, RunGoes, Started
  <2> QED
    BY <1>18, <2>1 DEF Release
<1>19. ASSUME NEW j \in Jobs, Done(j) PROVE Counted' /\ Quiet'
  <2>1. Started' = Started \ {j}
    BY <1>19 DEF Done, RunGoes, Started
  <2>2. Cardinality(Started') = Cardinality(Started) - 1
    BY <1>19, <2>1, Finite, OneLess DEF Done, Started
  <2> QED
    BY <1>19, <2>1, <2>2 DEF Done
<1>20. CASE UNCHANGED vars
  BY <1>20 DEF vars, Started
<1> QED
  BY <1>1, <1>2, <1>3, <1>4, <1>5, <1>6, <1>7, <1>8, <1>9, <1>10, <1>11, <1>12, <1>13,
     <1>14, <1>15, <1>16, <1>17, <1>18, <1>19, <1>20
     DEF Next, MainStep, RunStep

-----------------------------------------------------------------------------
\* All parts of the invariant together.
LEMMA Invariance == Spec => []Inv
<1>1. Init => Inv
  <2> SUFFICES ASSUME Init PROVE Inv
    OBVIOUS
  <2>1. Holders = {} /\ Started = {}
    BY DEF Init, Holders, Started
  <2>2. TypeOK
    BY DEF Init, TypeOK
  <2>3. Latest
    BY DEF Init, Latest
  <2>4. InHand /\ Placed
    BY DEF Init, InHand, Placed, PlacedAt
  <2>5. SlotsAccounted
    BY <2>1, FS_EmptySet, LifecycleAssumption DEF Init, SlotsAccounted, MainHolds
  <2>6. Counted /\ Quiet
    BY <2>1, FS_EmptySet DEF Init, Counted, Quiet
  <2> QED
    BY <2>2, <2>3, <2>4, <2>5, <2>6 DEF Inv
<1>2. Inv /\ [Next]_vars => Inv'
  BY TypeStep, LatestStep, HandStep, PlacedStep, SlotsStep, CountedStep DEF Inv
<1> QED
  BY <1>1, <1>2, PTL DEF Spec

\* The types of the variables; that sem and wg never pass below 0 is the part that is not
\* obvious from the actions.
THEOREM TypeCorrect == Spec => []TypeOK
<1>1. Inv => TypeOK
  BY DEF Inv
<1> QED
  BY <1>1, Invariance, PTL

\* No place of activeSemaphore leaks or is given back twice.
THEOREM SlotsExact == Spec => []SlotsAccounted
<1>1. Inv => SlotsAccounted
  BY DEF Inv
<1> QED
  BY <1>1, Invariance, PTL

\* Start returns nil only when all its goroutines are gone and, unless the context was
\* cancelled, every job it took is recorded.
THEOREM ReturnsSettled == Spec => []ReturnedSettled
<1>1. Inv => ReturnedSettled
  BY DEF Inv, Quiet, Started, InHand, Placed, PlacedAt, ReturnedSettled, Settled
<1> QED
  BY <1>1, Invariance, PTL

\* At most one job is taken after Stop or the cancellation.
THEOREM OneLatePickup == Spec => []LastPickup
<1>1. Inv => LastPickup
  BY DEF Inv, Latest, LastPickup
<1> QED
  BY <1>1, Invariance, PTL
=============================================================================
