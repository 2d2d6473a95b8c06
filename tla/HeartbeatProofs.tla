-------------------------- MODULE HeartbeatProofs --------------------------
(***************************************************************************)
(* Proofs about Heartbeat, for any number of jobs and calls.               *)
(* NoOrphanLoop is inductive once the types are known.  LockKept is not:   *)
(* it needs that no other call of the job is about (Alone), that a call    *)
(* that has not started its heartbeat has left no trace (Fresh), and that  *)
(* an entry of activeLocks belongs to a call of its job (OwnEntry).        *)
(***************************************************************************)
EXTENDS Heartbeat, TLAPS

Busy == {"locked", "processing", "settled"}

Alone ==
  \A c, d \in Calls :
    JobOf[d] = JobOf[c] /\ d # c /\ call[c] \in Busy /\ Handout[JobOf[c]] = "gone" =>
    call[d] \in {"new", "returned"} /\ loop[d] \in {"none", "gone"}
Fresh ==
  \A c \in Calls : call[c] \in {"new", "locked"} =>
    c \notin cancelled /\ loop[c] = "none" /\ \A j \in Jobs : activeLocks[j] # c
OwnEntry == \A c \in Calls, j \in Jobs : activeLocks[j] = c => JobOf[c] = j
LockHeld ==
  \A c \in Calls : call[c] = "locked" /\ Handout[JobOf[c]] = "gone" => lock[JobOf[c]] = c

KeptInv == Fresh /\ OwnEntry /\ Alone /\ LockHeld /\ LockKept

\* The types of the variables of Heartbeat are kept by every step.
THEOREM TypeCorrect == Spec => []TypeOK
<1>1. Init => TypeOK
  BY DEF Init, TypeOK
<1>2. TypeOK /\ [Next]_vars => TypeOK'
  <2> SUFFICES ASSUME TypeOK, [Next]_vars PROVE TypeOK'
    OBVIOUS
  <2> USE HeartbeatAssumption DEF TypeOK
  <2>1. ASSUME NEW c \in Calls, Pickup(c) PROVE TypeOK'
    BY <2>1 DEF Pickup
  <2>2. ASSUME NEW c \in Calls, StartHeartbeat(c) PROVE TypeOK'
    BY <2>2 DEF StartHeartbeat, Entry
  <2>3. ASSUME NEW c \in Calls, Settle(c) PROVE TypeOK'
    BY <2>3 DEF Settle
  <2>4. ASSUME NEW c \in Calls, Return(c) PROVE TypeOK'
    BY <2>4 DEF Return, StopHeartbeat, Entry
  <2>5. ASSUME NEW c \in Calls, Notice(c) PROVE TypeOK'
    BY <2>5 DEF Notice
  <2>6. ASSUME NEW c \in Calls, ExitLoop(c) PROVE TypeOK'
    BY <2>6 DEF ExitLoop, StopHeartbeat, Entry
  <2>7. ASSUME NEW j \in Jobs, LockLapses(j) PROVE TypeOK'
    BY <2>7 DEF LockLapses
  <2>8. CASE CancelContext
    BY <2>8 DEF CancelContext
  <2>9. CASE UNCHANGED vars
    BY <2>9 DEF vars
  <2> QED
    BY <2>1, <2>2, <2>3, <2>4, <2>5, <2>6, <2>7, <2>8, <2>9 DEF Next
<1> QED
  BY <1>1, <1>2, PTL DEF Spec

\* No heartbeat goes on that activeLocks cannot cancel, whatever the order in which
\* processJob and the loops call StartHeartbeat and StopHeartbeat.
THEOREM OrphansNever == Spec => []NoOrphanLoop
<1>1. Init => NoOrphanLoop
  BY DEF Init, NoOrphanLoop, Beating
<1>2. TypeOK /\ NoOrphanLoop /\ [Next]_vars => NoOrphanLoop'
  <2> SUFFICES ASSUME TypeOK, NoOrphanLoop, [Next]_vars PROVE NoOrphanLoop'
    OBVIOUS
  <2> USE HeartbeatAssumption DEF TypeOK, NoOrphanLoop, Beating, Cancelled
  <2>1. ASSUME NEW c \in Calls, Pickup(c) PROVE NoOrphanLoop'
    BY <2>1 DEF Pickup
  <2>2. ASSUME NEW c \in Calls, StartHeartbeat(c) PROVE NoOrphanLoop'
    BY <2>2 DEF StartHeartbeat, Entry
  <2>3. ASSUME NEW c \in Calls, Settle(c) PROVE NoOrphanLoop'
    BY <2>3 DEF Settle
  <2>4. ASSUME NEW c \in Calls, Return(c) PROVE NoOrphanLoop'
    BY <2>4 DEF Return, StopHeartbeat, Entry
  <2>5. ASSUME NEW c \in Calls, Notice(c) PROVE NoOrphanLoop'
    BY <2>5 DEF Notice
  <2>6. ASSUME NEW c \in Calls, ExitLoop(c) PROVE NoOrphanLoop'
    BY <2>6 DEF ExitLoop, StopHeartbeat, Entry
  <2>7. ASSUME NEW j \in Jobs, LockLapses(j) PROVE NoOrphanLoop'
    BY <2>7 DEF LockLapses
  <2>8. CASE CancelContext
    BY <2>8 DEF CancelContext
  <2>9. CASE UNCHANGED vars
    BY <2>9 DEF vars
  <2> QED
    BY <2>1, <2>2, <2>3, <2>4, <2>5, <2>6, <2>7, <2>8, <2>9 DEF Next
<1> QED
  BY <1>1, <1>2, TypeCorrect, PTL DEF Spec

\* Fresh and OwnEntry hold of all jobs.
LEMMA EntriesStep == TypeOK /\ Fresh /\ OwnEntry /\ [Next]_vars => Fresh' /\ OwnEntry'
<1> SUFFICES ASSUME TypeOK, Fresh, OwnEntry, [Next]_vars PROVE Fresh' /\ OwnEntry'
  OBVIOUS
<1> USE HeartbeatAssumption DEF TypeOK, Fresh, OwnEntry
<1>1. ASSUME NEW c \in Calls, Pickup(c) PROVE Fresh' /\ OwnEntry'
  BY <1>1 DEF Pickup
<1>2. ASSUME NEW c \in Calls, StartHeartbeat(c) PROVE Fresh' /\ OwnEntry'
  BY <1>2 DEF StartHeartbeat, Entry
<1>3. ASSUME NEW c \in Calls, Settle(c) PROVE Fresh' /\ OwnEntry'
  BY <1>3 DEF Settle
<1>4. ASSUME NEW c \in Calls, Return(c) PROVE Fresh' /\ OwnEntry'
  BY <1>4 DEF Return, StopHeartbeat, Entry
<1>5. ASSUME NEW c \in Calls, Notice(c) PROVE Fresh' /\ OwnEntry'
  BY <1>5 DEF Notice
<1>6. ASSUME NEW c \in Calls, ExitLoop(c) PROVE Fresh' /\ OwnEntry'
  BY <1>6 DEF ExitLoop, StopHeartbeat, Entry
<1>7. ASSUME NEW j \in Jobs, LockLapses(j) PROVE Fresh' /\ OwnEntry'
  BY <1>7 DEF LockLapses
<1>8. CASE CancelContext
  BY <1>8 DEF CancelContext
<1>9. CASE UNCHANGED vars
  BY <1>9 DEF vars
<1> QED
  BY <1>1, <1>2, <1>3, <1>4, <1>5, <1>6, <1>7, <1>8, <1>9 DEF Next

\* A job that comes back only after its heartbeats are gone is with one call at a time.
LEMMA AloneStep == TypeOK /\ Fresh /\ Alone /\ [Next]_vars => Alone'
<1> SUFFICES ASSUME TypeOK, Fresh, Alone, [Next]_vars PROVE Alone'
  OBVIOUS
<1> USE HeartbeatAssumption DEF TypeOK, Alone, Busy
<1>1. ASSUME NEW c \in Calls, Pickup(c) PROVE Alone'
  BY <1>1 DEF Pickup, Fresh
<1>2. ASSUME NEW c \in Calls, StartHeartbeat(c) PROVE Alone'
  BY <1>2 DEF StartHeartbeat
<1>3. ASSUME NEW c \in Calls, Settle(c) PROVE Alone'
  BY <1>3 DEF Settle
<1>4. ASSUME NEW c \in Calls, Return(c) PROVE Alone'
  BY <1>4 DEF Return
<1>5. ASSUME NEW c \in Calls, Notice(c) PROVE Alone'
  BY <1>5 DEF Notice
<1>6. ASSUME NEW c \in Calls, ExitLoop(c) PROVE Alone'
  BY <1>6 DEF ExitLoop
<1>7. ASSUME NEW j \in Jobs, LockLapses(j) PROVE Alone'
  BY <1>7 DEF LockLapses
<1>8. CASE CancelContext
  BY <1>8 DEF CancelContext
<1>9. CASE UNCHANGED vars
  BY <1>9 DEF vars
<1> QED
  BY <1>1, <1>2, <1>3, <1>4, <1>5, <1>6, <1>7, <1>8, <1>9 DEF Next

\* The heartbeat and the lock of a processing call survive every step of the others.
LEMMA KeptStep ==
  TypeOK /\ KeptInv /\ [Next]_vars => LockHeld' /\ LockKept'
<1> SUFFICES ASSUME TypeOK, KeptInv, [Next]_vars PROVE LockHeld' /\ LockKept'
  OBVIOUS
<1> USE HeartbeatAssumption DEF TypeOK, KeptInv, LockHeld, LockKept, HasLock, Beating, Cancelled
<1>1. ASSUME NEW c \in Calls, Pickup(c) PROVE LockHeld' /\ LockKept'
  BY <1>1 DEF Pickup
<1>2. ASSUME NEW c \in Calls, StartHeartbeat(c) PROVE LockHeld' /\ LockKept'
  BY <1>2 DEF StartHeartbeat, Entry, Fresh, OwnEntry, Alone, Busy
<1>3. ASSUME NEW c \in Calls, Settle(c) PROVE LockHeld' /\ LockKept'
  BY <1>3 DEF Settle, Alone, Busy
<1>4. ASSUME NEW c \in Calls, Return(c) PROVE LockHeld' /\ LockKept'
  BY <1>4 DEF Return, StopHeartbeat, Entry, OwnEntry, Alone, Busy
<1>5. ASSUME NEW c \in Calls, Notice(c) PROVE LockHeld' /\ LockKept'
  BY <1>5 DEF Notice
<1>6. ASSUME NEW c \in Calls, ExitLoop(c) PROVE LockHeld' /\ LockKept'
  BY <1>6 DEF ExitLoop, StopHeartbeat, Entry, OwnEntry, Alone, Busy
<1>7. ASSUME NEW j \in Jobs, LockLapses(j) PROVE LockHeld' /\ LockKept'
  BY <1>7 DEF LockLapses
<1>8. CASE CancelContext
  BY <1>8 DEF CancelContext
<1>9. CASE UNCHANGED vars
  BY <1>9 DEF vars
<1> QED
  BY <1>1, <1>2, <1>3, <1>4, <1>5, <1>6, <1>7, <1>8, <1>9 DEF Next

\* A call keeps its heartbeat and its lock until the processor returned, if the job was
\* handed out again only after the heartbeats of earlier calls were gone.
THEOREM LocksKept == Spec => []LockKept
<1>1. Init => KeptInv
  BY HeartbeatAssumption
     DEF Init, KeptInv, Fresh, OwnEntry, Alone, Busy, LockHeld, LockKept, HasLock
<1>2. TypeOK /\ KeptInv /\ [Next]_vars => KeptInv'
  BY EntriesStep, AloneStep, KeptStep DEF KeptInv
<1>3. KeptInv => LockKept
  BY DEF KeptInv
<1> QED
  BY <1>1, <1>2, <1>3, TypeCorrect, PTL DEF Spec
=============================================================================
