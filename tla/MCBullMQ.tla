------------------------------ MODULE MCBullMQ ------------------------------
(* Instances of BullMQ for TLC: values of its constants, symmetry. *)
EXTENDS BullMQClaims, TLC

CONSTANTS j1, j2, a1, a2, b1, A, B

Basic == [attempts |-> 1, delay |-> FALSE, priority |-> 0,
          removeOnComplete |-> FALSE, removeOnFail |-> FALSE]
PlainJobs     == { Basic }
AllJobs       == { [Basic EXCEPT !.attempts = 0], [Basic EXCEPT !.delay = TRUE],
                   [Basic EXCEPT !.attempts = 2, !.priority = 1],
                   [Basic EXCEPT !.attempts = 3, !.removeOnComplete = TRUE,
                                  !.removeOnFail = TRUE] }
RetriedJobs   == { [Basic EXCEPT !.attempts = n] : n \in {1, 3} }
RemovedJobs   == { [Basic EXCEPT !.removeOnComplete = TRUE] }

OneEach == (a1 :> A) @@ (b1 :> B)
OneSlot == a1 :> A
TwoSlots == (a1 :> A) @@ (a2 :> A)

DefaultAttempts == [w \in Workers |-> 3]
\* Worker A fails a job at its first stall, B requeues it.
TwoOrThree == (A :> 2) @@ (B :> 3)

Limit(crash, fault, scan, pause) ==
  [crash |-> crash, fault |-> fault, scan |-> scan, pause |-> pause]
Trouble  == Limit(1, 1, 1, 1)
Crash1   == Limit(1, 0, 1, 0)
Scans2   == Limit(0, 0, 2, 0)
Recovery == Limit(2, 0, Unlimited, 0)
=============================================================================
