---------------------------- MODULE MCQueueAdmin ----------------------------
(* Instances of QueueAdmin for TLC: one worker with one slot, one or two callers. *)
EXTENDS QueueAdmin, TLC

CONSTANTS j1, j2, s1, W, c1, c2

Basic == [attempts |-> 1, delay |-> FALSE, priority |-> 0,
          removeOnComplete |-> FALSE, removeOnFail |-> FALSE]
RetriedJobs == { [Basic EXCEPT !.attempts = n] : n \in {1, 2} }
OneSlot     == s1 :> W
OneFault    == [crash |-> 0, fault |-> 1, scan |-> 0, pause |-> 0]
DefaultAttempts == [w \in Workers |-> 3]

CallerSymmetry == Permutations(Callers)
=============================================================================
