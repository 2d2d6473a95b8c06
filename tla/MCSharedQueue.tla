---------------------------- MODULE MCSharedQueue ----------------------------
(* Instances of SharedQueue for TLC: values of its constants. *)
EXTENDS SharedQueue, TLC

CONSTANTS j1, j2, a, b

Basic == [attempts |-> 1, delay |-> FALSE, priority |-> 0,
          removeOnComplete |-> FALSE, removeOnFail |-> FALSE]
SomeJobs == { [Basic EXCEPT !.attempts = 2, !.priority = 1], [Basic EXCEPT !.delay = TRUE] }

Keep(n, byAge) == [count |-> n, age |-> byAge]
KeepSome == { Keep(0, FALSE), Keep(1, TRUE) }
=============================================================================
