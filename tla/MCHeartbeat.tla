---------------------------- MODULE MCHeartbeat ----------------------------
(* Instances of Heartbeat for TLC: some calls of job j1, others of job j2. *)
EXTENDS Heartbeat, TLC

CONSTANTS j1, j2, c1, c2, c3, d1, d2

TwoAndTwo == (c1 :> j1) @@ (c2 :> j1) @@ (d1 :> j2) @@ (d2 :> j2)
Three     == (c1 :> j1) @@ (c2 :> j1) @@ (c3 :> j1)

\* A job whose lock may lapse while it is processed, and one that comes back late.
AnyAndGone == (j1 :> "any") @@ (j2 :> "gone")
Returned   == [j \in Jobs |-> "returned"]
=============================================================================
