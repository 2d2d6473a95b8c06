----------------------------- MODULE JobCustody -----------------------------
(***************************************************************************)
(* What a queue promises of its jobs, however many keys, workers and       *)
(* checkers handle them: an id that was accepted is stored until a keeper  *)
(* takes it, and a keeper gives it up only by storing it again, by         *)
(* discarding the job, or by dying with it.  Nobody takes an id before it  *)
(* was accepted, and what a dead keeper held, or a reply that never came   *)
(* brought, is known to be lost.                                           *)
(***************************************************************************)
CONSTANTS Jobs, Keepers, Nothing    \* Nothing is none of Jobs

VARIABLES
  phase,    \* of each id: not accepted yet, owed a run, or the job is gone
  stored,   \* the ids that the queue could still hand out, or has the outcome of
  hands,    \* the id each keeper alone answers for
  lost      \* ids that may be nowhere

custodyVars == <<phase, stored, hands, lost>>

Init ==
  /\ phase = [j \in Jobs |-> "new"]
  /\ stored = {}
  /\ hands = [k \in Keepers |-> Nothing]
  /\ lost = {}

-----------------------------------------------------------------------------
Accept(j) ==
  /\ phase[j] = "new"
  /\ phase' = [phase EXCEPT ![j] = "owed"]
  /\ stored' = stored \cup {j}
  /\ UNCHANGED <<hands, lost>>

\* The id may be stored more than once, or have been taken by another keeper already.
Take(k, j) ==
  /\ hands[k] = Nothing /\ phase[j] # "new"
  /\ hands' = [hands EXCEPT ![k] = j]
  /\ stored' \in {stored, stored \ {j}}
  /\ UNCHANGED <<phase, lost>>

Put(k) ==
  /\ hands[k] # Nothing
  /\ stored' = stored \cup {hands[k]}
  /\ hands' = [hands EXCEPT ![k] = Nothing]
  /\ UNCHANGED <<phase, lost>>

Discard(k) ==
  /\ hands[k] # Nothing
  /\ phase' = [phase EXCEPT ![hands[k]] = "gone"]
  /\ hands' = [hands EXCEPT ![k] = Nothing]
  /\ UNCHANGED <<stored, lost>>

Busy == { k \in Keepers : hands[k] # Nothing }

\* The keepers of K are gone, or give up, with what they have.
Die(K) ==
  /\ lost' = lost \cup { j \in Jobs : \E k \in K : hands[k] = j }
  /\ hands' = [k \in Keepers |-> IF k \in K THEN Nothing ELSE hands[k]]
  /\ UNCHANGED <<phase, stored>>

\* An id is taken, and the keeper never hears which one.
Drop(j) ==
  /\ j \in stored
  /\ stored' \in {stored, stored \ {j}}
  /\ lost' = lost \cup {j}
  /\ UNCHANGED <<phase, hands>>

Next ==
  \/ \E j \in Jobs : Accept(j) \/ Drop(j) \/ \E k \in Keepers : Take(k, j)
  \/ \E k \in Keepers : Put(k) \/ Discard(k)
  \/ \E K \in SUBSET Busy : Die(K)

Spec == Init /\ [][Next]_custodyVars

-----------------------------------------------------------------------------
\* What follows: somebody answers for every job that is owed a run, or it is known to be lost.
Answered ==
  \A j \in Jobs : phase[j] = "owed" =>
    j \in stored \cup lost \/ \E k \in Keepers : hands[k] = j
=============================================================================
