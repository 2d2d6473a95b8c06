----------------------------- MODULE JobLeases -----------------------------
(***************************************************************************)
(* What BullMQ promises of its jobs, whatever keys it keeps them in: a job *)
(* that was added is queued until it is leased to one worker call, its     *)
(* owner, which alone may settle it or give it back; a lease that lapses   *)
(* leaves the job without an owner until the queue reclaims it.  No job    *)
(* is ever lost, leased twice at a time, or settled twice.                 *)
(***************************************************************************)
EXTENDS Naturals

CONSTANTS Jobs, Owners, NoOwner    \* NoOwner is none of Owners

VARIABLES
  life,     \* where a job is in its life
  owner     \* the owner of a leased job, if its lease has not lapsed

leaseVars == <<life, owner>>

Lives == {"new", "queued", "leased", "settled", "removed"}

LeasesTypeOK ==
  /\ life \in [Jobs -> Lives]
  /\ owner \in [Jobs -> Owners \cup {NoOwner}]

Init ==
  /\ life = [j \in Jobs |-> "new"]
  /\ owner = [j \in Jobs |-> NoOwner]

-----------------------------------------------------------------------------
Queue(j) ==
  /\ life[j] = "new"
  /\ life' = [life EXCEPT ![j] = "queued"]
  /\ UNCHANGED owner

Grant(s, j) ==
  /\ life[j] = "queued"
  /\ life' = [life EXCEPT ![j] = "leased"]
  /\ owner' = [owner EXCEPT ![j] = s]

Lapse(j) ==
  /\ life[j] = "leased" /\ owner[j] # NoOwner
  /\ owner' = [owner EXCEPT ![j] = NoOwner]
  /\ UNCHANGED life

Return(s, j) ==
  /\ life[j] = "leased" /\ owner[j] = s
  /\ life' = [life EXCEPT ![j] = "queued"]
  /\ owner' = [owner EXCEPT ![j] = NoOwner]

\* The jobs of S are given up by owners that are gone.
Reclaim(S) ==
  /\ \A j \in S : life[j] = "leased" /\ owner[j] = NoOwner
  /\ life' = [j \in Jobs |-> IF j \in S THEN "queued" ELSE life[j]]
  /\ UNCHANGED owner

\* The owner settles its job; the queue may forget that and older settled jobs, and grant
\* the owner another one.
Settle(s, j, gone, granted) ==
  /\ life[j] = "leased" /\ owner[j] = s
  /\ \A k \in gone : k = j \/ life[k] = "settled"
  /\ \A k \in granted : life[k] = "queued"
  /\ \A k, l \in granted : k = l
  /\ life' = [k \in Jobs |-> IF k \in gone THEN "removed"
                             ELSE IF k \in granted THEN "leased"
                             ELSE IF k = j THEN "settled" ELSE life[k]]
  /\ owner' = [k \in Jobs |-> IF k \in granted THEN s
                              ELSE IF k = j THEN NoOwner ELSE owner[k]]

Next ==
  \/ \E j \in Jobs : Queue(j) \/ Lapse(j)
  \/ \E s \in Owners, j \in Jobs : Grant(s, j) \/ Return(s, j)
  \/ \E S \in SUBSET Jobs : Reclaim(S)
  \/ \E s \in Owners, j \in Jobs, gone, granted \in SUBSET Jobs : Settle(s, j, gone, granted)

Spec == Init /\ [][Next]_leaseVars

-----------------------------------------------------------------------------
\* What follows: only a leased job has an owner;
OwnedLeased == \A j \in Jobs : owner[j] # NoOwner => life[j] = "leased"

\* no job changes hands without lapsing or going back to the queue, only its owner settles
\* a leased job, and a settled one stays settled until it is removed, for good.
Ended == {"settled", "removed"}
Final ==
  \A j \in Jobs :
    /\ owner[j] # NoOwner => owner'[j] \in {owner[j], NoOwner}
    /\ life[j] \notin Ended /\ life'[j] \in Ended => life[j] = "leased" /\ owner[j] # NoOwner
    /\ life[j] \in Ended => life'[j] \in {life[j], "removed"}
LeasesFinal == [][Final]_leaseVars
=============================================================================
