------------------------------ MODULE Backoff ------------------------------
(***************************************************************************)
(* The delays of a job that keeps failing: the retries of retryJob         *)
(* (worker_impl.go), each with CalculateBackoff (retry.go) of the attempts *)
(* made so far.                                                            *)
(*                                                                         *)
(* time.Duration is a signed integer of Bits bits (64 in Go).  Jitter is   *)
(* drawn in tenths; the float64 product is taken to be exact and is        *)
(* truncated by the conversion.                                            *)
(***************************************************************************)
EXTENDS Integers

CONSTANTS
  Bits,          \* width of time.Duration
  BackoffDelay,  \* WorkerOptions.BackoffDelay, the initialDelay of CalculateBackoff
  MaxBackoffDelay,
  MaxRetries     \* bound: Attempts of the job

\* math.Pow(2, n)
Pow2[n \in Nat] == IF n = 0 THEN 1 ELSE 2 * Pow2[n - 1]

Least    == -Pow2[Bits - 1]
Greatest == Pow2[Bits - 1] - 1
Duration == Least..Greatest

ASSUME BackoffAssumption ==
  /\ Bits \in Nat \ {0}
  /\ BackoffDelay \in Duration /\ BackoffDelay > 0
  /\ MaxBackoffDelay \in Duration /\ MaxBackoffDelay > 0
  /\ MaxRetries \in Nat

VARIABLES
  attemptsMade,  \* job.AttemptsMade
  jitter,        \* the random factor of the last delay, in tenths
  delay          \* the last delay, 0 before the first retry

vars == <<attemptsMade, jitter, delay>>

-----------------------------------------------------------------------------
\* Mutation: half and full jitter.
WideJitters == 5..15

\* 0.8 + 0.4*rand.Float64()
Jitters == 8..12

\* The conversion float64 -> int64 of a value that does not fit is up to the processor:
\* the least integer on amd64, the nearest one on arm64.
ToDuration(x) ==
  IF x \in Duration THEN {x} ELSE {Least, Greatest}

Capped(d) == IF d > MaxBackoffDelay THEN MaxBackoffDelay ELSE d

Product(attempts, tenths) == (BackoffDelay * Pow2[attempts - 1] * tenths) \div 10
CalculateBackoff(attempts, tenths) ==
  IF attempts < 1 THEN {BackoffDelay}
  ELSE { Capped(d) : d \in ToDuration(Product(attempts, tenths)) }

Init ==
  /\ attemptsMade = 0
  /\ jitter = 10
  /\ delay = 0

\* retryJob: job.AttemptsMade++ comes first; the Backoff option of the
\* job is not looked at.
Retry ==
  /\ attemptsMade < MaxRetries
  /\ attemptsMade' = attemptsMade + 1
  /\ jitter' \in Jitters
  /\ delay' \in CalculateBackoff(attemptsMade', jitter')

Spec == Init /\ [][Retry]_vars

-----------------------------------------------------------------------------
(* Properties *)

Fits(n, tenths) == n > 0 /\ Product(n, tenths) \in Duration

\* Jitter never makes a retry wait less than the one before, as long as the product fits.
NeverSooner == [][Fits(attemptsMade', 12) => delay' >= delay]_vars
=============================================================================
