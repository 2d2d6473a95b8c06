--------------------------- MODULE PureFunctions ---------------------------
(***************************************************************************)
(* The functions of the client that keep no state, each on all arguments   *)
(* up to a bound: CRC16 (Crc16) and the slot of a key (ClusterSlots) on    *)
(* queue names that grow byte by byte, the category of an error            *)
(* (ErrorCategories) on errors that are wrapped again and again, and the   *)
(* sequence of delays of a job that keeps failing (Backoff).  Only one of  *)
(* them grows at a time.                                                   *)
(***************************************************************************)
EXTENDS Backoff, Crc16, ClusterSlots, ErrorCategories

CONSTANTS
  Bytes,     \* bytes of a queue name after its first one, which is any
  MaxName,   \* bound on the bytes of a name
  MaxChain   \* bound on the errors in a chain

ASSUME FunctionsAssumption ==
  /\ Bytes \subseteq Byte
  /\ MaxName \in Nat /\ MaxChain \in Nat

VARIABLES queueName, err

FunctionsInit == Init /\ queueName = << >> /\ err = << >>

Fails ==
  /\ Retry
  /\ queueName = << >> /\ err = << >>
  /\ UNCHANGED <<queueName, err>>

Name ==
  /\ attemptsMade = 0 /\ err = << >>
  /\ Len(queueName) < MaxName
  /\ \E b \in IF queueName = << >> THEN Byte ELSE Bytes : queueName' = Append(queueName, b)
  /\ UNCHANGED <<vars, err>>

Wrap ==
  /\ attemptsMade = 0 /\ queueName = << >>
  /\ Len(err) < MaxChain
  /\ \E link \in Links : err' = <<link>> \o err
  /\ UNCHANGED <<vars, queueName>>

FunctionsSpec == FunctionsInit /\ [][Fails \/ Name \/ Wrap]_<<vars, queueName, err>>

-----------------------------------------------------------------------------
(* Properties *)

\* The table-driven CRC16 of any name is the remainder by the CCITT polynomial.
CrcIsCcitt == CalculateCRC16(queueName) = Ccitt(queueName)

\* In a cluster all keys of a queue share the slot of its name, whatever braces the name
\* has, and no warning is printed, unless the name is empty or begins with a closing
\* brace: then the tag is empty.
KeysTogether ==
  queueName # << >> /\ queueName[1] # Close =>
    /\ { i.keys : i \in AnalyzeClusterKeys(QueueKeys(queueName, TRUE)) } = {QueueKeys(queueName, TRUE)}
    /\ ~Warns(queueName, TRUE)

\* Once an error carries a TransientError or a PermanentError, only a TransientError around
\* it changes whether the job is retried.
CategorySticks ==
  [][(Has(err, "transient") \/ Has(err, "permanent")) /\ err'[1] # "transient" =>
       CategorizeError(err') = CategorizeError(err)]_err
=============================================================================
