---------------------------- MODULE BullMQClaims ----------------------------
(***************************************************************************)
(* What the documents, comments and tests of the repository say of one     *)
(* queue, stated of BullMQ.tla.  The runs show where the code does         *)
(* something else.                                                         *)
(***************************************************************************)
EXTENDS BullMQ

\* spec.md:325: "No job loss on worker crash (jobs requeued by stalled checker)".
NoJobLoss == \A j \in Jobs : add[j] = "added" /\ "job" \in hash[j] => Kept(j)

\* spec.md:110: "Lock tokens prevent duplicate processing by multiple workers".  The
\* formula is Exclusive of BullMQ, here for one worker whose heartbeats are all in time.
NoDuplicateProcessing == Exclusive
=============================================================================
