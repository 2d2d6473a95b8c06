-------------------------- MODULE ErrorCategories --------------------------
(***************************************************************************)
(* CategorizeError (pkg/bullmq/errors.go): whether a worker retries a job  *)
(* whose processor returned an error.  An error is the sequence of what    *)
(* errors.As and errors.Is find on the way through its Unwrap chain, the   *)
(* outermost first; nil is the empty sequence.                             *)
(***************************************************************************)
EXTENDS Sequences

\* "plain" is any other error; "phrase" one with "connection refused", "i/o timeout",
\* "LOADING" or "READONLY" in its text.  A wrapper's text holds that of what it wraps.
Links == {"transient", "permanent", "net", "context", "nil", "validation", "phrase", "plain"}

Has(err, kind) == \E i \in DOMAIN err : err[i] = kind

\* Mutation: the text is looked at before the types.
CategorizeText(err) ==
  IF Has(err, "phrase") \/ Has(err, "transient") THEN "transient"
  ELSE IF Has(err, "permanent") THEN "permanent"
  ELSE IF Has(err, "net") \/ Has(err, "context") THEN "transient" ELSE "permanent"

CategorizeError(err) ==
  IF Has(err, "transient") THEN "transient"
  ELSE IF Has(err, "permanent") THEN "permanent"
  ELSE IF Has(err, "net") \/ Has(err, "context") THEN "transient"
  ELSE IF ~Has(err, "nil") /\ Has(err, "phrase") THEN "transient" ELSE "permanent"
=============================================================================
