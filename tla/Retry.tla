-------------------------------- MODULE Retry --------------------------------
(***************************************************************************)
(* withRetry (primitives/retry.ts) with exponential backoff, jitter and a  *)
(* policy of the caller's, who may abort while it sleeps.                  *)
(***************************************************************************)
EXTENDS Integers, Sequences, FiniteSetsExt

CONSTANTS maxRetries, baseDelayMs, maxDelayMs,
          Delays  \* what jitter and retryDelay functions of callers may return

RetryAssumption ==
  maxRetries \in Nat /\ baseDelayMs \in Nat /\ maxDelayMs \in Nat /\ Delays \subseteq Int

VARIABLES
  attempt, doing,
  errors,   \* how many there are in the list
  slept,    \* the delays so far
  outcome

retryVars == <<attempt, doing, errors, slept, outcome>>

Outcomes == {"none", "ok", "error", "exhausted", "aborted"}

TypeOK ==
  /\ attempt \in 0..maxRetries /\ doing \in {"calling", "sleeping", "over"}
  /\ errors \in Nat /\ slept \in Seq(0..maxDelayMs) /\ outcome \in Outcomes

Init == attempt = 0 /\ doing = "calling" /\ errors = 0 /\ slept = <<>> /\ outcome = "none"

\* calculateBackoff
Backoff == Min({baseDelayMs * 2 ^ attempt, maxDelayMs})

\* With no jitter, full jitter or the caller's; then retryDelay, and then the bounds.
Computed == {Max({0, Min({delay, maxDelayMs})}) : delay \in 0..Backoff \cup Delays}

End(how) == doing' = "over" /\ outcome' = how

Succeed ==
  /\ doing = "calling"
  /\ End("ok")
  /\ UNCHANGED <<attempt, errors, slept>>

\* The call returns an error; shouldRetry comes before the count.
GiveUp ==
  /\ doing = "calling"
  /\ errors' = errors + 1
  /\ \/ End("error")
     \/ attempt = maxRetries /\ End("exhausted")
  /\ UNCHANGED <<attempt, slept>>

Sleep ==
  /\ doing = "calling" /\ attempt < maxRetries
  /\ errors' = errors + 1
  /\ doing' = "sleeping"
  /\ \E delay \in Computed : slept' = Append(slept, delay)
  /\ UNCHANGED <<attempt, outcome>>

Again ==
  /\ doing = "sleeping"
  /\ attempt' = attempt + 1 /\ doing' = "calling"
  /\ UNCHANGED <<errors, slept, outcome>>

\* The sleep is aborted by the caller's signal.
Abort ==
  /\ doing = "sleeping"
  /\ End("aborted")
  /\ UNCHANGED <<attempt, errors, slept>>

Next == Succeed \/ GiveUp \/ Sleep \/ Again \/ Abort

Spec == Init /\ [][Next]_retryVars

-----------------------------------------------------------------------------
(***************************************************************************)
(* There is one sleep between two attempts and none after the last, no     *)
(* longer than maxDelayMs whatever the caller's functions return; and      *)
(* RetryExhaustedError comes after maxRetries + 1 errors and lists all.    *)
(***************************************************************************)
RetriesBounded ==
  /\ \A i \in DOMAIN slept : slept[i] \in 0..maxDelayMs
  /\ Len(slept) = attempt + (IF doing = "sleeping" \/ outcome = "aborted" THEN 1 ELSE 0)
  /\ outcome = "exhausted" => errors = maxRetries + 1
=============================================================================
