-------------------------------- MODULE Lazy --------------------------------
(***************************************************************************)
(* lazy (primitives/lazy.ts): a value that is made when it is first asked  *)
(* for, by a factory that answers at once or with a promise.               *)
(*                                                                         *)
(* Runs of the factory are numbered, and a value is the number of its run. *)
(* What is told to those who wait for a promise is its run's outcome, so   *)
(* they are left out.                                                      *)
(***************************************************************************)
EXTENDS Naturals, FiniteSets

CONSTANTS MaxRuns,  \* bound on the runs of the factory
          None

LazyAssumption == MaxRuns \in Nat /\ None \notin 1..MaxRuns

VARIABLES
  value, ready, pending,  \* pending is the run of the promise that callers share
  runs,                   \* how many there have been
  running,                \* those whose promise is open
  overtaken               \* reset was called during a run

lazyVars == <<value, ready, pending, runs, running, overtaken>>

TypeOK ==
  /\ value \in 1..MaxRuns \cup {None} /\ pending \in 1..MaxRuns \cup {None}
  /\ ready \in BOOLEAN /\ overtaken \in BOOLEAN
  /\ runs \in 0..MaxRuns /\ running \subseteq 1..runs

Init ==
  /\ value = None /\ ready = FALSE /\ pending = None
  /\ runs = 0 /\ running = {} /\ overtaken = FALSE

\* A call that finds neither a value nor a promise; the others change nothing.
Make ==
  /\ ~ready /\ pending = None
  /\ runs < MaxRuns
  /\ runs' = runs + 1
  /\ UNCHANGED overtaken

\* The factory returns a value; if it throws nothing has happened.
MakeNow ==
  /\ Make
  /\ value' = runs' /\ ready' = TRUE
  /\ UNCHANGED <<pending, running>>

\* The factory returns a promise.
MakeLater ==
  /\ Make
  /\ pending' = runs' /\ running' = running \cup {runs'}
  /\ UNCHANGED <<value, ready>>

Resolve(r) ==
  /\ r \in running
  /\ running' = running \ {r}
  /\ value' = r /\ ready' = TRUE /\ pending' = None
  /\ UNCHANGED <<runs, overtaken>>

\* Mutant of Fail: the promise stays although it is rejected.
FailStuck(r) ==
  /\ r \in running
  /\ running' = running \ {r}
  /\ UNCHANGED <<value, ready, pending, runs, overtaken>>

Fail(r) ==
  /\ r \in running
  /\ running' = running \ {r}
  /\ pending' = None
  /\ UNCHANGED <<value, ready, runs, overtaken>>

Reset ==
  /\ value' = None /\ ready' = FALSE /\ pending' = None
  /\ overtaken' = (overtaken \/ running # {})
  /\ UNCHANGED <<runs, running>>

Next ==
  \/ MakeNow \/ MakeLater \/ Reset
  \/ \E r \in 1..MaxRuns : Resolve(r) \/ Fail(r)

Spec == Init /\ [][Next]_lazyVars

-----------------------------------------------------------------------------
(***************************************************************************)
(* Callers are never given a promise that is settled already, so a failure *)
(* is not remembered.  As long as no reset comes during a run, there is    *)
(* one run at a time, none beside a value that is ready, and the value is  *)
(* that of the last run that has been started.                             *)
(***************************************************************************)
LazyOnce ==
  /\ pending # None => pending \in running
  /\ ~overtaken => /\ running = (IF pending = None THEN {} ELSE {pending})
                   /\ ready => running = {} /\ value = runs
=============================================================================
