----------------------------- MODULE Migrations -----------------------------
(***************************************************************************)
(* runPackageMigrations: the steps that lead from one version of a package *)
(* to another are planned, and handled one after the other; the record of  *)
(* each step says whether it is applied.  Between the look at the record   *)
(* and the save after the handler there is no lock, and a failure is saved *)
(* over whatever record there is.                                          *)
(***************************************************************************)
EXTENDS Naturals, Sequences, FiniteSets, FiniteSetsExt, SequencesExt

CONSTANTS
  Runners,   \* calls of runPackageMigrations
  Versions,  \* the registered versions, in the order of compareVersions
  Steps,     \* migration steps, in the order of the versions that list them
  From, To,  \* the versions a step leads from and to
  None,
  MaxFaults  \* bound on saves that throw and processes that die

MigrationsAssumption ==
  /\ Versions \subseteq Nat /\ Steps \subseteq Nat /\ IsFiniteSet(Steps)
  /\ From \in [Steps -> Versions] /\ To \in [Steps -> Versions]
  /\ None \notin Nat \cup {"applied", "failed"}
  /\ MaxFaults \in Nat

VARIABLES
  records,   \* of each step: None, "applied" or "failed"
  runs,      \* what each call does
  handled,   \* history: how often the handler of a step has ended
  faults,    \* history: of each step, the saves that were lost
  shared     \* history: the steps two calls were handling at once

vars == <<records, runs, handled, faults, shared>>

(***************************************************************************)
(* planMigrations: from each version the first step there is.              *)
(***************************************************************************)
Leaving(v) == {s \in Steps : From[s] = v}

\* The step taken after n steps from v, None where the path has ended.
StepsFrom(v) ==
  LET at[n \in 0..Cardinality(Steps)] ==
        LET here == IF n = 0 THEN v
                    ELSE IF at[n - 1] = None THEN None ELSE To[at[n - 1]]
        IN  IF here = None \/ Leaving(here) = {} THEN None ELSE Min(Leaving(here))
  IN  at

\* The plan; it is empty where planMigrations returns an error, of which from = to,
\* refused before, is no case.
Plan(from, to) ==
  LET path == StepsFrom(from)
      ends == {n \in DOMAIN path : path[n] # None /\ To[path[n]] = to}
  IN  IF ends = {} THEN <<>> ELSE [n \in 1..(Min(ends) + 1) |-> path[n - 1]]

Run == [at : {"new", "look", "handle", "applied", "failed", "done", "threw", "died"},
        plan : Seq(Steps), next : Nat \ {0}, dryRun : BOOLEAN, handlers : BOOLEAN,
        required : BOOLEAN]

Init ==
  /\ records = [s \in Steps |-> None]
  /\ runs = [r \in Runners |-> [at |-> "new", plan |-> <<>>, next |-> 1, dryRun |-> FALSE,
                                handlers |-> TRUE, required |-> FALSE]]
  /\ handled = [s \in Steps |-> 0]
  /\ faults = [s \in Steps |-> 0]
  /\ shared = {}

At(r, at) == runs[r].at = at
Goto(r, at) == runs' = [runs EXCEPT ![r].at = at]
Current(r) == runs[r].plan[runs[r].next]

\* On to the next step of the plan, or to the end.
Advance(r) ==
  runs' = [runs EXCEPT ![r].next = @ + 1,
                       ![r].at = IF runs[r].next = Len(runs[r].plan) THEN "done" ELSE "look"]

\* The calls that have looked at the record of s and will write it.
Handling(s) == {r \in Runners : /\ runs[r].at \in {"handle", "applied", "failed"}
                                /\ Current(r) = s}

\* Both versions are registered, the target is newer and there is a plan.
Start(r, from, to, dryRun, handlers, required) ==
  /\ At(r, "new")
  /\ from < to
  /\ runs' = [runs EXCEPT ![r] =
       [at |-> IF Plan(from, to) = <<>> THEN "threw" ELSE "look", plan |-> Plan(from, to),
        next |-> 1, dryRun |-> dryRun, handlers |-> handlers, required |-> required]]
  /\ UNCHANGED <<records, handled, faults, shared>>

\* Mutant of Look: a step with a record is passed over, whatever the record says.
LookRecorded(r) ==
  /\ At(r, "look")
  /\ IF records[Current(r)] # None THEN Advance(r)
     ELSE IF runs[r].required /\ ~runs[r].handlers THEN Goto(r, "threw")
     ELSE IF runs[r].dryRun THEN Advance(r) ELSE Goto(r, "handle")
  /\ shared' = shared \cup {s \in Steps : Cardinality(Handling(s)') > 1}
  /\ UNCHANGED <<records, handled, faults>>

\* A step that is applied is passed over; one without the handler it needs throws;
\* a dry run handles nothing.
Look(r) ==
  /\ At(r, "look")
  /\ IF records[Current(r)] = "applied" THEN Advance(r)
     ELSE IF runs[r].required /\ ~runs[r].handlers THEN Goto(r, "threw")
     ELSE IF runs[r].dryRun THEN Advance(r) ELSE Goto(r, "handle")
  /\ shared' = shared \cup {s \in Steps : Cardinality(Handling(s)') > 1}
  /\ UNCHANGED <<records, handled, faults>>

\* The handler ends; where there is none, the step counts as applied as well.
HandlerEnds(r) ==
  /\ At(r, "handle")
  /\ handled' = IF runs[r].handlers THEN [handled EXCEPT ![Current(r)] = @ + 1] ELSE handled
  /\ Goto(r, "applied")
  /\ UNCHANGED <<records, faults, shared>>

HandlerThrows(r) ==
  /\ At(r, "handle") /\ runs[r].handlers
  /\ Goto(r, "failed")
  /\ UNCHANGED <<records, handled, faults, shared>>

SaveApplied(r) ==
  /\ At(r, "applied")
  /\ records' = [records EXCEPT ![Current(r)] = "applied"]
  /\ Advance(r)
  /\ UNCHANGED <<handled, faults, shared>>

Fault(s) ==
  /\ MapThenSumSet(LAMBDA t : faults[t], Steps) < MaxFaults
  /\ faults' = [faults EXCEPT ![s] = @ + 1]

\* The save of an applied step throws inside the try: it is recorded as failed.
SaveThrows(r) ==
  /\ At(r, "applied")
  /\ Fault(Current(r))
  /\ Goto(r, "failed")
  /\ UNCHANGED <<records, handled, shared>>

SaveFailed(r) ==
  /\ At(r, "failed")
  /\ records' = [records EXCEPT ![Current(r)] = "failed"]
  /\ Goto(r, "threw")
  /\ UNCHANGED <<handled, faults, shared>>

Die(r) ==
  /\ runs[r].at \in {"look", "handle", "applied", "failed"}
  /\ Fault(Current(r))
  /\ Goto(r, "died")
  /\ UNCHANGED <<records, handled, shared>>

Next ==
  \E r \in Runners :
    \/ \E from, to \in Versions, dryRun, handlers, required \in BOOLEAN :
         Start(r, from, to, dryRun, handlers, required)
    \/ Look(r) \/ HandlerEnds(r) \/ HandlerThrows(r) \/ SaveApplied(r) \/ SaveThrows(r)
    \/ SaveFailed(r) \/ Die(r)

Spec == Init /\ [][Next]_vars
-----------------------------------------------------------------------------
\* Every variable has its type.
TypeOK ==
  /\ records \in [Steps -> {None, "applied", "failed"}]
  /\ runs \in [Runners -> Run]
  /\ handled \in [Steps -> Nat]
  /\ faults \in [Steps -> Nat]
  /\ shared \subseteq Steps

(***************************************************************************)
(* For steps that no two calls were handling at once, and whatever fails:  *)
(* the handler of a step ends once, and once more at most for each save    *)
(* that was lost; a call goes past a step only when it is applied, so the  *)
(* steps of a plan are handled in its order; and a step is applied only    *)
(* after its handler, or by a call that has none.                          *)
(***************************************************************************)
HandledOnce ==
  /\ \A s \in Steps \ shared :
       /\ handled[s] <= 1 + faults[s]
       /\ records[s] = "applied" /\ handled[s] = 0 =>
            \E r \in Runners : ~runs[r].handlers /\ s \in ToSet(runs[r].plan)
  /\ \A r \in Runners : ~runs[r].dryRun =>
       \A n \in 1..(runs[r].next - 1) :
         runs[r].plan[n] \notin shared => records[runs[r].plan[n]] = "applied"
=============================================================================
