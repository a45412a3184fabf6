----------------------------- MODULE MCUpgrades -----------------------------
(***************************************************************************)
(* Compatibility for TLC: the initial states are the pairs of versions of  *)
(* a package, of one field with two sizes and of workflows of two states   *)
(* and one action, that differ in their schema, in their workflow or in    *)
(* their version number.                                                   *)
(***************************************************************************)
EXTENDS Compatibility

ASSUME CompatibilityAssumption

VARIABLE pair

MCNames == {"f"}
MCSizes == {0, 1}
MCStates == {"a", "b"}
MCActions == {"go"}

Number(major, minor, patch, pre) == [major |-> major, minor |-> minor, patch |-> patch, pre |-> pre]

Numbers == {Number(ma, mi, pa, pre) : ma, mi, pa \in {0, 1}, pre \in {0, 1, None}}

OneWorkflow ==
  [initial |-> "a", states |-> {"a", "b"}, closed |-> {"b"},
   transitions |-> {[action |-> "go", from |-> "a", to |-> "b", requires |-> {}]}]

\* Sizes and values only where the kind has them.
Fields ==
  {f \in Field : /\ f.kind \in {"number", "enum"} => f.size = 0
                 /\ f.kind # "enum" => f.values = {}}

Schemas == [fields : [Names -> Fields \cup {None}], additional : BOOLEAN]

Empty == [fields |-> [n \in Names |-> None], additional |-> TRUE]

NeedsField ==
  [fields |-> [n \in Names |-> [kind |-> "string", required |-> TRUE, size |-> 0, values |-> {}]],
   additional |-> TRUE]

Package(number, workflow, schema) ==
  [version |-> number, workflow |-> workflow, schema |-> schema]

First == Number(0, 0, 0, None)
Second == Number(0, 1, 0, None)

PairInit ==
  \/ \E s, t \in Schemas :
       pair = <<Package(First, OneWorkflow, s), Package(Second, OneWorkflow, t)>>
  \/ \E s, t \in Workflow : pair = <<Package(First, s, Empty), Package(Second, t, Empty)>>
  \/ \E v, w \in Numbers :
       pair = <<Package(v, OneWorkflow, Empty), Package(w, OneWorkflow, NeedsField)>>

PairSpec == PairInit /\ [][UNCHANGED pair]_pair

(***************************************************************************)
(* An upgrade is accepted in one direction only; and one that keeps the    *)
(* major version keeps every input that was valid and everything a work    *)
(* item could do, but for the changes the comparison overlooks, and is     *)
(* reported as compatible whatever migrations come with it.                *)
(***************************************************************************)
UpgradesSound ==
  LET from == pair[1]
      to   == pair[2]
  IN  /\ ~(UpgradeAllowed(from, to) /\ UpgradeAllowed(to, from))
      /\ Minor(from, to) =>
           /\ EvolutionStatus(from, to, {}) = "compatible"
           /\ ~Overlooked(from, to) => /\ SchemaKept(from.schema, to.schema)
                                       /\ WorkflowKept(from.workflow, to.workflow)

(***************************************************************************)
(* "breaking workflow/schema changes require a major version bump": an     *)
(* upgrade within a major version takes no step away from a work item.     *)
(***************************************************************************)
BreakingNeedsMajor == Minor(pair[1], pair[2]) => WorkflowKept(pair[1].workflow, pair[2].workflow)
=============================================================================
