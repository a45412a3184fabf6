--------------------------- MODULE Compatibility ---------------------------
(***************************************************************************)
(* What the versions of a domain package promise each other: the           *)
(* comparison of versions, of workflows and of field schemas, the version  *)
(* bump a change asks for, and the checks that say what a workflow and a   *)
(* schema accept.                                                          *)
(*                                                                         *)
(* A change is represented by the severities of its findings; their codes, *)
(* paths and messages are left out but for the part of the package they    *)
(* are about.  A string or an array stands for its length, an enum value   *)
(* for its number.                                                         *)
(***************************************************************************)
EXTENDS Integers, FiniteSets

CONSTANTS
  Names,    \* of fields
  Sizes,    \* lengths of strings and arrays, and values of enums
  States,
  Actions,
  None      \* no field of that name, no prerelease

CompatibilityAssumption ==
  /\ Sizes \subseteq Nat
  /\ None \notin Int

-----------------------------------------------------------------------------
\* Semantic versions; pre is a numeric prerelease, the build is left out.
Version == [major : Nat, minor : Nat, patch : Nat, pre : Nat \cup {None}]

\* comparePrerelease: a release comes after its prereleases.
PreBefore(v, w) == v # None /\ (w = None \/ (w # None /\ v < w))

\* compareVersions: v is older than w.
Before(v, w) ==
  \/ v.major < w.major
  \/ v.major = w.major /\ v.minor < w.minor
  \/ v.major = w.major /\ v.minor = w.minor /\ v.patch < w.patch
  \/ /\ v.major = w.major /\ v.minor = w.minor /\ v.patch = w.patch
     /\ PreBefore(v.pre, w.pre)

\* detectVersionBump as its rank: 3 major, 2 minor, 1 patch, 0 none.
Bump(v, w) ==
  IF w.major # v.major THEN 3
  ELSE IF w.minor # v.minor THEN 2
  ELSE IF w.patch # v.patch THEN 1
  ELSE 0

-----------------------------------------------------------------------------
Kinds == {"string", "array", "enum", "number"}

\* A field definition: size is minLength or minItems, values those of an enum.
Field == [kind : Kinds, required : BOOLEAN, size : Sizes, values : SUBSET Sizes]

Schema == [fields : [Names -> Field \cup {None}], additional : BOOLEAN]

Transition == [action : Actions, from : States, to : States, requires : SUBSET Names]

\* A normalized workflow; an action leads from a state in one way.
Workflow ==
  {w \in [initial : States, states : SUBSET States, closed : SUBSET States,
          transitions : SUBSET Transition] :
    /\ w.initial \in w.states
    /\ w.closed \subseteq w.states
    /\ \A t \in w.transitions : {t.from, t.to} \subseteq w.states
    /\ \A t, u \in w.transitions : t.from = u.from /\ t.action = u.action => t = u}

-----------------------------------------------------------------------------
(***************************************************************************)
(* compareStringSet: what is gone is breaking, what is new is what added   *)
(* says.  The findings of a comparison are the set of their severities.    *)
(***************************************************************************)
SetFindings(from, to, added) ==
  {s \in {"breaking", added} :
    \/ s = "breaking" /\ ~(from \subseteq to)
    \/ s = added /\ ~(to \subseteq from)}

\* compareMinimum
MinimumFindings(from, to) ==
  {s \in {"breaking", "info"} :
    \/ s = "breaking" /\ to > from
    \/ s = "info" /\ to < from}

\* Mutant of FieldFindings: the values of an enum are not compared.
FieldFindingsShort(from, to) ==
  IF from.kind # to.kind THEN {"breaking"}
  ELSE (IF to.required /\ ~from.required THEN {"breaking"} ELSE {})
       \cup (IF from.kind \in {"string", "array"} THEN MinimumFindings(from.size, to.size) ELSE {})

\* compareField
FieldFindings(from, to) ==
  IF from.kind # to.kind THEN {"breaking"}
  ELSE (IF to.required /\ ~from.required THEN {"breaking"} ELSE {})
       \cup (IF from.kind \in {"string", "array"} THEN MinimumFindings(from.size, to.size) ELSE {})
       \cup (IF from.kind = "enum" THEN SetFindings(from.values, to.values, "info") ELSE {})

\* compareSchema, name by name
NameFindings(from, to) ==
  CASE from = None /\ to = None -> {}
    [] from # None /\ to = None -> {"breaking"}
    [] from = None /\ to # None -> {IF to.required THEN "breaking" ELSE "info"}
    [] OTHER -> FieldFindings(from, to)

SchemaFindings(from, to) ==
  (IF from.additional /\ ~to.additional THEN {"breaking"} ELSE {})
  \cup (IF to.additional /\ ~from.additional THEN {"info"} ELSE {})
  \cup UNION {NameFindings(from.fields[n], to.fields[n]) : n \in Names}

\* transitionKey: the required fields are no part of it.
TransitionKeys(w) == {<<t.action, t.from, t.to>> : t \in w.transitions}

\* compareWorkflow
WorkflowFindings(from, to) ==
  (IF from.initial # to.initial THEN {"breaking"} ELSE {})
  \cup SetFindings(from.states, to.states, "info")
  \cup SetFindings(from.closed, to.closed, "breaking")
  \cup SetFindings(TransitionKeys(from), TransitionKeys(to), "info")

\* checkPackageCompatibility: the rank of requiredVersionBump
RequiredBump(from, to) ==
  LET findings == WorkflowFindings(from.workflow, to.workflow)
                  \cup SchemaFindings(from.schema, to.schema)
  IN  IF "breaking" \in findings THEN 3 ELSE IF "info" \in findings THEN 2 ELSE 1

\* assertPackageUpgradeAllowed
UpgradeAllowed(from, to) ==
  /\ Before(from.version, to.version)
  /\ Bump(from.version, to.version) >= RequiredBump(from, to)

(***************************************************************************)
(* buildPackageEvolutionReport: the migrations a change calls for are      *)
(* those of the parts with a breaking finding, and breaking wins over      *)
(* requires_migration.                                                     *)
(***************************************************************************)
RequiredKinds(from, to) ==
  {kind \in {"schema", "workflow"} :
    \/ kind = "schema" /\ "breaking" \in SchemaFindings(from.schema, to.schema)
    \/ kind = "workflow" /\ "breaking" \in WorkflowFindings(from.workflow, to.workflow)}

EvolutionStatus(from, to, covered) ==
  IF RequiredBump(from, to) = 3 THEN "breaking"
  ELSE IF ~(RequiredKinds(from, to) \subseteq covered) THEN "requires_migration"
  ELSE "compatible"

-----------------------------------------------------------------------------
\* The values of work item fields, as far as zodSchemaForField tells them apart.
Value == [kind : {"string", "array", "number"}, size : Sizes]

Fits(field, value) ==
  CASE field.kind = "enum" -> value.kind = "string" /\ value.size \in field.values
    [] field.kind = "number" -> value.kind = "number"
    [] OTHER -> value.kind = field.kind /\ value.size >= field.size

\* validateInputFieldsAgainstSchema, required fields included; None is undefined.
Accepts(schema, fields) ==
  \A n \in Names :
    LET field == schema.fields[n]
        value == fields[n]
    IN  IF value = None THEN field # None => ~field.required
        ELSE IF field = None THEN schema.additional
        ELSE Fits(field, value)

\* validateWorkItemTransition: where the action leads, if the fields are there.
Outcomes(workflow, state, action, present) ==
  {t.to : t \in {u \in workflow.transitions :
    /\ u.from = state /\ u.action = action
    /\ state \notin workflow.closed
    /\ u.requires \subseteq present}}

FieldSets == [Names -> Value \cup {None}]

\* Whatever one schema accepts, the other does.
SchemaKept(from, to) == \A fields \in FieldSets : Accepts(from, fields) => Accepts(to, fields)

\* Whatever a work item may do under one workflow, it may under the other.
WorkflowKept(from, to) ==
  /\ from.initial = to.initial
  /\ \A state \in from.states, action \in Actions, present \in SUBSET Names :
       Outcomes(from, state, action, present) \subseteq Outcomes(to, state, action, present)

\* The changes the comparison does not look at.
Overlooked(from, to) ==
  \/ /\ from.schema.additional
     /\ \E n \in Names : from.schema.fields[n] = None /\ to.schema.fields[n] # None
  \/ \E t \in from.workflow.transitions, u \in to.workflow.transitions :
       <<t.action, t.from, t.to>> = <<u.action, u.from, u.to>> /\ ~(u.requires \subseteq t.requires)

\* An upgrade that is accepted although it keeps the major version.
Minor(from, to) == UpgradeAllowed(from, to) /\ from.version.major = to.version.major
=============================================================================
