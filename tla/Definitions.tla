----------------------------- MODULE Definitions ------------------------------
(***************************************************************************)
(* What the kernel computes from definitions alone.                       *)
(*                                                                        *)
(* Contracts (application/contract-compatibility.ts): can a reader of one *)
(* JSON schema read what a writer of another has written?  A schema       *)
(* constrains a type or not, a constant or not; an object has named       *)
(* properties, schemas in their turn, here without properties of their own.*)
(* A value is a scalar or an object.                                      *)
(*                                                                        *)
(* The graph of the packages (application/package-graph.ts): the order in *)
(* which they are installed, and the cycles.  A package is the rank of its*)
(* name in the order of names; dependencies on names that no package has  *)
(* are missing.  The recursive functions of the code are followed with the*)
(* state they share as argument and result.                               *)
(*                                                                        *)
(* The generic state machine (primitives/state-machine.ts).  The state is the*)
(* caller's; a guard is the set of contexts it accepts, and a transition  *)
(* without a guard accepts all of them.  Effects are left out.            *)
(***************************************************************************)
EXTENDS Integers, Sequences, FiniteSets, SequencesExt, FiniteSetsExt, Relation

CONSTANTS Names,       \* of the properties of an object
          Scalars,     \* the values of the types "string" and "number"
          TypeOf,      \* [Scalars -> {"string", "number"}]
          Packages,    \* numbers
          Unknown,     \* names of no package, numbers too
          StateNames,
          Events,
          Contexts,
          None

ContractsAssumption ==
  /\ TypeOf \in [Scalars -> {"string", "number"}]
  /\ None \notin Scalars \cup {"string", "number", "object"}

\* A constant is of the type, if there is one, and what is required has a schema.
Leaf ==
  {l \in [type : {"string", "number", None}, const : Scalars \cup {None}] :
     l.type = None \/ l.const = None \/ TypeOf[l.const] = l.type}

Object ==
  {o \in [type : {"object"}, const : {None}, properties : [Names -> Leaf \cup {None}],
          required : SUBSET Names, closed : BOOLEAN] :
     \A n \in o.required : o.properties[n] # None}

\* A contract may come without a schema.
Schema == Leaf \cup Object \cup {None}

Breaking(code) == [severity |-> "breaking", code |-> code]
Info(code) == [severity |-> "info", code |-> code]

-----------------------------------------------------------------------------
\* compareSchemaNode, but for what is below an object.
Differ(a, b) == a # None /\ b # None /\ a # b

NodeFindings(reader, writer) ==
  IF Differ(reader.type, writer.type) THEN {Breaking("type_changed")}
  ELSE IF Differ(reader.const, writer.const) THEN {Breaking("const_changed")} ELSE {}

\* What a schema that is not an object's has in the place of an object's parts.
Properties(schema) ==
  IF schema.type = "object" THEN schema.properties ELSE [n \in Names |-> None]
Required(schema) == IF schema.type = "object" THEN schema.required ELSE {}
Closed(schema) == schema.type = "object" /\ schema.closed

\* compareObjectSchema
PropertyFindings(reader, writer, n) ==
  LET r == Properties(reader)[n]
      w == Properties(writer)[n]
  IN  (IF r # None /\ w = None
         THEN {IF n \in Required(reader) THEN Breaking("required_property_added")
                                         ELSE Info("optional_property_added")} ELSE {})
      \cup (IF r = None /\ w # None /\ Closed(reader)
              THEN {Breaking("property_removed_from_closed_reader")} ELSE {})
      \cup (IF r # None /\ w # None THEN NodeFindings(r, w) ELSE {})

ObjectFindings(reader, writer) ==
  (UNION {PropertyFindings(reader, writer, n) : n \in Names})
  \cup (IF ~Closed(writer) /\ Closed(reader)
          THEN {Breaking("additional_properties_restricted")} ELSE {})
  \cup (IF Required(writer) \ Required(reader) # {}
          THEN {Info("required_property_relaxed")} ELSE {})

\* compareReaderWriterSchemas
Findings(reader, writer) ==
  IF reader = None \/ writer = None
    THEN IF reader = writer THEN {} ELSE {Info("schema_presence_changed")}
  ELSE NodeFindings(reader, writer)
    \cup (IF /\ ~Differ(reader.type, writer.type)
             /\ "object" \in {reader.type, writer.type}
            THEN ObjectFindings(reader, writer) ELSE {})

\* checkContractCompatibility, for contracts of one kind and type.
Report(from, to, mode) ==
  (IF mode \in {"backward", "full"} THEN Findings(to, from) ELSE {})
    \cup (IF mode \in {"forward", "full"} THEN Findings(from, to) ELSE {})

Compatible(from, to, mode) == \A f \in Report(from, to, mode) : f.severity # "breaking"

RequiredVersionBump(from, to, mode) ==
  IF ~Compatible(from, to, mode) THEN "major"
  ELSE IF Report(from, to, mode) # {} THEN "minor" ELSE "patch"

-----------------------------------------------------------------------------
\* What a schema says of values; extra is for properties that no schema here names.
Objects == [fields : [Names -> Scalars \cup {None}], extra : BOOLEAN]

LeafAccepts(schema, v) ==
  /\ schema.type = None \/ schema.type = TypeOf[v]
  /\ schema.const = None \/ schema.const = v

ScalarsOf(schema) ==
  {v \in Scalars : schema = None \/ (schema.type # "object" /\ LeafAccepts(schema, v))}

ObjectsOf(schema) ==
  {o \in Objects :
     \/ schema = None
     \/ schema.type = None /\ schema.const = None
     \/ /\ schema.type = "object"
        /\ schema.closed => ~o.extra
        /\ \A n \in Names :
             /\ o.fields[n] = None => n \notin schema.required
             /\ o.fields[n] # None =>
                  IF schema.properties[n] = None THEN ~schema.closed
                  ELSE LeafAccepts(schema.properties[n], o.fields[n])}

Reads(reader, writer) ==
  ScalarsOf(writer) \subseteq ScalarsOf(reader) /\ ObjectsOf(writer) \subseteq ObjectsOf(reader)

\* Where the writer's schema says less than the reader's and the comparison is silent.
LessSaid(r, w) == (r.type # None /\ w.type = None) \/ (r.const # None /\ w.const = None)

Unsaid(reader, writer) ==
  \/ reader # None /\ writer = None
  \/ reader # None /\ writer # None /\ LessSaid(reader, writer)
  \/ /\ reader # None /\ writer # None /\ "object" \in {reader.type, writer.type}
     /\ \E n \in Names :
          LET r == Properties(reader)[n]
              w == Properties(writer)[n]
          IN  \/ n \in Required(reader) \ Required(writer) /\ w # None
              \/ r # None /\ w # None /\ LessSaid(r, w)
              \/ r # None /\ w = None /\ ~Closed(writer) /\ r # [type |-> None, const |-> None]

(***************************************************************************)
(* A new version that is found compatible reads all that the old one has   *)
(* written, and one that is found breaking does not, but where the old     *)
(* schema leaves something unsaid that the new one says: a type, a         *)
(* constant, or that a property is required.  Forward is backward the      *)
(* other way round, full is both, and a breaking change needs a new major  *)
(* version, a compatible one never.                                        *)
(***************************************************************************)
ContractsSound(from, to) ==
  /\ ~Unsaid(to, from) => (Compatible(from, to, "backward") <=> Reads(to, from))
  /\ Compatible(from, to, "forward") <=> Compatible(to, from, "backward")
  /\ Compatible(from, to, "full") <=>
       Compatible(from, to, "backward") /\ Compatible(from, to, "forward")
  /\ RequiredVersionBump(from, to, "full") = "major" => ~Compatible(from, to, "full")

-----------------------------------------------------------------------------
GraphAssumption == Packages \subseteq Nat /\ Unknown \subseteq Nat \ Packages

\* The dependencies of each package.
Dependencies == [Packages -> SUBSET (Packages \cup Unknown)]

\* buildPackageGraph: what is in the graph, and what is missing.
Edges(deps) == {e \in Packages \X Packages : e[2] \in deps[e[1]]}
Missing(deps) == {e \in Packages \X Unknown : e[2] \in deps[e[1]]}

\* edgesBySource, in the order of the names.
Outgoing(deps, p) == SetToSortSeq(deps[p] \cap Packages, <)

-----------------------------------------------------------------------------
\* The recursive visit of topologicalOrder; done is the order so far.
Visit(deps) ==
  LET visit[p \in Packages, visiting \in SUBSET Packages, done \in Seq(Packages)] ==
        IF Contains(done, p) \/ p \in visiting THEN done
        ELSE Append(FoldLeft(LAMBDA order, q : visit[q, visiting \cup {p}, order], done,
                             Outgoing(deps, p)), p)
  IN  visit

\* topologicalOrder
InstallOrder(deps) ==
  FoldLeft(LAMBDA order, p : Visit(deps)[p, {}, order], <<>>, SetToSortSeq(Packages, <))

\* The visit of findCycles: the cycles that end a path.
CyclesFrom(deps) ==
  LET from[p \in Packages, path \in Seq(Packages)] ==
        IF Contains(path, p)
          THEN {SubSeq(path, SelectInSeq(path, LAMBDA q : q = p), Len(path))}
        ELSE UNION {from[q, Append(path, p)] : q \in deps[p] \cap Packages}
  IN  from

\* findCycles; of the cycles through the same packages one stays.
Cycles(deps) ==
  LET found == UNION {CyclesFrom(deps)[p, <<>>] : p \in Packages}
  IN  {CHOOSE c \in found : ToSet(c) = s : s \in {ToSet(c) : c \in found}}

-----------------------------------------------------------------------------
Needs(deps) ==
  TransitiveClosure([p \in Packages \X Packages |-> p \in Edges(deps)], Packages)

(***************************************************************************)
(* Every package is installed once, and after what it depends on, unless   *)
(* the two depend on each other.  What is called a cycle is one, each by   *)
(* its own packages, and every package that depends on itself is in one.   *)
(***************************************************************************)
InstallSound(deps) ==
  LET order == InstallOrder(deps)
      at(p) == SelectInSeq(order, LAMBDA q : q = p)
      needs == Needs(deps)
      cycles == Cycles(deps)
  IN  /\ Len(order) = Cardinality(Packages) /\ ToSet(order) = Packages
      /\ \A e \in Edges(deps) : at(e[2]) < at(e[1]) \/ needs[<<e[2], e[1]>>]
      /\ \A c \in cycles : \A i \in DOMAIN c : c[(i % Len(c)) + 1] \in deps[c[i]]
      /\ UNION {ToSet(c) : c \in cycles} = {p \in Packages : needs[<<p, p>>]}

-----------------------------------------------------------------------------
StateTransition == [from : SUBSET StateNames, event : Events, to : StateNames, guard : SUBSET Contexts]

\* validateDefinition
ValidDefinition(definition) ==
  /\ definition.states # {}
  /\ definition.initial \in definition.states
  /\ definition.final \subseteq definition.states
  /\ \A n \in DOMAIN definition.transitions :
       /\ definition.transitions[n].from \subseteq definition.states
       /\ definition.transitions[n].to \in definition.states

\* The transitions of an event from a state, by their places.
Matches(definition, from, event) ==
  {n \in DOMAIN definition.transitions :
     definition.transitions[n].event = event /\ from \in definition.transitions[n].from}

Accepted(definition, from, event, context) ==
  {n \in Matches(definition, from, event) : context \in definition.transitions[n].guard}

CanTransition(definition, from, event, context) ==
  Accepted(definition, from, event, context) # {}

Failure(code) == [code |-> code]

TransitionFrom(definition, from, event, context) ==
  CASE from \notin definition.states -> Failure("unknown_state")
    [] from \in definition.states /\ Matches(definition, from, event) = {} ->
         Failure("transition_not_allowed")
    [] /\ from \in definition.states /\ Matches(definition, from, event) # {}
       /\ Accepted(definition, from, event, context) = {} -> Failure("guard_rejected")
    [] OTHER ->
         LET to == definition.transitions[Min(Accepted(definition, from, event, context))].to
         IN  [code |-> "ok", to |-> to, changed |-> from # to, final |-> to \in definition.final]

-----------------------------------------------------------------------------
\* The states the caller can be in, which begins in the initial one.
Reached(definition) ==
  LET from(s) == {TransitionFrom(definition, s, e, c) : e \in Events, c \in Contexts}
      step(states) ==
        states \cup {t.to : t \in {t \in UNION {from(s) : s \in states} : t.code = "ok"}}
  IN  step(step({definition.initial}))

(***************************************************************************)
(* The machine of a valid definition never leads the caller out of its     *)
(* states; canTransition, which does not look whether the state is known,  *)
(* says of every state, a foreign one too, what a transition then does;    *)
(* and a transition is only refused for a guard when every guard refuses.  *)
(***************************************************************************)
MachineSound(definition) ==
  ValidDefinition(definition) =>
    /\ Reached(definition) \subseteq definition.states
    /\ \A s \in StateNames, e \in Events, c \in Contexts :
         LET result == TransitionFrom(definition, s, e, c) IN
         /\ CanTransition(definition, s, e, c) <=> result.code = "ok"
         /\ result.code = "guard_rejected" =>
              \A n \in DOMAIN definition.transitions :
                LET t == definition.transitions[n] IN
                  s \in t.from /\ e = t.event => c \notin t.guard
         /\ result.code = "ok" => (result.final <=> result.to \in definition.final)
=============================================================================
