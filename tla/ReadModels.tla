----------------------------- MODULE ReadModels -----------------------------
(***************************************************************************)
(* The kernel's projections (application/default-projections.ts) of one    *)
(* work item and one resource, and their verification                      *)
(* (application/projection-verifier.ts).                                   *)
(*                                                                         *)
(* The use cases change the item and the resource and record an event of   *)
(* each change.  The worker applies the events in their order, always from *)
(* the first one: a rebuild clears the records before, and a rebuild that  *)
(* does not clear (clear: false) applies events again to records that have *)
(* them.  Either may begin when another one has died anywhere.             *)
(*                                                                         *)
(* One field stands for the fields, one comment for a comment; versions    *)
(* are counted, times and texts are left out.                              *)
(***************************************************************************)
EXTENDS Integers, Sequences, FiniteSets, Functions

CONSTANTS Statuses, Assignees, FieldValues,
          Reservations, Quantities,  \* None for a reservation without a quantity
          MaxEvents, MaxReruns,  \* bounds
          None

VARIABLES
  item, resource,  \* what there is
  events,          \* what happened, in the order in which it is read
  summary, usage, timeline,  \* the records of the three projections
  applied,         \* the events that the rebuild under way has applied
  again,           \* an event was applied to records that had it
  reruns           \* rebuilds that did not clear

modelVars == <<item, resource, events, summary, usage, timeline, applied, again, reruns>>

\* A work item, and its summary.
Item == [status : Statuses \cup {None}, field : FieldValues \cup {None},
         assignee : Assignees \cup {None}, version : Nat,
         comments : Nat, decisions : Nat]

\* The reservations that are held, and what the projection counts.
Resource == SUBSET [reservation : Reservations, quantity : Quantities \cup {None}]
Usage == [active : Nat, quantity : Nat, ids : SUBSET Reservations]

BlankItem == [status |-> None, field |-> None, assignee |-> None, version |-> 0,
              comments |-> 0, decisions |-> 0]
NoUsage == [active |-> 0, quantity |-> 0, ids |-> {}]

\* null and undefined are none of these.
ModelsAssumption ==
  /\ Quantities \subseteq Nat
  /\ None \notin Quantities /\ None \notin Item /\ None \notin Usage
  /\ \A reservations \in Resource : reservations # None

TypeOK ==
  /\ item \in Item \cup {None} /\ resource \in Resource \cup {None}
  /\ Len(events) <= MaxEvents
  /\ summary \in Item \cup {None} /\ usage \in Usage \cup {None}
  /\ timeline \subseteq 1..MaxEvents
  /\ applied \in 0..Len(events)
  /\ again \in BOOLEAN /\ reruns \in 0..MaxReruns

Init ==
  /\ item = None /\ resource = None /\ events = <<>>
  /\ summary = None /\ usage = None /\ timeline = {}
  /\ applied = 0 /\ again = FALSE /\ reruns = 0

-----------------------------------------------------------------------------
\* The use cases, each with the event that it records.
Happens(event) ==
  /\ Len(events) < MaxEvents
  /\ events' = Append(events, event)
  /\ UNCHANGED <<summary, usage, timeline, applied, again, reruns>>

Changed(changes) == item' = changes /\ UNCHANGED resource

CreateWorkItem ==
  /\ item = None
  /\ \E status \in Statuses, value \in FieldValues \cup {None} :
       /\ Changed([BlankItem EXCEPT !.status = status, !.field = value, !.version = 1])
       /\ Happens([type |-> "WorkItemCreated", status |-> status, field |-> value])

\* An event has the version that comes after the change.
UpdateFields ==
  /\ item # None
  /\ \E value \in FieldValues :
       /\ Changed([item EXCEPT !.field = value, !.version = @ + 1])
       /\ Happens([type |-> "WorkItemFieldsUpdated", field |-> value, version |-> item.version + 1])

Transition ==
  /\ item # None
  /\ \E to \in Statuses :
       /\ Changed([item EXCEPT !.status = to, !.version = @ + 1])
       /\ Happens([type |-> "WorkItemTransitioned", to |-> to, version |-> item.version + 1])

Assign ==
  /\ item # None
  /\ \E who \in Assignees :
       /\ Changed([item EXCEPT !.assignee = who, !.version = @ + 1])
       /\ Happens([type |-> "WorkItemAssigned", assignee |-> who, version |-> item.version + 1])

Comment ==
  /\ item # None
  /\ \/ /\ Changed([item EXCEPT !.comments = @ + 1, !.version = @ + 1])
        /\ Happens([type |-> "CommentAdded", version |-> item.version + 1])
     \/ /\ Changed([item EXCEPT !.decisions = @ + 1, !.version = @ + 1])
        /\ Happens([type |-> "DecisionAdded", version |-> item.version + 1])

CreateResource ==
  /\ resource = None
  /\ resource' = {} /\ UNCHANGED item
  /\ Happens([type |-> "ResourceCreated"])

\* A reservation's id is used once; quantity is None when there is none.
Reserve(r) ==
  /\ resource # None
  /\ \A e \in Range(events) : e.type = "ResourceReserved" => e.reservation # r
  /\ \E quantity \in Quantities \cup {None} :
       /\ resource' = resource \cup {[reservation |-> r, quantity |-> quantity]}
       /\ UNCHANGED item
       /\ Happens([type |-> "ResourceReserved", reservation |-> r, quantity |-> quantity])

Release ==
  /\ resource # None
  /\ \E held \in resource :
       /\ resource' = resource \ {held} /\ UNCHANGED item
       /\ Happens([type |-> "ResourceReservationReleased", reservation |-> held.reservation,
                   quantity |-> held.quantity])

-----------------------------------------------------------------------------
\* workItemSummaryValue
Old(record, blank) == IF record = None THEN blank ELSE record

SummaryValue(event, record) ==
  LET base == Old(record, BlankItem) IN
  CASE event.type = "WorkItemCreated" ->
         [BlankItem EXCEPT !.status = event.status, !.field = event.field, !.version = 1,
                           !.comments = base.comments, !.decisions = base.decisions]
    [] event.type = "WorkItemFieldsUpdated" ->
         [base EXCEPT !.field = event.field, !.version = event.version]
    [] event.type = "WorkItemTransitioned" ->
         [base EXCEPT !.status = event.to, !.version = event.version]
    [] event.type = "WorkItemAssigned" ->
         [base EXCEPT !.assignee = event.assignee, !.version = event.version]
    [] event.type = "DecisionAdded" ->
         [base EXCEPT !.decisions = @ + 1, !.version = event.version]
    [] event.type = "CommentAdded" ->
         [base EXCEPT !.comments = @ + 1, !.version = event.version]

\* event.quantity ?? 0
Quantity(event) == IF event.quantity = None THEN 0 ELSE event.quantity

Positive(n) == IF n > 0 THEN n ELSE 0

\* Mutant of UsageValue: what is released stays among the ids.
UsageValueKept(event, record) ==
  LET base == Old(record, NoUsage) IN
  CASE event.type = "ResourceCreated" -> base
    [] event.type = "ResourceReserved" ->
         [active   |-> base.active + 1,
          quantity |-> base.quantity + Quantity(event),
          ids      |-> base.ids \cup {event.reservation}]
    [] event.type = "ResourceReservationReleased" ->
         [base EXCEPT !.active = Positive(@ - 1), !.quantity = Positive(@ - Quantity(event))]

\* resourceReservationValue
UsageValue(event, record) ==
  LET base == Old(record, NoUsage) IN
  CASE event.type = "ResourceCreated" -> base
    [] event.type = "ResourceReserved" ->
         [active   |-> base.active + 1,
          quantity |-> base.quantity + Quantity(event),
          ids      |-> base.ids \cup {event.reservation}]
    [] event.type = "ResourceReservationReleased" ->
         [active   |-> Positive(base.active - 1),
          quantity |-> Positive(base.quantity - Quantity(event)),
          ids      |-> base.ids \ {event.reservation}]

OfItem == {"WorkItemCreated", "WorkItemFieldsUpdated", "WorkItemTransitioned",
           "WorkItemAssigned", "DecisionAdded", "CommentAdded"}

\* The three projections at an event; the timeline has a record for every event.
Project(n) ==
  LET event == events[n] IN
  /\ timeline' = timeline \cup {n}
  /\ IF event.type \in OfItem
       THEN summary' = SummaryValue(event, summary) /\ UNCHANGED usage
       ELSE usage' = UsageValue(event, usage) /\ UNCHANGED summary

Apply ==
  /\ applied < Len(events)
  /\ Project(applied + 1)
  /\ applied' = applied + 1
  /\ again' = (again \/ applied + 1 \in timeline)
  /\ UNCHANGED <<item, resource, events, reruns>>

\* clear: true, the default, and clear: false.
Rebuild ==
  /\ summary' = None /\ usage' = None /\ timeline' = {}
  /\ applied' = 0 /\ again' = FALSE
  /\ UNCHANGED <<item, resource, events, reruns>>

Rerun ==
  /\ reruns < MaxReruns
  /\ reruns' = reruns + 1
  /\ applied' = 0
  /\ UNCHANGED <<item, resource, events, summary, usage, timeline, again>>

Next ==
  \/ CreateWorkItem \/ UpdateFields \/ Transition \/ Assign \/ Comment
  \/ CreateResource \/ Release \/ \E r \in Reservations : Reserve(r)
  \/ Apply \/ Rebuild \/ Rerun

Spec == Init /\ [][Next]_modelVars

-----------------------------------------------------------------------------
\* What the records ought to be.
Held == {held.reservation : held \in resource}

UsageOf(reservations) ==
  IF reservations = None THEN None
  ELSE [active   |-> Cardinality(reservations),
        quantity |-> SumFunction([held \in reservations |-> Quantity(held)]),
        ids      |-> {held.reservation : held \in reservations}]

ExpectedUsage == UsageOf(resource)

\* compareProjectionRecords, for the record of one id.
Difference(expected, actual) ==
  IF expected = actual THEN {}
  ELSE IF actual = None THEN {"missing"}
  ELSE IF expected = None THEN {"extra"} ELSE {"changed"}

Counters == {"comments", "decisions"}

(***************************************************************************)
(* When all events have been applied the timeline has each once, and the   *)
(* records are what the item and the resource are: verification finds no   *)
(* difference.  If some were applied twice only the counters may be off:   *)
(* status, fields, assignee, version and the ids of reservations are right *)
(* all the same.                                                           *)
(***************************************************************************)
ReadModelsAgree ==
  applied = Len(events) =>
    /\ timeline = 1..Len(events)
    /\ ~again => Difference(item, summary) \cup Difference(ExpectedUsage, usage) = {}
    /\ item # None => \A f \in DOMAIN BlankItem \ Counters : summary[f] = item[f]
    /\ resource # None => usage.ids = Held
=============================================================================
