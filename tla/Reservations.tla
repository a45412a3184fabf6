---------------------------- MODULE Reservations ----------------------------
(***************************************************************************)
(* Reservations of resources: reserveResource, releaseResourceReservation  *)
(* and createResource over a reservation port.                             *)
(*                                                                         *)
(* A call reads the resource, and with it the capacity, before the unit of *)
(* work; the port then compares that copy with the active reservations     *)
(* under the lock of the resource.  createResource saves over a resource   *)
(* of the same id, so the capacity may change between the two.             *)
(*                                                                         *)
(* The unit of work is left out: the in-memory one excludes nobody, and    *)
(* the one on files only takes interleavings away.  The lock of a resource *)
(* is the one of module Mutex.  A call makes at most one reservation,      *)
(* which goes by the name of the call.                                     *)
(***************************************************************************)
EXTENDS Integers, FiniteSets, FiniteSetsExt

CONSTANTS
  Calls,       \* the calls of the three use cases
  Resources,
  Items,       \* work items; all of them exist
  Quantities,  \* what a caller may ask for
  Capacities,  \* what fields.quantity of a resource may be
  None,        \* no such record; a quantity or capacity that is not given
  Absent,      \* instead of a capacity: the resource has not been created
  MaxFaults    \* bound on store calls that throw

VARIABLES
  capacity,      \* of each resource
  had,           \* the capacities a resource has had, None for one without
  reservations,  \* the reservations that have been made, by call
  lock,          \* the lock file of each resource
  pc,
  request,       \* what a call asks for, and the capacity it has read
  found,         \* the reservation a release has found
  events,        \* the audit events
  faults

vars == <<capacity, had, reservations, lock, pc, request, found, events, faults>>

local == <<request, found>>

Requests == [op : {"reserve", "release"}, resource : Resources, item : Items,
             quantity : Quantities \cup {None}, capacity : Capacities \cup {None}]

Reservation == [resource : Resources, item : Items, quantity : Quantities \cup {None},
                status : {"active", "released"}]

AuditEvents == [type : {"ResourceReserved", "ResourceReservationReleased"},
                reservation : Calls, by : Calls]

ReservationsAssumption ==
  /\ Quantities \subseteq Int
  /\ Capacities \subseteq Int
  /\ None \notin Int \cup Calls \cup Requests \cup Reservation
  /\ Absent \notin Int \cup {None}
  /\ MaxFaults \in Nat

Init ==
  /\ capacity = [r \in Resources |-> Absent]
  /\ had = [r \in Resources |-> {}]
  /\ reservations = [c \in Calls |-> None]
  /\ lock = [r \in Resources |-> None]
  /\ pc = [c \in Calls |-> "new"]
  /\ request = [c \in Calls |-> None]
  /\ found = [c \in Calls |-> None]
  /\ events = {}
  /\ faults = 0

Goto(c, from, to) ==
  /\ pc[c] = from
  /\ pc' = [pc EXCEPT ![c] = to]

\* Leaves the lock of the resource.
Leave(c) == lock' = [lock EXCEPT ![request[c].resource] = None]

-----------------------------------------------------------------------------
\* createResource: whatever is stored under the id is saved over.
CreateResource(c, r, q) ==
  /\ Goto(c, "new", "created")
  /\ capacity' = [capacity EXCEPT ![r] = q]
  /\ had' = [had EXCEPT ![r] = @ \cup {q}]
  /\ UNCHANGED <<reservations, lock, local, events, faults>>

\* The resource is read; a resource that is absent is a NotFoundError.
Load(c, op, r, i, q) ==
  /\ capacity[r] # Absent
  /\ Goto(c, "new", "loaded")
  /\ request' = [request EXCEPT ![c] =
       [op |-> op, resource |-> r, item |-> i, quantity |-> q, capacity |-> capacity[r]]]
  /\ UNCHANGED <<capacity, had, reservations, lock, found, events, faults>>

\* Inside unitOfWork.run the port takes the lock of the resource.
Lock(c) ==
  /\ Goto(c, "loaded", "locked")
  /\ lock[request[c].resource] = None
  /\ lock' = [lock EXCEPT ![request[c].resource] = c]
  /\ UNCHANGED <<capacity, had, reservations, local, events, faults>>

Active(r) ==
  {c \in Calls : /\ reservations[c] # None
                 /\ reservations[c].resource = r
                 /\ reservations[c].status = "active"}

\* A quantity that is not given stands for the whole capacity.
Amount(quantity, whole) == IF quantity = None THEN whole ELSE quantity

Reserved(r, whole) ==
  SumFunction([c \in Active(r) |-> Amount(reservations[c].quantity, whole)])

\* Mutant of Available: the request itself is not counted.
AvailableBefore(q) ==
  /\ q.quantity # None => q.quantity > 0
  /\ q.capacity # None => Reserved(q.resource, q.capacity) <= q.capacity

\* checkResourceCapacity, with the capacity the caller has read.
Available(q) ==
  /\ q.quantity # None => q.quantity > 0
  /\ q.capacity # None =>
       Reserved(q.resource, q.capacity) + Amount(q.quantity, q.capacity) <= q.capacity

(***************************************************************************)
(* findActiveReservation: of those that match, the oldest; the model takes *)
(* any, it keeps no times.                                                 *)
(***************************************************************************)
Matching(q) ==
  {c \in Active(q.resource) :
    /\ reservations[c].item = q.item
    /\ q.quantity # None => reservations[c].quantity = q.quantity}

\* A request the port accepts goes on to its save.
Check(c) ==
  /\ Goto(c, "locked", "save")
  /\ \/ /\ request[c].op = "reserve"
        /\ Available(request[c])
        /\ UNCHANGED found
     \/ /\ request[c].op = "release"
        /\ \E d \in Matching(request[c]) : found' = [found EXCEPT ![c] = d]
  /\ UNCHANGED <<capacity, had, reservations, lock, request, events, faults>>

\* ValidationError or NotFoundError; the lock is released.
Refuse(c) ==
  /\ Goto(c, "locked", "rejected")
  /\ \/ request[c].op = "reserve" /\ ~Available(request[c])
     \/ request[c].op = "release" /\ Matching(request[c]) = {}
  /\ Leave(c)
  /\ UNCHANGED <<capacity, had, reservations, local, events, faults>>

\* The reservation is written, active, and the lock is released.
Reserve(c) ==
  /\ request[c] # None /\ request[c].op = "reserve"
  /\ Goto(c, "save", "record")
  /\ reservations' = [reservations EXCEPT ![c] =
       [resource |-> request[c].resource, item |-> request[c].item,
        quantity |-> request[c].quantity, status |-> "active"]]
  /\ Leave(c)
  /\ UNCHANGED <<capacity, had, local, events, faults>>

\* The reservation that was found is written, released.
Release(c) ==
  /\ request[c] # None /\ request[c].op = "release"
  /\ Goto(c, "save", "record")
  /\ reservations' = [reservations EXCEPT ![found[c]].status = "released"]
  /\ Leave(c)
  /\ UNCHANGED <<capacity, had, local, events, faults>>

\* recordAuditEvent, outside the lock of the resource.
Record(c) ==
  /\ Goto(c, "record", "done")
  /\ events' = events \cup
       {IF request[c].op = "reserve"
          THEN [type |-> "ResourceReserved", reservation |-> c, by |-> c]
          ELSE [type |-> "ResourceReservationReleased", reservation |-> found[c], by |-> c]}
  /\ UNCHANGED <<capacity, had, reservations, lock, local, faults>>

\* A write of the port or of the audit throws: the lock is released, no step undone.
StoreFails(c) ==
  /\ faults < MaxFaults
  /\ faults' = faults + 1
  /\ \/ Goto(c, "save", "failed") /\ Leave(c)
     \/ Goto(c, "record", "failed") /\ UNCHANGED lock
  /\ UNCHANGED <<capacity, had, reservations, local, events>>

Next ==
  \E c \in Calls :
    \/ \E r \in Resources :
         \/ \E q \in Capacities \cup {None} : CreateResource(c, r, q)
         \/ \E op \in {"reserve", "release"}, i \in Items, q \in Quantities \cup {None} :
              Load(c, op, r, i, q)
    \/ Lock(c) \/ Check(c) \/ Refuse(c) \/ Reserve(c) \/ Release(c) \/ Record(c)
    \/ StoreFails(c)

Spec == Init /\ [][Next]_vars
-----------------------------------------------------------------------------
\* Every variable has its type.
TypeOK ==
  /\ capacity \in [Resources -> Capacities \cup {None, Absent}]
  /\ had \in [Resources -> SUBSET (Capacities \cup {None})]
  /\ reservations \in [Calls -> Reservation \cup {None}]
  /\ lock \in [Resources -> Calls \cup {None}]
  /\ pc \in [Calls -> {"new", "created", "loaded", "locked", "save", "record", "done",
                       "rejected", "failed"}]
  /\ request \in [Calls -> Requests \cup {None}]
  /\ found \in [Calls -> Calls \cup {None}]
  /\ events \subseteq AuditEvents
  /\ faults \in 0..MaxFaults

Whole(r) == {c \in Active(r) : reservations[c].quantity = None}

(***************************************************************************)
(* A resource that always had a positive capacity is not overbooked,       *)
(* although each caller brings the capacity it has read: what is given     *)
(* away in quantities is at most the highest capacity the resource has     *)
(* had, and who holds the whole of it holds it alone.                      *)
(***************************************************************************)
CapacityKept ==
  \A r \in Resources :
    had[r] # {} /\ None \notin had[r] /\ (\A q \in had[r] : q > 0) =>
      /\ Reserved(r, 0) <= Max(had[r])
      /\ Whole(r) # {} => Cardinality(Active(r)) = 1

(***************************************************************************)
(* A reservation is released once: no two calls answer for the same        *)
(* release, and no event tells of a reservation or a release that the      *)
(* store does not have (the lock from the search to the save).             *)
(***************************************************************************)
ReleasedOnce ==
  \A e \in events :
    /\ reservations[e.reservation] # None
    /\ e.type = "ResourceReservationReleased" =>
         /\ reservations[e.reservation].status = "released"
         /\ \A f \in events : f.type = e.type /\ f.reservation = e.reservation => f = e

ReservationsKept == CapacityKept /\ ReleasedOnce
=============================================================================
