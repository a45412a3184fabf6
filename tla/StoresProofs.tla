---------------------------- MODULE StoresProofs ----------------------------
(***************************************************************************)
(* Theorems about components of MCStores, for any number of calls and any  *)
(* bounds: a resource is neither overbooked nor released twice; a process  *)
(* that has ended stays so; the cache has what the package registry has;   *)
(* the handler of a migration step ends once; appends are where they were  *)
(* said to be; a cache keeps its limits; a rebuild folds every event there *)
(* was, once.                                                              *)
(***************************************************************************)
EXTENDS MCStores, Sums

\* An instance counts with its own copy of the definition, and sums.
LEMMA PortCounts == \A S : Port!Cardinality(S) = Cardinality(S)
BY DEF Port!Cardinality, Cardinality, Port!IsFiniteSet, IsFiniteSet

LEMMA PortSums == \A f : Port!SumFunction(f) = SumFunctionOnSet(f, DOMAIN f)
BY DEF Port!SumFunction, Port!SumFunctionOnSet, SumFunctionOnSet, Port!FoldFunctionOnSet,
       FoldFunctionOnSet, Port!MapThenFoldSet, MapThenFoldSet

-----------------------------------------------------------------------------
(***************************************************************************)
(* The reservation port.                                                   *)
(***************************************************************************)
Entered == {"locked", "save"}

\* A call that has read a resource has a request, with a capacity the resource has had.
Requested ==
  /\ \A c \in Calls : pc[c] \notin {"new", "created"} => request[c] # None
  /\ \A c \in Calls : request[c] # None => request[c].capacity \in had[request[c].resource]
  /\ \A r \in Resources : capacity[r] # Absent => capacity[r] \in had[r]

\* A call at the port holds the lock of its resource.
Locking == \A c \in Calls : pc[c] \in Entered => lock[request[c].resource] = c

\* A reservation was made by the call it goes by, of a quantity that is positive or not given.
Made ==
  \A c \in Calls :
    /\ reservations[c] # None =>
         /\ pc[c] \in {"record", "done", "failed"}
         /\ request[c] # None /\ reservations[c].resource = request[c].resource
         /\ reservations[c].quantity # None => reservations[c].quantity > 0
    /\ pc[c] \in {"record", "done"} /\ request[c].op = "reserve" => reservations[c] # None

ActiveFinite == \A r \in Resources : IsFiniteSet(Port!Active(r))

\* A resource with capacities only has a highest one.
Highest ==
  \A r \in Resources : had[r] # {} /\ None \notin had[r] =>
    \E m \in had[r] : \A q \in had[r] : q <= m

\* What was checked still holds when it is written.
Checked ==
  \A c \in Calls, q \in Port!Requests : pc[c] = "save" /\ request[c] = q =>
    IF q.op = "reserve" THEN Port!Available(q) ELSE found[c] \in Port!Active(q.resource)

\* A call that has written a release, and recorded it or not.
Releases(c) ==
  request[c] # None /\ request[c].op = "release" /\ pc[c] \in {"record", "done"}

ReleasedApart ==
  \A c \in Calls : Releases(c) =>
    /\ found[c] \in Calls
    /\ reservations[found[c]] # None /\ reservations[found[c]].status = "released"
    /\ \A d \in Calls : Releases(d) /\ found[d] = found[c] => d = c

EventsTold ==
  \A e \in events :
    /\ pc[e.by] = "done" /\ request[e.by] # None
    /\ IF e.type = "ResourceReserved"
         THEN request[e.by].op = "reserve" /\ e.reservation = e.by
         ELSE request[e.by].op = "release" /\ e.reservation = found[e.by]

PortInv ==
  /\ Port!TypeOK /\ Requested /\ Locking /\ Made /\ ActiveFinite /\ Highest
  /\ Checked /\ Port!CapacityKept /\ ReleasedApart /\ EventsTold

-----------------------------------------------------------------------------
(***************************************************************************)
(* The sums of the active reservations.                                    *)
(***************************************************************************)
Amounts(r, whole) == [c \in Port!Active(r) |-> Port!Amount(reservations[c].quantity, whole)]

\* Reserved is the sum of these amounts.
LEMMA ReservedIs ==
  ASSUME NEW r, NEW whole
  PROVE  Port!Reserved(r, whole) = SumFunctionOnSet(Amounts(r, whole), Port!Active(r))
BY PortSums DEF Port!Reserved, Amounts

\* Each amount is an integer, and so is their sum.
LEMMA AmountsType ==
  ASSUME Port!ReservationsAssumption, Port!TypeOK, NEW r, NEW whole \in Int
  PROVE  /\ \A c \in Port!Active(r) : Amounts(r, whole)[c] \in Int
         /\ IsFiniteSet(Port!Active(r)) => Port!Reserved(r, whole) \in Int
<1>1. ASSUME NEW c \in Port!Active(r) PROVE Amounts(r, whole)[c] \in Int
  <2>1. reservations[c] \in Port!Reservation
    BY DEF Port!Active, Port!TypeOK
  <2>2. reservations[c].quantity \in Int \cup {None}
    BY <2>1 DEF Port!Reservation, Port!ReservationsAssumption
  <2> QED
    BY <2>2 DEF Amounts, Port!Amount
<1>2. IsFiniteSet(Port!Active(r)) => Port!Reserved(r, whole) \in Int
  BY <1>1, SumType, ReservedIs
<1> QED
  BY <1>1, <1>2

(***************************************************************************)
(* A step that leaves the active reservations of a resource as they are    *)
(* leaves their sum as it is.                                              *)
(***************************************************************************)
LEMMA ReservedSame ==
  ASSUME Port!ReservationsAssumption, Port!TypeOK, NEW r, NEW whole \in Int,
         IsFiniteSet(Port!Active(r)),
         Port!Active(r)' = Port!Active(r),
         \A c \in Port!Active(r) : reservations'[c].quantity = reservations[c].quantity
  PROVE  Port!Reserved(r, whole)' = Port!Reserved(r, whole)
<1>1. Port!Reserved(r, whole)' = SumFunctionOnSet(Amounts(r, whole)', Port!Active(r)')
  BY PortSums DEF Port!Reserved, Amounts
<1>2. \A c \in Port!Active(r) : Amounts(r, whole)'[c] = Amounts(r, whole)[c]
  BY DEF Amounts
<1> QED
  BY <1>1, <1>2, AmountsType, ReservedIs, SumSame

(***************************************************************************)
(* A reservation that becomes active is added to the sum.                  *)
(***************************************************************************)
LEMMA ReservedGrows ==
  ASSUME Port!ReservationsAssumption, Port!TypeOK, NEW r, NEW whole \in Int,
         IsFiniteSet(Port!Active(r)),
         NEW c, c \notin Port!Active(r), Port!Active(r)' = Port!Active(r) \cup {c},
         \A d \in Port!Active(r) : reservations'[d].quantity = reservations[d].quantity,
         NEW n \in Int \cup {None}, reservations'[c].quantity = n
  PROVE  Port!Reserved(r, whole)' = Port!Amount(n, whole) + Port!Reserved(r, whole)
<1>1. Port!Reserved(r, whole)' = SumFunctionOnSet(Amounts(r, whole)', Port!Active(r)')
  BY PortSums DEF Port!Reserved, Amounts
<1>2. /\ \A d \in Port!Active(r) : Amounts(r, whole)'[d] = Amounts(r, whole)[d]
      /\ Amounts(r, whole)'[c] = Port!Amount(n, whole)
  BY DEF Amounts, Port!Amount
<1>3. /\ \A d \in Port!Active(r) : Amounts(r, whole)[d] \in Int
      /\ Port!Amount(n, whole) \in Int
  BY AmountsType DEF Port!Amount
<1>4. /\ IsFiniteSet(Port!Active(r) \cup {c})
      /\ (Port!Active(r) \cup {c}) \ {c} = Port!Active(r)
  BY FS_AddElement
<1>5. SumFunctionOnSet(Amounts(r, whole)', Port!Active(r) \cup {c}) =
        Amounts(r, whole)'[c]
          + SumFunctionOnSet(Amounts(r, whole)', (Port!Active(r) \cup {c}) \ {c})
  BY <1>2, <1>3, <1>4, SumTakeOut
<1>6. SumFunctionOnSet(Amounts(r, whole)', Port!Active(r)) =
        SumFunctionOnSet(Amounts(r, whole), Port!Active(r))
  BY <1>2, <1>3, SumSame
<1> QED
  BY <1>1, <1>2, <1>4, <1>5, <1>6, ReservedIs

(***************************************************************************)
(* A reservation that is no longer active is taken out of it.              *)
(***************************************************************************)
LEMMA ReservedShrinks ==
  ASSUME Port!ReservationsAssumption, Port!TypeOK, NEW r, NEW whole \in Int,
         IsFiniteSet(Port!Active(r)),
         NEW c \in Port!Active(r), Port!Active(r)' = Port!Active(r) \ {c},
         \A d \in Port!Active(r) : reservations'[d].quantity = reservations[d].quantity
  PROVE  Port!Reserved(r, whole) =
           Port!Amount(reservations[c].quantity, whole) + Port!Reserved(r, whole)'
<1>1. Port!Reserved(r, whole)' = SumFunctionOnSet(Amounts(r, whole)', Port!Active(r)')
  BY PortSums DEF Port!Reserved, Amounts
<1>2. /\ \A d \in Port!Active(r) \ {c} : Amounts(r, whole)'[d] = Amounts(r, whole)[d]
      /\ Amounts(r, whole)[c] = Port!Amount(reservations[c].quantity, whole)
  BY DEF Amounts
<1>3. \A d \in Port!Active(r) : Amounts(r, whole)[d] \in Int
  BY AmountsType
<1>4. IsFiniteSet(Port!Active(r) \ {c})
  BY FS_RemoveElement
<1>5. SumFunctionOnSet(Amounts(r, whole), Port!Active(r)) =
        Amounts(r, whole)[c] + SumFunctionOnSet(Amounts(r, whole), Port!Active(r) \ {c})
  BY <1>3, SumTakeOut
<1>6. SumFunctionOnSet(Amounts(r, whole)', Port!Active(r) \ {c}) =
        SumFunctionOnSet(Amounts(r, whole), Port!Active(r) \ {c})
  BY <1>2, <1>3, <1>4, SumSame
<1> QED
  BY <1>1, <1>2, <1>5, <1>6, ReservedIs

(***************************************************************************)
(* With a capacity that is not negative, and quantities that are positive  *)
(* where they are given, the sum is that of the quantities at least, is    *)
(* not negative, is the capacity at least if somebody holds the whole, and *)
(* is positive if somebody holds something of a positive capacity.         *)
(***************************************************************************)
LEMMA ReservedBounds ==
  ASSUME Port!ReservationsAssumption, Port!TypeOK, Made, NEW r, NEW whole \in Nat,
         IsFiniteSet(Port!Active(r))
  PROVE  /\ Port!Reserved(r, 0) <= Port!Reserved(r, whole)
         /\ Port!Reserved(r, whole) \in Nat
         /\ Port!Whole(r) # {} => whole <= Port!Reserved(r, whole)
         /\ Port!Active(r) # {} /\ whole > 0 => Port!Reserved(r, whole) > 0
<1>1. ASSUME NEW w \in Nat, NEW c \in Port!Active(r)
      PROVE  /\ Amounts(r, w)[c] \in Nat
             /\ Amounts(r, 0)[c] <= Amounts(r, w)[c]
             /\ w > 0 => Amounts(r, w)[c] > 0
             /\ c \in Port!Whole(r) => Amounts(r, w)[c] = w
  <2>1. reservations[c] \in Port!Reservation /\ reservations[c] # None /\ c \in Calls
    BY DEF Port!Active, Port!TypeOK
  <2>2. /\ reservations[c].quantity \in Int \cup {None}
        /\ reservations[c].quantity # None => reservations[c].quantity > 0
    BY <2>1 DEF Port!Reservation, Port!ReservationsAssumption, Made
  <2> QED
    BY <2>2 DEF Amounts, Port!Amount, Port!Whole
<1>2. ASSUME NEW w \in Nat PROVE Port!Reserved(r, w) \in Nat
  BY <1>1, ReservedIs, SumNatural
<1>3. Port!Reserved(r, 0) <= Port!Reserved(r, whole)
  <2>1. \A c \in Port!Active(r) : /\ Amounts(r, 0)[c] \in Int /\ Amounts(r, whole)[c] \in Int
                             /\ Amounts(r, 0)[c] <= Amounts(r, whole)[c]
    BY <1>1
  <2> QED
    BY <2>1, ReservedIs, SumGrows
<1>4. ASSUME NEW c \in Port!Active(r) PROVE Amounts(r, whole)[c] <= Port!Reserved(r, whole)
  <2>1. IsFiniteSet(Port!Active(r) \ {c})
    BY FS_RemoveElement
  <2>2. SumFunctionOnSet(Amounts(r, whole), Port!Active(r) \ {c}) \in Nat
    BY <1>1, <2>1, SumNatural
  <2>3. \A d \in Port!Active(r) : Amounts(r, whole)[d] \in Int
    BY <1>1
  <2>4. Port!Reserved(r, whole) =
          Amounts(r, whole)[c] + SumFunctionOnSet(Amounts(r, whole), Port!Active(r) \ {c})
    BY <2>3, ReservedIs, SumTakeOut
  <2>5. Amounts(r, whole)[c] \in Nat
    BY <1>1
  <2> QED
    BY <2>2, <2>4, <2>5
<1>5. Port!Whole(r) # {} => whole <= Port!Reserved(r, whole)
  <2> SUFFICES ASSUME NEW c \in Port!Whole(r) PROVE whole <= Port!Reserved(r, whole)
    OBVIOUS
  <2>1. c \in Port!Active(r)
    BY DEF Port!Whole
  <2> QED
    BY <1>1, <1>4, <2>1
<1>6. Port!Active(r) # {} /\ whole > 0 => Port!Reserved(r, whole) > 0
  <2> SUFFICES ASSUME NEW c \in Port!Active(r), whole > 0 PROVE Port!Reserved(r, whole) > 0
    OBVIOUS
  <2>1. Amounts(r, whole)[c] \in Nat /\ Amounts(r, whole)[c] > 0
    BY <1>1
  <2>2. Amounts(r, whole)[c] <= Port!Reserved(r, whole) /\ Port!Reserved(r, whole) \in Nat
    BY <1>2, <1>4
  <2> QED
    BY <2>1, <2>2
<1> QED
  BY <1>2, <1>3, <1>5, <1>6

-----------------------------------------------------------------------------
\* The invariant holds before any resource is created.
LEMMA PortInit ==
  ASSUME Port!ReservationsAssumption
  PROVE  Port!Init => PortInv
<1> SUFFICES ASSUME Port!Init PROVE PortInv
  OBVIOUS
<1>1. Port!TypeOK
  BY DEF Port!Init, Port!TypeOK, Port!ReservationsAssumption
<1>2. Requested /\ Locking /\ Highest /\ Checked /\ EventsTold
  BY DEF Port!Init, Requested, Locking, Highest, Checked, EventsTold, Entered
<1>3. Made /\ ReleasedApart
  BY DEF Port!Init, Made, ReleasedApart, Releases
<1>4. \A r \in Resources : Port!Active(r) = {}
  BY DEF Port!Init, Port!Active
<1>5. ActiveFinite
  BY <1>4, FS_EmptySet DEF ActiveFinite
<1>6. Port!CapacityKept
  BY DEF Port!Init, Port!CapacityKept
<1> QED
  BY <1>1, <1>2, <1>3, <1>5, <1>6 DEF PortInv

(***************************************************************************)
(* A step that leaves the resources and the reservations alone.            *)
(***************************************************************************)
LEMMA QuietKeeps ==
  ASSUME Port!ReservationsAssumption, PortInv, UNCHANGED <<capacity, had, reservations>>
  PROVE  /\ ActiveFinite' /\ Highest' /\ Port!CapacityKept'
         /\ \A r \in Resources : Port!Active(r)' = Port!Active(r)
         /\ \A q \in Port!Requests : Port!Available(q)' = Port!Available(q)
<1>1. \A r : Port!Active(r)' = Port!Active(r) /\ Port!Whole(r)' = Port!Whole(r)
  BY DEF Port!Active, Port!Whole
<1>2. ActiveFinite'
  BY <1>1 DEF PortInv, ActiveFinite
<1>3. Highest'
  BY DEF PortInv, Highest
<1>4. ASSUME NEW r \in Resources, NEW w \in Int PROVE Port!Reserved(r, w)' = Port!Reserved(r, w)
  BY <1>1, ReservedSame DEF PortInv, ActiveFinite
<1>5. Port!CapacityKept'
  <2> SUFFICES ASSUME NEW r \in Resources, had'[r] # {}, None \notin had'[r],
                      \A q \in had'[r] : q > 0
               PROVE  /\ Port!Reserved(r, 0)' <= Port!Max(had'[r])
                      /\ Port!Whole(r)' # {} => Port!Cardinality(Port!Active(r)') = 1
    BY DEF Port!CapacityKept
  <2>1. /\ Port!Reserved(r, 0) <= Port!Max(had[r])
        /\ Port!Whole(r) # {} => Port!Cardinality(Port!Active(r)) = 1
    BY DEF PortInv, Port!CapacityKept
  <2> QED
    BY <1>1, <1>4, <2>1
<1>6. ASSUME NEW q \in Port!Requests PROVE Port!Available(q)' = Port!Available(q)
  <2>1. q.resource \in Resources /\ q.capacity \in Int \cup {None}
    BY DEF Port!Requests, Port!ReservationsAssumption
  <2>2. CASE q.capacity = None
    BY <2>2 DEF Port!Available
  <2>3. CASE q.capacity # None
    <3>1. PICK r \in Resources, w \in Int : r = q.resource /\ w = q.capacity
      BY <2>1, <2>3
    <3>2. Port!Reserved(r, w)' = Port!Reserved(r, w)
      BY <1>4
    <3> QED
      BY <3>1, <3>2 DEF Port!Available
  <2> QED
    BY <2>2, <2>3
<1> QED
  BY <1>1, <1>2, <1>3, <1>5, <1>6

(***************************************************************************)
(* Two calls at the port of one resource are one call.                     *)
(***************************************************************************)
LEMMA EnteredAlone ==
  ASSUME PortInv, NEW c \in Calls, NEW d \in Calls, pc[c] \in Entered, pc[d] \in Entered,
         request[c].resource = request[d].resource
  PROVE  c = d
BY DEF PortInv, Locking

\* The request of a call that has left "new" has its types.
LEMMA RequestType ==
  ASSUME PortInv, NEW c \in Calls, pc[c] \notin {"new", "created"}
  PROVE  /\ request[c] \in Port!Requests
         /\ request[c].resource \in Resources /\ request[c].op \in {"reserve", "release"}
         /\ request[c].capacity \in had[request[c].resource]
<1>1. request[c] \in Port!Requests /\ request[c] # None
  BY DEF PortInv, Requested, Port!TypeOK
<1> QED
  BY <1>1 DEF Port!Requests, PortInv, Requested

(***************************************************************************)
(* A call that moves on and leaves all else alone, but for its own request *)
(* when it starts, and the locks and what it has found.                    *)
(***************************************************************************)
LEMMA MoveKeeps ==
  ASSUME Port!ReservationsAssumption, PortInv, NEW c \in Calls,
         pc[c] \in {"new", "loaded", "locked", "save"},
         NEW to \in {"loaded", "locked", "save", "rejected", "failed"},
         pc' = [pc EXCEPT ![c] = to], request' = request \/ pc[c] = "new",
         \A d \in Calls \ {c} : request'[d] = request[d] /\ found'[d] = found[d],
         request'[c] # None, request'[c].capacity \in had[request'[c].resource],
         \A d \in Calls \ {c} : pc[d] \in Entered =>
           lock'[request[d].resource] = lock[request[d].resource],
         to \in Entered => lock'[request'[c].resource] = c,
         to = "save" => IF request[c].op = "reserve" THEN Port!Available(request[c])
                        ELSE found'[c] \in Port!Active(request[c].resource),
         to = "save" => pc[c] = "locked",
         UNCHANGED <<capacity, had, reservations, events>>, Port!TypeOK'
  PROVE  PortInv'
<1>1. \A d \in Calls \ {c} : pc'[d] = pc[d]
  BY DEF PortInv, Port!TypeOK
<1>2. pc'[c] = to
  BY DEF PortInv, Port!TypeOK
<1>3. /\ ActiveFinite' /\ Highest' /\ Port!CapacityKept'
      /\ \A r \in Resources : Port!Active(r)' = Port!Active(r)
      /\ \A q \in Port!Requests : Port!Available(q)' = Port!Available(q)
  BY QuietKeeps
<1>4. Requested'
  BY <1>1, <1>2 DEF PortInv, Requested
<1>5. Locking'
  BY <1>1, <1>2 DEF PortInv, Locking
<1>6. Made'
  <2>1. reservations[c] = None
    BY DEF PortInv, Made
  <2> QED
    BY <1>1, <1>2, <2>1 DEF PortInv, Made
<1>7. Checked'
  <2> SUFFICES ASSUME NEW d \in Calls, NEW q \in Port!Requests, pc'[d] = "save", request'[d] = q
               PROVE  IF q.op = "reserve"
                        THEN Port!Available(q)'
                        ELSE found'[d] \in Port!Active(q.resource)'
    BY DEF Checked
  <2>1. q.resource \in Resources
    BY DEF Port!Requests
  <2>2. CASE d = c
    BY <1>2, <1>3, <2>1, <2>2
  <2>3. CASE d # c
    <3>1. IF q.op = "reserve" THEN Port!Available(q) ELSE found[d] \in Port!Active(q.resource)
      BY <1>1, <2>3 DEF PortInv, Checked
    <3> QED
      BY <1>3, <2>1, <2>3, <3>1
  <2> QED
    BY <2>2, <2>3
<1>8. \A d \in Calls : Releases(d)' <=> Releases(d) /\ d # c
  BY <1>1, <1>2 DEF Releases
<1>9. ReleasedApart'
  BY <1>1, <1>8 DEF PortInv, ReleasedApart, Releases
<1>10. EventsTold'
  <2> SUFFICES ASSUME NEW e \in events
               PROVE  /\ pc'[e.by] = "done" /\ request'[e.by] # None
                      /\ IF e.type = "ResourceReserved"
                           THEN request'[e.by].op = "reserve" /\ e.reservation = e.by
                           ELSE request'[e.by].op = "release" /\ e.reservation = found'[e.by]
    BY DEF EventsTold
  <2>1. e.by \in Calls /\ pc[e.by] = "done"
    BY DEF PortInv, EventsTold, Port!TypeOK, Port!AuditEvents
  <2> QED
    BY <1>1, <2>1 DEF PortInv, EventsTold
<1> QED
  BY <1>3, <1>4, <1>5, <1>6, <1>7, <1>9, <1>10 DEF PortInv

\* The resource is read.
LEMMA LoadStep ==
  ASSUME Port!ReservationsAssumption, PortInv, NEW c \in Calls, NEW op \in {"reserve", "release"},
         NEW r \in Resources, NEW i \in Items, NEW q \in Quantities \cup {None},
         Port!Load(c, op, r, i, q)
  PROVE  PortInv'
<1> DEFINE new == [op |-> op, resource |-> r, item |-> i, quantity |-> q,
                   capacity |-> capacity[r]]
<1>1. capacity[r] \in Capacities \cup {None} /\ capacity[r] \in had[r]
  BY DEF Port!Load, PortInv, Port!TypeOK, Requested
<1>2. new \in Port!Requests /\ new # None /\ new.capacity \in had[new.resource]
  BY <1>1 DEF Port!Requests, Port!ReservationsAssumption
<1> HIDE DEF new
<1>3. /\ pc[c] = "new" /\ pc' = [pc EXCEPT ![c] = "loaded"]
      /\ request' = [request EXCEPT ![c] = new]
      /\ UNCHANGED <<capacity, had, reservations, lock, found, events, faults>>
  BY DEF Port!Load, Port!Goto, new
<1>4. Port!TypeOK'
  BY <1>2, <1>3 DEF PortInv, Port!TypeOK
<1>5. request'[c] = new /\ \A d \in Calls \ {c} : request'[d] = request[d]
  BY <1>3 DEF PortInv, Port!TypeOK
<1> QED
  BY <1>2, <1>3, <1>4, <1>5, MoveKeeps DEF Entered

\* The port takes the lock.
LEMMA LockStep ==
  ASSUME Port!ReservationsAssumption, PortInv, NEW c \in Calls, Port!Lock(c)
  PROVE  PortInv'
<1> DEFINE r == request[c].resource
<1>1. /\ pc[c] = "loaded" /\ pc' = [pc EXCEPT ![c] = "locked"]
      /\ lock[r] = None /\ lock' = [lock EXCEPT ![r] = c]
      /\ UNCHANGED <<capacity, had, reservations, request, found, events, faults>>
  BY DEF Port!Lock, Port!Goto, Port!local
<1>2. request[c] # None /\ r \in Resources /\ request[c].capacity \in had[r]
  BY <1>1, RequestType DEF PortInv, Requested
<1>3. Port!TypeOK'
  BY <1>1, <1>2 DEF PortInv, Port!TypeOK
<1>4. lock'[r] = c
  BY <1>1, <1>2 DEF PortInv, Port!TypeOK
<1>5. \A d \in Calls : pc[d] \in Entered => lock'[request[d].resource] = lock[request[d].resource]
  <2> SUFFICES ASSUME NEW d \in Calls, pc[d] \in Entered
               PROVE  lock'[request[d].resource] = lock[request[d].resource]
    OBVIOUS
  <2>1. lock[request[d].resource] = d
    BY DEF PortInv, Locking
  <2>2. request[d].resource # r
    BY <1>1, <2>1 DEF Port!ReservationsAssumption
  <2> QED
    BY <1>1, <2>2, RequestType DEF PortInv, Port!TypeOK, Entered
<1> HIDE DEF r
<1> QED
  BY <1>1, <1>2, <1>3, <1>4, <1>5, MoveKeeps DEF Entered, r

\* A request is accepted.
LEMMA CheckStep ==
  ASSUME Port!ReservationsAssumption, PortInv, NEW c \in Calls, Port!Check(c)
  PROVE  PortInv'
<1>1. /\ pc[c] = "locked" /\ pc' = [pc EXCEPT ![c] = "save"]
      /\ UNCHANGED <<capacity, had, reservations, lock, request, events, faults>>
  BY DEF Port!Check, Port!Goto
<1>2. request[c] # None /\ request[c].capacity \in had[request[c].resource]
  BY <1>1, RequestType DEF PortInv, Requested
<1>3. /\ \/ found' = found
         \/ \E d \in Calls : found' = [found EXCEPT ![c] = d]
      /\ IF request[c].op = "reserve" THEN Port!Available(request[c])
         ELSE found'[c] \in Port!Active(request[c].resource)
  <2>1. CASE request[c].op = "reserve"
    BY <2>1 DEF Port!Check
  <2>2. CASE request[c].op # "reserve"
    <3>1. PICK d \in Port!Matching(request[c]) : found' = [found EXCEPT ![c] = d]
      BY <2>2 DEF Port!Check
    <3>2. d \in Port!Active(request[c].resource) /\ d \in Calls
      BY DEF Port!Matching, Port!Active
    <3>3. found'[c] = d
      BY <3>1 DEF PortInv, Port!TypeOK
    <3> QED
      BY <2>2, <3>1, <3>2, <3>3
  <2> QED
    BY <2>1, <2>2
<1>4. Port!TypeOK' /\ \A d \in Calls \ {c} : found'[d] = found[d]
  BY <1>1, <1>3 DEF PortInv, Port!TypeOK
<1>5. lock'[request'[c].resource] = c
  BY <1>1 DEF PortInv, Locking, Entered
<1> QED
  BY <1>1, <1>2, <1>3, <1>4, <1>5, MoveKeeps

\* A call leaves the port without having written: refused, or its write has thrown.
LEMMA LeaveStep ==
  ASSUME Port!ReservationsAssumption, PortInv, NEW c \in Calls, pc[c] \in Entered,
         NEW to \in {"rejected", "failed"}, pc' = [pc EXCEPT ![c] = to], Port!Leave(c),
         UNCHANGED <<capacity, had, reservations, Port!local, events>>, faults' \in 0..MaxFaults
  PROVE  PortInv'
<1>1. /\ request[c] # None /\ request[c].resource \in Resources
      /\ request[c].capacity \in had[request[c].resource]
  BY RequestType DEF PortInv, Requested, Entered
<1>2. lock' = [lock EXCEPT ![request[c].resource] = None]
  BY DEF Port!Leave
<1>3. Port!TypeOK' /\ request' = request /\ found' = found
  BY <1>1, <1>2 DEF PortInv, Port!TypeOK, Port!local
<1>4. \A d \in Calls \ {c} : pc[d] \in Entered =>
        lock'[request[d].resource] = lock[request[d].resource]
  <2> SUFFICES ASSUME NEW d \in Calls \ {c}, pc[d] \in Entered
               PROVE  lock'[request[d].resource] = lock[request[d].resource]
    OBVIOUS
  <2>1. request[d].resource # request[c].resource
    BY EnteredAlone
  <2> QED
    BY <1>2, <2>1, RequestType DEF PortInv, Port!TypeOK, Entered
<1> QED
  BY <1>1, <1>3, <1>4, MoveKeeps DEF Entered

(***************************************************************************)
(* The highest capacity of a resource that has had capacities only.        *)
(***************************************************************************)
LEMMA MaxIs ==
  ASSUME NEW S, NEW m \in S, \A q \in S : q <= m, S \subseteq Int
  PROVE  Port!Max(S) \in S /\ \A q \in S : q <= Port!Max(S)
BY DEF Port!Max

\* A resource is created, or saved over.
LEMMA CreateStep ==
  ASSUME Port!ReservationsAssumption, PortInv, NEW c \in Calls, NEW r \in Resources,
         NEW q \in Capacities \cup {None}, Port!CreateResource(c, r, q)
  PROVE  PortInv'
<1>1. /\ pc[c] = "new" /\ pc' = [pc EXCEPT ![c] = "created"]
      /\ capacity' = [capacity EXCEPT ![r] = q]
      /\ had' = [had EXCEPT ![r] = had[r] \cup {q}]
      /\ UNCHANGED <<reservations, lock, request, found, events, faults>>
  BY DEF Port!CreateResource, Port!Goto, Port!local
<1>2. Port!TypeOK'
  BY <1>1 DEF PortInv, Port!TypeOK
<1>3. /\ pc'[c] = "created" /\ \A d \in Calls \ {c} : pc'[d] = pc[d]
      /\ had'[r] = had[r] \cup {q} /\ \A s \in Resources \ {r} : had'[s] = had[s]
  BY <1>1 DEF PortInv, Port!TypeOK
<1>4. \A d \in Calls : request[d] # None => request[d].resource \in Resources
  BY DEF PortInv, Port!TypeOK, Port!Requests
<1>5. Requested'
  BY <1>1, <1>3, <1>4 DEF PortInv, Requested, Port!TypeOK
<1>6. Locking' /\ Made'
  BY <1>1, <1>3 DEF PortInv, Locking, Made, Entered
<1>7. \A s : Port!Active(s)' = Port!Active(s) /\ Port!Whole(s)' = Port!Whole(s)
  BY <1>1 DEF Port!Active, Port!Whole
<1>8. ActiveFinite'
  BY <1>7 DEF PortInv, ActiveFinite
<1>9. ASSUME NEW s \in Resources, NEW w \in Int PROVE Port!Reserved(s, w)' = Port!Reserved(s, w)
  BY <1>1, <1>7, ReservedSame DEF PortInv, ActiveFinite
<1>10. had[r] = {} => Port!Active(r) = {}
  <2> SUFFICES ASSUME NEW d \in Port!Active(r) PROVE had[r] # {}
    OBVIOUS
  <2>1. d \in Calls /\ request[d] # None /\ request[d].resource = r
    BY DEF Port!Active, PortInv, Made
  <2> QED
    BY <2>1 DEF PortInv, Requested
<1>11. Highest'
  <2> SUFFICES ASSUME None \notin had'[r] PROVE \E m \in had'[r] : \A x \in had'[r] : x <= m
    BY <1>3 DEF PortInv, Highest
  <2>1. q \in Int /\ had[r] \subseteq Int
    BY <1>3 DEF PortInv, Port!TypeOK, Port!ReservationsAssumption
  <2>2. CASE had[r] = {}
    BY <1>3, <2>1, <2>2
  <2>3. CASE had[r] # {}
    <3>1. PICK m \in had[r] : \A x \in had[r] : x <= m
      BY <1>3, <2>3 DEF PortInv, Highest
    <3>2. CASE q <= m
      BY <1>3, <2>1, <3>1, <3>2
    <3>3. CASE ~ (q <= m)
      <4>1. \A x \in had[r] : x <= q
        BY <2>1, <3>1, <3>3
      <4> QED
        BY <1>3, <2>1, <4>1
    <3> QED
      BY <3>2, <3>3
  <2> QED
    BY <2>2, <2>3
<1>12. Port!CapacityKept'
  <2> SUFFICES ASSUME NEW s \in Resources, had'[s] # {}, None \notin had'[s],
                      \A x \in had'[s] : x > 0
               PROVE  /\ Port!Reserved(s, 0)' <= Port!Max(had'[s])
                      /\ Port!Whole(s)' # {} => Port!Cardinality(Port!Active(s)') = 1
    BY DEF Port!CapacityKept
  <2>1. had'[s] \subseteq Int
    <3>1. had'[s] \subseteq Capacities \cup {None}
      BY <1>2 DEF Port!TypeOK
    <3> QED
      BY <3>1 DEF Port!ReservationsAssumption
  <2>2. Port!Max(had'[s]) \in had'[s] /\ \A x \in had'[s] : x <= Port!Max(had'[s])
    <3>1. PICK m \in had'[s] : \A x \in had'[s] : x <= m
      BY <1>11 DEF Highest
    <3> QED
      BY <2>1, <3>1, MaxIs
  <2>3. /\ Port!Reserved(s, 0)' = Port!Reserved(s, 0)
        /\ Port!Active(s)' = Port!Active(s)
        /\ Port!Whole(s)' = Port!Whole(s)
    BY <1>7, <1>9
  <2>4. CASE had[s] = {}
    <3>1. Port!Active(s) = {} /\ Port!Whole(s) = {}
      BY <1>3, <1>10, <2>4 DEF Port!Whole
    <3>2. Port!Reserved(s, 0) = 0
      BY <3>1, ReservedIs, SumEmpty
    <3> QED
      BY <2>1, <2>2, <2>3, <3>1, <3>2
  <2>5. CASE had[s] # {}
    <3>1. had[s] \subseteq had'[s]
      BY <1>3
    <3>2. /\ Port!Reserved(s, 0) <= Port!Max(had[s])
          /\ Port!Whole(s) # {} => Port!Cardinality(Port!Active(s)) = 1
      BY <2>5, <3>1 DEF PortInv, Port!CapacityKept
    <3>3. Port!Max(had[s]) \in had[s]
      <4>1. PICK m \in had[s] : \A x \in had[s] : x <= m
        BY <2>5, <3>1 DEF PortInv, Highest
      <4> QED
        BY <2>1, <3>1, <4>1, MaxIs
    <3>4. Port!Max(had[s]) <= Port!Max(had'[s])
      BY <2>2, <3>1, <3>3
    <3>5. Port!Reserved(s, 0) \in Int
      BY AmountsType DEF PortInv, ActiveFinite
    <3>6. Port!Max(had[s]) \in Int /\ Port!Max(had'[s]) \in Int
      BY <2>1, <2>2, <3>1, <3>3
    <3>7. Port!Reserved(s, 0) <= Port!Max(had'[s])
      BY <3>2, <3>4, <3>5, <3>6
    <3> QED
      BY <2>3, <3>2, <3>7
  <2> QED
    BY <2>4, <2>5
<1>13. Checked'
  <2> SUFFICES ASSUME NEW d \in Calls, NEW x \in Port!Requests, pc'[d] = "save", request'[d] = x
               PROVE  IF x.op = "reserve"
                        THEN Port!Available(x)'
                        ELSE found'[d] \in Port!Active(x.resource)'
    BY DEF Checked
  <2>1. IF x.op = "reserve" THEN Port!Available(x) ELSE found[d] \in Port!Active(x.resource)
    BY <1>1, <1>3 DEF PortInv, Checked
  <2>2. Port!Active(x.resource)' = Port!Active(x.resource)
    BY <1>1 DEF Port!Active
  <2>3. Port!Available(x)' = Port!Available(x)
    <3>1. CASE x.capacity = None
      BY <3>1 DEF Port!Available
    <3>2. CASE x.capacity # None
      <4>1. PICK s \in Resources, w \in Int : s = x.resource /\ w = x.capacity
        BY <3>2 DEF Port!Requests, Port!ReservationsAssumption
      <4>2. Port!Reserved(s, w)' = Port!Reserved(s, w)
        BY <1>9
      <4> QED
        BY <4>1, <4>2 DEF Port!Available
    <3> QED
      BY <3>1, <3>2
  <2> QED
    BY <1>1, <2>1, <2>2, <2>3
<1>14. ReleasedApart'
  BY <1>1, <1>3 DEF PortInv, ReleasedApart, Releases
<1>15. EventsTold'
  BY <1>1, <1>3 DEF PortInv, EventsTold, Port!TypeOK, Port!AuditEvents
<1> QED
  BY <1>2, <1>5, <1>6, <1>8, <1>11, <1>12, <1>13, <1>14, <1>15 DEF PortInv

\* An audit event is recorded, or its write throws.
LEMMA RecordStep ==
  ASSUME Port!ReservationsAssumption, PortInv, NEW c \in Calls, pc[c] = "record",
         NEW to \in {"done", "failed"}, pc' = [pc EXCEPT ![c] = to],
         \/ events' = events
         \/ /\ to = "done"
            /\ events' = events \cup
                 {IF request[c].op = "reserve"
                    THEN [type |-> "ResourceReserved", reservation |-> c, by |-> c]
                    ELSE [type |-> "ResourceReservationReleased",
                          reservation |-> found[c], by |-> c]},
         UNCHANGED <<capacity, had, reservations, lock, Port!local>>, faults' \in 0..MaxFaults
  PROVE  PortInv'
<1>1. /\ request[c] # None /\ request[c].op \in {"reserve", "release"}
      /\ request' = request /\ found' = found
      /\ UNCHANGED <<capacity, had, reservations, lock>>
  BY RequestType DEF PortInv, Requested, Port!local
<1>2. /\ pc'[c] = to /\ \A d \in Calls \ {c} : pc'[d] = pc[d]
  BY DEF PortInv, Port!TypeOK
<1>3. request[c].op = "release" => found[c] \in Calls
  BY <1>1 DEF PortInv, ReleasedApart, Releases
<1>4. /\ ActiveFinite' /\ Highest' /\ Port!CapacityKept'
      /\ \A r \in Resources : Port!Active(r)' = Port!Active(r)
      /\ \A q \in Port!Requests : Port!Available(q)' = Port!Available(q)
  BY <1>1, QuietKeeps
<1>5. Port!TypeOK'
  BY <1>1, <1>3 DEF PortInv, Port!TypeOK, Port!AuditEvents
<1>6. Requested' /\ Locking' /\ Made'
  BY <1>1, <1>2 DEF PortInv, Requested, Locking, Made, Entered
<1>7. Checked'
  <2> SUFFICES ASSUME NEW d \in Calls, NEW q \in Port!Requests, pc'[d] = "save", request'[d] = q
               PROVE  IF q.op = "reserve"
                        THEN Port!Available(q)'
                        ELSE found'[d] \in Port!Active(q.resource)'
    BY DEF Checked
  <2>1. q.resource \in Resources
    BY DEF Port!Requests
  <2>2. IF q.op = "reserve" THEN Port!Available(q) ELSE found[d] \in Port!Active(q.resource)
    BY <1>1, <1>2 DEF PortInv, Checked
  <2> QED
    BY <1>1, <1>4, <2>1, <2>2
<1>8. \A d \in Calls : Releases(d)' => Releases(d)
  BY <1>1, <1>2 DEF Releases
<1>9. ReleasedApart'
  BY <1>1, <1>8 DEF PortInv, ReleasedApart
<1>10. EventsTold'
  <2> SUFFICES ASSUME NEW e \in events'
               PROVE  /\ pc'[e.by] = "done" /\ request[e.by] # None
                      /\ IF e.type = "ResourceReserved"
                           THEN request[e.by].op = "reserve" /\ e.reservation = e.by
                           ELSE request[e.by].op = "release" /\ e.reservation = found[e.by]
    BY <1>1 DEF EventsTold
  <2>1. CASE e \in events
    BY <1>2, <2>1 DEF PortInv, EventsTold, Port!TypeOK, Port!AuditEvents
  <2>2. CASE e \notin events
    BY <1>1, <1>2, <2>2
  <2> QED
    BY <2>1, <2>2
<1> QED
  BY <1>4, <1>5, <1>6, <1>7, <1>9, <1>10 DEF PortInv

(***************************************************************************)
(* A reservation is written.  No one else was at the port since it was     *)
(* checked: with the capacity the caller brought it fits into what is left *)
(* of that, and so into the highest capacity there was.                    *)
(***************************************************************************)
LEMMA ReserveStep ==
  ASSUME Port!ReservationsAssumption, PortInv, NEW c \in Calls, Port!Reserve(c)
  PROVE  PortInv'
<1>0. PICK q \in Port!Requests : q = request[c]
  BY RequestType DEF Port!Reserve, Port!Goto
<1> DEFINE r == q.resource
           a == [resource |-> r, item |-> q.item, quantity |-> q.quantity, status |-> "active"]
<1>1. /\ q # None /\ q.op = "reserve" /\ pc[c] = "save"
      /\ pc' = [pc EXCEPT ![c] = "record"]
      /\ reservations' = [reservations EXCEPT ![c] = a]
      /\ lock' = [lock EXCEPT ![r] = None]
      /\ UNCHANGED <<capacity, had, request, found, events, faults>>
  BY <1>0 DEF Port!Reserve, Port!Goto, Port!Leave, Port!local
<1>2. /\ q \in Port!Requests /\ r \in Resources /\ q.capacity \in had[r]
      /\ q.quantity \in Int \cup {None}
  BY <1>0, <1>1, RequestType DEF Port!Requests, Port!ReservationsAssumption
<1>3. a \in Port!Reservation /\ a # None
  BY <1>2 DEF Port!Requests, Port!Reservation, Port!ReservationsAssumption
<1>4. Port!TypeOK'
  BY <1>1, <1>2, <1>3 DEF PortInv, Port!TypeOK
<1>5. /\ pc'[c] = "record" /\ \A d \in Calls \ {c} : pc'[d] = pc[d]
      /\ reservations'[c] = a /\ reservations[c] = None
      /\ \A d \in Calls \ {c} : reservations'[d] = reservations[d]
  BY <1>1 DEF PortInv, Port!TypeOK, Made
<1>6. Port!Available(q)
  BY <1>0, <1>1, <1>2 DEF PortInv, Checked
<1>7. Requested'
  BY <1>1, <1>5 DEF PortInv, Requested
<1>8. Locking'
  <2> SUFFICES ASSUME NEW d \in Calls, pc'[d] \in Entered PROVE lock'[request[d].resource] = d
    BY <1>1 DEF Locking
  <2>1. d # c /\ pc[d] \in Entered
    BY <1>5 DEF Entered
  <2>2. request[d].resource # r /\ request[d].resource \in Resources
    BY <1>0, <1>1, <2>1, EnteredAlone, RequestType DEF Entered
  <2>3. lock[request[d].resource] = d
    BY <2>1 DEF PortInv, Locking
  <2> QED
    BY <1>1, <2>2, <2>3 DEF PortInv, Port!TypeOK
<1>9. Made'
  <2>1. q.quantity # None => q.quantity > 0
    BY <1>6 DEF Port!Available
  <2> QED
    BY <1>0, <1>1, <1>3, <1>5, <2>1 DEF PortInv, Made
<1>10. /\ Port!Active(r)' = Port!Active(r) \cup {c} /\ c \notin Port!Active(r)
       /\ \A s \in Resources \ {r} : /\ Port!Active(s)' = Port!Active(s)
                                     /\ Port!Whole(s)' = Port!Whole(s)
       /\ \A s \in Resources : \A d \in Port!Active(s) :
            reservations'[d].quantity = reservations[d].quantity
       /\ Port!Whole(r)' = IF q.quantity = None THEN Port!Whole(r) \cup {c} ELSE Port!Whole(r)
  <2>1. c \notin Port!Active(r) /\ \A s \in Resources : c \notin Port!Active(s)
    BY <1>5 DEF Port!Active
  <2>2. Port!Active(r)' = Port!Active(r) \cup {c}
    BY <1>3, <1>5 DEF Port!Active
  <2>3. \A s \in Resources \ {r} : /\ Port!Active(s)' = Port!Active(s)
                                   /\ Port!Whole(s)' = Port!Whole(s)
    BY <1>3, <1>5 DEF Port!Active, Port!Whole
  <2>4. \A s \in Resources : \A d \in Port!Active(s) :
          reservations'[d].quantity = reservations[d].quantity
    BY <1>5, <2>1 DEF Port!Active
  <2>5. Port!Whole(r)' = IF q.quantity = None THEN Port!Whole(r) \cup {c} ELSE Port!Whole(r)
    BY <1>5, <2>1, <2>2 DEF Port!Whole, Port!Active
  <2> QED
    BY <2>1, <2>2, <2>3, <2>4, <2>5
<1>11. ActiveFinite'
  <2>1. IsFiniteSet(Port!Active(r) \cup {c})
    BY <1>2, FS_AddElement DEF PortInv, ActiveFinite
  <2> QED
    BY <1>10, <2>1 DEF PortInv, ActiveFinite
<1>12. Highest'
  BY <1>1 DEF PortInv, Highest
<1> HIDE DEF a
<1>13. Port!CapacityKept'
  <2> SUFFICES ASSUME NEW s \in Resources, had[s] # {}, None \notin had[s],
                      \A x \in had[s] : x > 0
               PROVE  /\ Port!Reserved(s, 0)' <= Port!Max(had[s])
                      /\ Port!Whole(s)' # {} => Port!Cardinality(Port!Active(s)') = 1
    BY <1>1 DEF Port!CapacityKept
  <2>1. CASE s # r
    <3>1. Port!Reserved(s, 0)' = Port!Reserved(s, 0)
      BY <1>10, <2>1, ReservedSame DEF PortInv, ActiveFinite
    <3> QED
      BY <1>10, <2>1, <3>1 DEF PortInv, Port!CapacityKept
  <2>2. CASE s = r
    <3>0. IsFiniteSet(Port!Active(s))
      BY DEF PortInv, ActiveFinite
    <3>1. PICK w \in Nat : w = q.capacity /\ w > 0 /\ w \in had[s]
      <4>1. q.capacity \in Int /\ q.capacity > 0
        BY <1>2, <2>2 DEF Port!Requests, Port!ReservationsAssumption
      <4> QED
        BY <1>2, <2>2, <4>1
    <3>2. w <= Port!Max(had[s]) /\ Port!Max(had[s]) \in Int
      <4>1. had[s] \subseteq Int
        <5>1. had[s] \subseteq Capacities \cup {None}
          BY DEF PortInv, Port!TypeOK
        <5> QED
          BY <5>1 DEF Port!ReservationsAssumption
      <4>2. PICK m \in had[s] : \A x \in had[s] : x <= m
        BY DEF PortInv, Highest
      <4> QED
        BY <3>1, <4>1, <4>2, MaxIs
    <3>3. Port!Reserved(s, w) + Port!Amount(q.quantity, w) <= w
      BY <1>6, <2>2, <3>1, <1>2 DEF Port!Available, Port!ReservationsAssumption
    <3>4. /\ Port!Reserved(s, 0) <= Port!Reserved(s, w)
          /\ Port!Reserved(s, w) \in Nat /\ Port!Reserved(s, 0) \in Nat
          /\ Port!Whole(s) # {} => w <= Port!Reserved(s, w)
          /\ Port!Active(s) # {} => Port!Reserved(s, w) > 0
      BY <3>0, <3>1, ReservedBounds DEF PortInv
    <3>5. Port!Reserved(s, 0)' = Port!Amount(q.quantity, 0) + Port!Reserved(s, 0)
      <4>1. reservations'[c].quantity = q.quantity
        BY <1>5 DEF a
      <4>2. PICK n \in Int \cup {None} : n = q.quantity
        BY <1>2
      <4>3. Port!Reserved(s, 0)' = Port!Amount(n, 0) + Port!Reserved(s, 0)
        <5>1. /\ c \notin Port!Active(s) /\ Port!Active(s)' = Port!Active(s) \cup {c}
              /\ \A d \in Port!Active(s) : reservations'[d].quantity = reservations[d].quantity
          BY <1>10, <2>2
        <5>2. reservations'[c].quantity = n /\ 0 \in Int /\ Port!TypeOK
          BY <4>1, <4>2 DEF PortInv
        <5> HIDE DEF r
        <5> QED
          BY <3>0, <5>1, <5>2, ReservedGrows
      <4> QED
        BY <4>2, <4>3
    <3>6. CASE q.quantity = None
      <4>1. Port!Reserved(s, w) + w <= w
        BY <3>3, <3>6 DEF Port!Amount
      <4>2. Port!Active(s) = {} /\ Port!Reserved(s, 0) = 0
        BY <3>4, <4>1
      <4>3. Port!Active(s)' = {c} /\ Port!Cardinality({c}) = 1
        BY <1>10, <2>2, <4>2, FS_Singleton, PortCounts
      <4>4. Port!Reserved(s, 0)' = 0
        BY <3>5, <3>6, <4>2 DEF Port!Amount
      <4> QED
        BY <3>1, <3>2, <4>3, <4>4
    <3>7. CASE q.quantity # None
      <4>1. /\ q.quantity \in Int /\ q.quantity > 0
            /\ Port!Reserved(s, w) + q.quantity <= w
        BY <1>2, <1>6, <3>3, <3>7 DEF Port!Amount, Port!Available
      <4>2. Port!Whole(s) = {}
        BY <3>1, <3>4, <4>1
      <4>3. Port!Reserved(s, 0)' = q.quantity + Port!Reserved(s, 0)
        BY <3>5, <3>7 DEF Port!Amount
      <4>4. Port!Reserved(s, 0)' <= Port!Max(had[s])
        BY <3>1, <3>2, <3>4, <4>1, <4>3
      <4> QED
        BY <1>10, <2>2, <3>7, <4>2, <4>4
    <3> QED
      BY <3>6, <3>7
  <2> QED
    BY <2>1, <2>2
<1>14. Checked'
  <2> SUFFICES ASSUME NEW d \in Calls, NEW x \in Port!Requests, pc'[d] = "save", request[d] = x
               PROVE  IF x.op = "reserve"
                        THEN Port!Available(x)'
                        ELSE found[d] \in Port!Active(x.resource)'
    BY <1>1 DEF Checked
  <2>1. d # c /\ pc[d] = "save"
    BY <1>5
  <2>2. x.resource # r /\ x.resource \in Resources
    BY <1>0, <1>1, <2>1, EnteredAlone DEF Entered, Port!Requests
  <2>3. IF x.op = "reserve" THEN Port!Available(x) ELSE found[d] \in Port!Active(x.resource)
    BY <2>1 DEF PortInv, Checked
  <2>4. PICK s \in Resources \ {r} : s = x.resource
    BY <2>2
  <2>5. Port!Active(s)' = Port!Active(s)
    BY <1>10
  <2>6. x.op = "reserve" => Port!Available(x)'
    <3>1. CASE x.capacity = None
      BY <2>3, <3>1 DEF Port!Available
    <3>2. CASE x.capacity # None
      <4>1. PICK w \in Int : w = x.capacity
        BY <3>2 DEF Port!Requests, Port!ReservationsAssumption
      <4>2. Port!Reserved(s, w)' = Port!Reserved(s, w)
        BY <1>10, <2>5, ReservedSame DEF PortInv, ActiveFinite
      <4> QED
        BY <2>3, <2>4, <4>1, <4>2 DEF Port!Available
    <3> QED
      BY <3>1, <3>2
  <2> QED
    BY <2>3, <2>4, <2>5, <2>6
<1>15. ReleasedApart'
  <2>1. \A d \in Calls : Releases(d)' => Releases(d) /\ d # c
    BY <1>0, <1>1, <1>5 DEF Releases
  <2>2. \A d \in Calls : Releases(d) => found[d] # c
    BY <1>5 DEF PortInv, ReleasedApart
  <2> QED
    BY <1>1, <1>5, <2>1, <2>2 DEF PortInv, ReleasedApart
<1>16. EventsTold'
  BY <1>1, <1>5 DEF PortInv, EventsTold, Port!TypeOK, Port!AuditEvents
<1> QED
  BY <1>4, <1>7, <1>8, <1>9, <1>11, <1>12, <1>13, <1>14, <1>15, <1>16 DEF PortInv

(***************************************************************************)
(* A release is written.  The reservation found is still active, so that   *)
(* no other call has released it.                                          *)
(***************************************************************************)
LEMMA ReleaseStep ==
  ASSUME Port!ReservationsAssumption, PortInv, NEW c \in Calls, Port!Release(c)
  PROVE  PortInv'
<1>0. PICK q \in Port!Requests : q = request[c]
  BY RequestType DEF Port!Release, Port!Goto
<1> DEFINE r == q.resource
<1>1. /\ q # None /\ q.op = "release" /\ pc[c] = "save"
      /\ pc' = [pc EXCEPT ![c] = "record"]
      /\ reservations' = [reservations EXCEPT ![found[c]].status = "released"]
      /\ lock' = [lock EXCEPT ![r] = None]
      /\ UNCHANGED <<capacity, had, request, found, events, faults>>
  BY <1>0 DEF Port!Release, Port!Goto, Port!Leave, Port!local
<1>2. r \in Resources
  BY DEF Port!Requests
<1>3. PICK m \in Calls : m = found[c] /\ m \in Port!Active(r)
  BY <1>0, <1>1 DEF PortInv, Checked, Port!Active
<1>4. /\ reservations[m] \in Port!Reservation /\ reservations[m] # None
      /\ reservations[m].status = "active" /\ reservations[m].resource = r
  BY <1>3 DEF PortInv, Port!TypeOK, Port!Active
<1> DEFINE a == [reservations[m] EXCEPT !.status = "released"]
<1>5. /\ a \in Port!Reservation /\ a # None /\ a.status = "released"
      /\ a.resource = r /\ a.quantity = reservations[m].quantity
  BY <1>4 DEF Port!Reservation, Port!ReservationsAssumption
<1> HIDE DEF a
<1>6. reservations' = [reservations EXCEPT ![m] = a]
  BY <1>1, <1>3 DEF a
<1>7. Port!TypeOK'
  BY <1>1, <1>2, <1>5, <1>6 DEF PortInv, Port!TypeOK
<1>8. /\ pc'[c] = "record" /\ \A d \in Calls \ {c} : pc'[d] = pc[d]
      /\ reservations'[m] = a
      /\ \A d \in Calls \ {m} : reservations'[d] = reservations[d]
  BY <1>1, <1>6 DEF PortInv, Port!TypeOK
<1>9. reservations[c] = None /\ m # c
  BY <1>1, <1>4 DEF PortInv, Made
<1>10. Requested'
  BY <1>1, <1>8 DEF PortInv, Requested
<1>11. Locking'
  <2> SUFFICES ASSUME NEW d \in Calls, pc'[d] \in Entered PROVE lock'[request[d].resource] = d
    BY <1>1 DEF Locking
  <2>1. d # c /\ pc[d] \in Entered
    BY <1>8 DEF Entered
  <2>2. request[d].resource # r /\ request[d].resource \in Resources
    BY <1>0, <1>1, <2>1, EnteredAlone, RequestType DEF Entered
  <2>3. lock[request[d].resource] = d
    BY <2>1 DEF PortInv, Locking
  <2> QED
    BY <1>1, <2>2, <2>3 DEF PortInv, Port!TypeOK
<1>12. Made'
  <2> SUFFICES ASSUME NEW d \in Calls
               PROVE  /\ reservations'[d] # None =>
                           /\ pc'[d] \in {"record", "done", "failed"}
                           /\ request[d] # None /\ reservations'[d].resource = request[d].resource
                           /\ reservations'[d].quantity # None => reservations'[d].quantity > 0
                      /\ pc'[d] \in {"record", "done"} /\ request[d].op = "reserve" =>
                           reservations'[d] # None
    BY <1>1 DEF Made
  <2>1. CASE d = c
    BY <1>0, <1>1, <1>8, <1>9, <2>1
  <2>2. CASE d = m
    BY <1>4, <1>5, <1>8, <1>9, <2>2 DEF PortInv, Made
  <2>3. CASE d # c /\ d # m
    BY <1>8, <2>3 DEF PortInv, Made
  <2> QED
    BY <2>1, <2>2, <2>3
<1>13. /\ Port!Active(r)' = Port!Active(r) \ {m}
       /\ \A s \in Resources \ {r} : /\ Port!Active(s)' = Port!Active(s)
                                     /\ Port!Whole(s)' = Port!Whole(s)
       /\ \A s \in Resources : \A d \in Port!Active(s) :
            reservations'[d].quantity = reservations[d].quantity
       /\ Port!Whole(r)' \subseteq Port!Whole(r)
  <2>1. Port!Active(r)' = Port!Active(r) \ {m}
    BY <1>5, <1>8 DEF Port!Active
  <2>2. \A s \in Resources \ {r} : Port!Active(s)' = Port!Active(s)
    BY <1>4, <1>5, <1>8 DEF Port!Active
  <2>3. \A s \in Resources : \A d \in Port!Active(s) :
          reservations'[d].quantity = reservations[d].quantity
    BY <1>5, <1>8 DEF Port!Active
  <2>4. \A s \in Resources \ {r} : Port!Whole(s)' = Port!Whole(s)
    BY <2>2, <2>3 DEF Port!Whole
  <2>5. Port!Whole(r)' \subseteq Port!Whole(r)
    BY <1>2, <2>1, <2>3 DEF Port!Whole
  <2> QED
    BY <2>1, <2>2, <2>3, <2>4, <2>5
<1>14. ActiveFinite'
  <2>1. IsFiniteSet(Port!Active(r) \ {m})
    BY <1>2, FS_RemoveElement DEF PortInv, ActiveFinite
  <2> QED
    BY <1>13, <2>1 DEF PortInv, ActiveFinite
<1>15. Highest'
  BY <1>1 DEF PortInv, Highest
<1>16. Port!CapacityKept'
  <2> SUFFICES ASSUME NEW s \in Resources, had[s] # {}, None \notin had[s],
                      \A x \in had[s] : x > 0
               PROVE  /\ Port!Reserved(s, 0)' <= Port!Max(had[s])
                      /\ Port!Whole(s)' # {} => Port!Cardinality(Port!Active(s)') = 1
    BY <1>1 DEF Port!CapacityKept
  <2>0. /\ Port!Reserved(s, 0) <= Port!Max(had[s])
        /\ Port!Whole(s) # {} => Port!Cardinality(Port!Active(s)) = 1
    BY DEF PortInv, Port!CapacityKept
  <2>1. CASE s # r
    <3>1. Port!Reserved(s, 0)' = Port!Reserved(s, 0)
      BY <1>13, <2>1, ReservedSame DEF PortInv, ActiveFinite
    <3> QED
      BY <1>13, <2>0, <2>1, <3>1
  <2>2. CASE s = r
    <3>0. IsFiniteSet(Port!Active(s)) /\ Port!TypeOK /\ Made
      BY DEF PortInv, ActiveFinite
    <3>1. Port!Max(had[s]) \in Int
      <4>1. had[s] \subseteq Int
        <5>1. had[s] \subseteq Capacities \cup {None}
          BY DEF PortInv, Port!TypeOK
        <5> QED
          BY <5>1 DEF Port!ReservationsAssumption
      <4>2. PICK x \in had[s] : \A y \in had[s] : y <= x
        BY DEF PortInv, Highest
      <4> QED
        BY <4>1, <4>2, MaxIs
    <3>2. Port!Reserved(s, 0) = Port!Amount(reservations[m].quantity, 0) + Port!Reserved(s, 0)'
      <4>1. /\ m \in Port!Active(s) /\ Port!Active(s)' = Port!Active(s) \ {m}
            /\ \A d \in Port!Active(s) : reservations'[d].quantity = reservations[d].quantity
        BY <1>3, <1>13, <2>2
      <4> HIDE DEF r
      <4> QED
        BY <3>0, <4>1, ReservedShrinks
    <3>3. Port!Amount(reservations[m].quantity, 0) \in Nat
      <4>1. /\ reservations[m].quantity \in Int \cup {None}
            /\ reservations[m].quantity # None => reservations[m].quantity > 0
        BY <1>4, <3>0 DEF Port!Reservation, Port!ReservationsAssumption, Made
      <4> QED
        BY <4>1 DEF Port!Amount
    <3>4. Port!Reserved(s, 0) \in Int /\ Port!Reserved(s, 0)' \in Int
      <4>1. Port!Reserved(s, 0) \in Int
        BY <3>0, AmountsType
      <4>2. Port!TypeOK' /\ IsFiniteSet(Port!Active(s))'
        BY <1>7, <1>14 DEF ActiveFinite
      <4>3. \A d \in Port!Active(s)' : Amounts(s, 0)'[d] \in Int
        <5>1. ASSUME NEW d \in Port!Active(s)' PROVE Amounts(s, 0)'[d] \in Int
          <6>1. d \in Port!Active(s) /\ reservations'[d].quantity = reservations[d].quantity
            BY <1>13, <2>2
          <6>2. Amounts(s, 0)'[d] = Amounts(s, 0)[d]
            BY <6>1 DEF Amounts
          <6> QED
            BY <3>0, <6>1, <6>2, AmountsType
        <5> QED
          BY <5>1
      <4>4. Port!Reserved(s, 0)' = SumFunctionOnSet(Amounts(s, 0)', Port!Active(s)')
        BY PortSums DEF Port!Reserved, Amounts
      <4> QED
        BY <4>1, <4>2, <4>3, <4>4, SumType
    <3>5. Port!Reserved(s, 0)' <= Port!Max(had[s])
      BY <2>0, <3>1, <3>2, <3>3, <3>4
    <3>6. Port!Whole(s)' = {}
      <4> SUFFICES ASSUME NEW w \in Port!Whole(s)' PROVE FALSE
        OBVIOUS
      <4>1. w \in Port!Whole(s) /\ w \in Port!Active(s) /\ w # m
        BY <1>13, <2>2 DEF Port!Whole
      <4>2. PICK x : Port!Active(s) = {x}
        BY <2>0, <3>0, <4>1, FS_Singleton, PortCounts
      <4> QED
        BY <1>3, <2>2, <4>1, <4>2
    <3> QED
      BY <3>5, <3>6
  <2> QED
    BY <2>1, <2>2
<1>17. Checked'
  <2> SUFFICES ASSUME NEW d \in Calls, NEW x \in Port!Requests, pc'[d] = "save", request[d] = x
               PROVE  IF x.op = "reserve"
                        THEN Port!Available(x)'
                        ELSE found[d] \in Port!Active(x.resource)'
    BY <1>1 DEF Checked
  <2>1. d # c /\ pc[d] = "save"
    BY <1>8
  <2>2. x.resource # r /\ x.resource \in Resources
    BY <1>0, <1>1, <2>1, EnteredAlone DEF Entered, Port!Requests
  <2>3. IF x.op = "reserve" THEN Port!Available(x) ELSE found[d] \in Port!Active(x.resource)
    BY <2>1 DEF PortInv, Checked
  <2>4. PICK s \in Resources \ {r} : s = x.resource
    BY <2>2
  <2>5. Port!Active(s)' = Port!Active(s)
    BY <1>13
  <2>6. x.op = "reserve" => Port!Available(x)'
    <3>1. CASE x.capacity = None
      BY <2>3, <3>1 DEF Port!Available
    <3>2. CASE x.capacity # None
      <4>1. PICK w \in Int : w = x.capacity
        BY <3>2 DEF Port!Requests, Port!ReservationsAssumption
      <4>2. Port!Reserved(s, w)' = Port!Reserved(s, w)
        BY <1>13, <2>5, ReservedSame DEF PortInv, ActiveFinite
      <4> QED
        BY <2>3, <2>4, <4>1, <4>2 DEF Port!Available
    <3> QED
      BY <3>1, <3>2
  <2> QED
    BY <2>3, <2>4, <2>5, <2>6
<1>18. ReleasedApart'
  <2>1. \A d \in Calls : Releases(d)' <=> Releases(d) \/ d = c
    BY <1>0, <1>1, <1>8 DEF Releases
  <2>2. \A d \in Calls : Releases(d) => found[d] # m /\ d # c
    BY <1>1, <1>4 DEF PortInv, ReleasedApart, Releases
  <2> QED
    BY <1>1, <1>3, <1>5, <1>8, <2>1, <2>2 DEF PortInv, ReleasedApart
<1>19. EventsTold'
  BY <1>1, <1>8 DEF PortInv, EventsTold, Port!TypeOK, Port!AuditEvents
<1> QED
  BY <1>7, <1>10, <1>11, <1>12, <1>14, <1>15, <1>16, <1>17, <1>18, <1>19 DEF PortInv

-----------------------------------------------------------------------------
\* The invariant is inductive.
LEMMA PortStep ==
  ASSUME Port!ReservationsAssumption
  PROVE  PortInv /\ [Port!Next]_Port!vars => PortInv'
<1> SUFFICES ASSUME PortInv, [Port!Next]_Port!vars PROVE PortInv'
  OBVIOUS
<1>f. faults \in 0..MaxFaults
  BY DEF PortInv, Port!TypeOK
<1>1. ASSUME NEW c \in Calls, Port!Refuse(c) PROVE PortInv'
  BY <1>1, <1>f, LeaveStep DEF Port!Refuse, Port!Goto, Entered
<1>2. ASSUME NEW c \in Calls, Port!Record(c) PROVE PortInv'
  BY <1>2, <1>f, RecordStep DEF Port!Record, Port!Goto
<1>3. ASSUME NEW c \in Calls, Port!StoreFails(c) PROVE PortInv'
  <2>1. faults' \in 0..MaxFaults
    BY <1>3, <1>f DEF Port!StoreFails, Port!ReservationsAssumption
  <2>2. CASE Port!Goto(c, "save", "failed") /\ Port!Leave(c)
    BY <1>3, <2>1, <2>2, LeaveStep DEF Port!StoreFails, Port!Goto, Entered
  <2>3. CASE Port!Goto(c, "record", "failed") /\ UNCHANGED lock
    BY <1>3, <2>1, <2>3, RecordStep DEF Port!StoreFails, Port!Goto
  <2> QED
    BY <1>3, <2>2, <2>3 DEF Port!StoreFails
<1>4. CASE UNCHANGED Port!vars
  <2>1. UNCHANGED <<capacity, had, reservations, lock, pc, request, found, events, faults>>
    BY <1>4 DEF Port!vars
  <2>2. /\ ActiveFinite' /\ Highest' /\ Port!CapacityKept'
        /\ \A r \in Resources : Port!Active(r)' = Port!Active(r)
        /\ \A q \in Port!Requests : Port!Available(q)' = Port!Available(q)
    BY <2>1, QuietKeeps
  <2>3. Port!TypeOK' /\ Requested' /\ Locking' /\ Made'
    BY <2>1 DEF PortInv, Port!TypeOK, Requested, Locking, Made
  <2>4. Checked'
    <3> SUFFICES ASSUME NEW d \in Calls, NEW q \in Port!Requests, pc[d] = "save", request[d] = q
                 PROVE  IF q.op = "reserve"
                          THEN Port!Available(q)'
                          ELSE found[d] \in Port!Active(q.resource)'
      BY <2>1 DEF Checked
    <3>1. q.resource \in Resources
      BY DEF Port!Requests
    <3> QED
      BY <2>2, <3>1 DEF PortInv, Checked
  <2>5. ReleasedApart' /\ EventsTold'
    BY <2>1 DEF PortInv, ReleasedApart, Releases, EventsTold
  <2> QED
    BY <2>2, <2>3, <2>4, <2>5 DEF PortInv
<1> QED
  BY <1>1, <1>2, <1>3, <1>4, CreateStep, LoadStep, LockStep, CheckStep, ReserveStep, ReleaseStep
     DEF Port!Next

\* What is told of releases follows from who has released what.
LEMMA PortKept == PortInv => ReservationsKept
<1> SUFFICES ASSUME PortInv PROVE Port!ReleasedOnce
  BY DEF PortInv, ReservationsKept, Port!ReservationsKept
<1> SUFFICES ASSUME NEW e \in events
             PROVE  /\ reservations[e.reservation] # None
                    /\ e.type = "ResourceReservationReleased" =>
                         /\ reservations[e.reservation].status = "released"
                         /\ \A f \in events :
                              f.type = e.type /\ f.reservation = e.reservation => f = e
  BY DEF Port!ReleasedOnce
<1>1. events \subseteq Port!AuditEvents
  BY DEF PortInv, Port!TypeOK
<1>2. CASE e.type = "ResourceReserved"
  BY <1>1, <1>2 DEF PortInv, EventsTold, Made, Port!AuditEvents
<1>3. CASE e.type = "ResourceReservationReleased"
  <2>1. \A f \in events : f.type = e.type => f.by \in Calls /\ Releases(f.by)
                                             /\ f.reservation = found[f.by]
    BY <1>1, <1>3 DEF PortInv, EventsTold, Releases, Port!AuditEvents
  <2>2. /\ reservations[e.reservation] # None
        /\ reservations[e.reservation].status = "released"
    BY <2>1 DEF PortInv, ReleasedApart
  <2>3. ASSUME NEW f \in events, f.type = e.type, f.reservation = e.reservation PROVE f = e
    <3>1. f.by = e.by
      BY <2>1, <2>3 DEF PortInv, ReleasedApart
    <3> QED
      BY <1>1, <2>3, <3>1 DEF Port!AuditEvents
  <2> QED
    BY <2>2, <2>3
<1> QED
  BY <1>1, <1>2, <1>3 DEF Port!AuditEvents

(***************************************************************************)
(* The variables of the port and its callers keep their types.             *)
(***************************************************************************)
THEOREM PortTyped ==
  ASSUME Port!ReservationsAssumption
  PROVE  Port!Spec => []Port!TypeOK
<1>1. PortInv => Port!TypeOK
  BY DEF PortInv
<1> QED
  BY <1>1, PortInit, PortStep, PTL DEF Port!Spec

(***************************************************************************)
(* A resource is not overbooked, although each caller brings the capacity  *)
(* it has read, and a reservation is released once (the lock of the        *)
(* resource from the check to the write).                                  *)
(***************************************************************************)
THEOREM NothingOverbooked ==
  ASSUME Port!ReservationsAssumption
  PROVE  Port!Spec => []ReservationsKept
BY PortInit, PortStep, PortKept, PTL DEF Port!Spec

-----------------------------------------------------------------------------
(***************************************************************************)
(* The process manager.                                                    *)
(***************************************************************************)
\* A handler that has seen the last save has a copy of what is stored.
UpToDate ==
  \A h \in Handlers :
    /\ read[h] <= saves
    /\ copy[h] # None /\ read[h] = saves => copy[h] = instance

ManagerInv == Manager!TypeOK /\ UpToDate

\* The instance q does not go back on what p says has ended.
Ends(p, q) ==
  /\ p.status \in {"completed", "cancelled", "compensated"} => q = p
  /\ p.status = "failed" => q.status \in {"failed", "compensating"}
  /\ p.status = "compensating" => q.status \in {"compensating", "compensated"}
  /\ \A s \in Steps : q.attempts[s] >= p.attempts[s]
  /\ \A t \in Timeouts : p.timeouts[t] # None => q.timeouts[t] # None

Following(p) == {q \in Manager!Instance : Ends(p, q)}

\* What a step may make of the stored instance.
Kept == lost' \/ Ends(instance, instance')

(***************************************************************************)
(* A handler that saves what follows from its copy keeps the invariant,    *)
(* and what is stored follows from what was, unless a save is lost.        *)
(***************************************************************************)
LEMMA SaveKeeps ==
  ASSUME Manager!ProcessesAssumption, ManagerInv, NEW h \in Handlers, copy[h] # None,
         NEW p \in Following(copy[h]), Manager!Save(h, p)
  PROVE  ManagerInv' /\ Kept
<1>1. Manager!TypeOK'
  BY DEF Following, ManagerInv, Manager!TypeOK, Manager!Save, Manager!ProcessesAssumption
<1>2. saves \in 0..MaxSaves /\ saves' = saves + 1
  BY DEF ManagerInv, Manager!TypeOK, Manager!Save
<1>3. ASSUME NEW g \in Handlers PROVE read'[g] <= saves' /\ (copy'[g] # None => read'[g] # saves')
  <2>1. g # h => read'[g] = read[g] /\ copy'[g] = copy[g]
    BY DEF ManagerInv, Manager!TypeOK, Manager!Save
  <2>2. g = h => read'[g] = 0 /\ copy'[g] = None
    BY DEF ManagerInv, Manager!TypeOK, Manager!Save
  <2>3. read[g] \in 0..MaxSaves /\ read[g] <= saves
    BY DEF ManagerInv, Manager!TypeOK, UpToDate
  <2> QED
    BY <1>2, <2>1, <2>2, <2>3
<1>4. Kept
  <2> SUFFICES ASSUME ~lost' PROVE Ends(instance, instance')
    BY DEF Kept
  <2>1. read[h] = saves /\ instance' = p
    BY DEF Manager!Save
  <2>2. copy[h] = instance
    BY <2>1 DEF ManagerInv, UpToDate
  <2> QED
    BY <2>1, <2>2 DEF Following
<1> QED
  BY <1>1, <1>3, <1>4 DEF ManagerInv, UpToDate

\* A handler has loaded an instance, with its attempts.
LEMMA CopyType ==
  ASSUME Manager!TypeOK, NEW h \in Handlers, copy[h] # None
  PROVE  copy[h] \in Manager!Instance
BY DEF Manager!TypeOK

\* What is done with a step of a process that is open follows from it.
LEMMA StepsFollow ==
  ASSUME Manager!ProcessesAssumption, NEW p \in Manager!Instance, NEW s \in Steps, Manager!Open(p)
  PROVE  /\ p.attempts[s] < MaxSaves =>
              [p EXCEPT !.steps[s] = "running", !.attempts[s] = @ + 1, !.status = "running"]
                \in Following(p)
         /\ [p EXCEPT !.steps[s] = "completed", !.status = "running"] \in Following(p)
         /\ [p EXCEPT !.steps[s] = "failed", !.status = "failed", !.error = TRUE]
              \in Following(p)
<1> USE DEF Manager!Instance, Manager!Statuses
<1>1. \A u \in Steps : p.attempts[u] \in 0..MaxSaves
  OBVIOUS
<1>2. ASSUME p.attempts[s] < MaxSaves
      PROVE  [p EXCEPT !.steps[s] = "running", !.attempts[s] = @ + 1, !.status = "running"]
               \in Following(p)
  <2> DEFINE q == [p EXCEPT !.steps[s] = "running", !.attempts[s] = @ + 1, !.status = "running"]
  <2>1. p.attempts[s] + 1 \in 0..MaxSaves
    BY <1>1, <1>2 DEF Manager!ProcessesAssumption
  <2>2. q \in Manager!Instance
    BY <2>1
  <2>3. Ends(p, q)
    BY <1>1, <2>1 DEF Manager!Open, Ends
  <2> QED
    BY <2>2, <2>3 DEF Following
<1>3. [p EXCEPT !.steps[s] = "completed", !.status = "running"] \in Following(p)
  <2> DEFINE q == [p EXCEPT !.steps[s] = "completed", !.status = "running"]
  <2>1. q \in Manager!Instance
    OBVIOUS
  <2>2. Ends(p, q)
    BY <1>1 DEF Manager!Open, Ends
  <2> QED
    BY <2>1, <2>2 DEF Following
<1>4. [p EXCEPT !.steps[s] = "failed", !.status = "failed", !.error = TRUE] \in Following(p)
  <2> DEFINE q == [p EXCEPT !.steps[s] = "failed", !.status = "failed", !.error = TRUE]
  <2>1. q \in Manager!Instance
    OBVIOUS
  <2>2. Ends(p, q)
    BY <1>1 DEF Manager!Open, Ends
  <2> QED
    BY <2>1, <2>2 DEF Following
<1> QED
  BY <1>2, <1>3, <1>4

\* What is done with a timeout of a process that is open follows from it.
LEMMA TimeoutsFollow ==
  ASSUME Manager!ProcessesAssumption, NEW p \in Manager!Instance, NEW t \in Timeouts,
         Manager!Open(p), NEW status \in {"scheduled", "fired", "cancelled"}
  PROVE  [p EXCEPT !.timeouts[t] = status] \in Following(p)
<1> USE DEF Manager!Instance, Manager!Statuses
<1> DEFINE q == [p EXCEPT !.timeouts[t] = status]
<1>1. \A u \in Steps : p.attempts[u] \in 0..MaxSaves
  OBVIOUS
<1>2. q \in Manager!Instance
  OBVIOUS
<1>3. Ends(p, q)
  BY <1>1 DEF Manager!Open, Manager!ProcessesAssumption, Ends
<1> QED
  BY <1>2, <1>3 DEF Following

(***************************************************************************)
(* What else may be done with a process follows from it: a change of its   *)
(* status, and of waitingFor and error.                                    *)
(***************************************************************************)
LEMMA StatusFollows ==
  ASSUME NEW p \in Manager!Instance, NEW q \in Manager!Instance,
         q.steps = p.steps, q.attempts = p.attempts, q.timeouts = p.timeouts,
         \/ Manager!Open(p)
         \/ p.status = "failed" /\ q.status = "compensating"
         \/ p.status = "compensating" /\ q.status = "compensated"
  PROVE  q \in Following(p)
<1>1. \A u \in Steps : p.attempts[u] \in 0..MaxSaves
  BY DEF Manager!Instance
<1>2. Ends(p, q)
  BY <1>1 DEF Manager!Open, Ends
<1> QED
  BY <1>2 DEF Following

\* The operations that change the status alone.
LEMMA StatusStep ==
  ASSUME Manager!ProcessesAssumption, ManagerInv, NEW h \in Handlers,
         \/ Manager!Wait(h) \/ Manager!Resume(h) \/ Manager!Complete(h) \/ Manager!Fail(h)
         \/ Manager!Cancel(h)
         \/ Manager!StartCompensation(h) \/ Manager!CompleteCompensation(h)
  PROVE  ManagerInv' /\ Kept
<1> DEFINE p == copy[h]
<1>1. p # None /\ p \in Manager!Instance
  BY CopyType DEF ManagerInv, Manager!Wait, Manager!Resume, Manager!Complete, Manager!Fail,
     Manager!Cancel, Manager!StartCompensation, Manager!CompleteCompensation, Manager!Operating
<1> HIDE DEF p
<1>2. CASE Manager!Wait(h)
  <2> DEFINE q == [p EXCEPT !.status = "waiting", !.waitingFor = TRUE]
  <2>1. q \in Following(p)
    BY <1>1, <1>2, StatusFollows
       DEF p, Manager!Wait, Manager!Operating, Manager!Instance, Manager!Statuses
  <2> QED
    BY <1>1, <1>2, <2>1, SaveKeeps DEF p, Manager!Wait
<1>3. CASE Manager!Resume(h)
  <2> DEFINE q == [p EXCEPT !.status = "running", !.waitingFor = FALSE]
  <2>1. q \in Following(p)
    BY <1>1, <1>3, StatusFollows
       DEF p, Manager!Resume, Manager!Open, Manager!Instance, Manager!Statuses
  <2> QED
    BY <1>1, <1>3, <2>1, SaveKeeps DEF p, Manager!Resume
<1>4. CASE Manager!Complete(h)
  <2> DEFINE q == [p EXCEPT !.status = "completed", !.waitingFor = FALSE, !.error = FALSE]
  <2>1. q \in Following(p)
    BY <1>1, <1>4, StatusFollows
       DEF p, Manager!Complete, Manager!Operating, Manager!Instance, Manager!Statuses
  <2> QED
    BY <1>1, <1>4, <2>1, SaveKeeps DEF p, Manager!Complete
<1>5. CASE Manager!Fail(h)
  <2> DEFINE q == [p EXCEPT !.status = "failed", !.error = TRUE]
  <2>1. q \in Following(p)
    BY <1>1, <1>5, StatusFollows
       DEF p, Manager!Fail, Manager!Operating, Manager!Instance, Manager!Statuses
  <2> QED
    BY <1>1, <1>5, <2>1, SaveKeeps DEF p, Manager!Fail
<1>6. CASE Manager!Cancel(h)
  <2> DEFINE q == [p EXCEPT !.status = "cancelled", !.waitingFor = FALSE]
  <2>1. q \in Following(p)
    BY <1>1, <1>6, StatusFollows
       DEF p, Manager!Cancel, Manager!Operating, Manager!Instance, Manager!Statuses
  <2> QED
    BY <1>1, <1>6, <2>1, SaveKeeps DEF p, Manager!Cancel
<1>7. CASE Manager!StartCompensation(h)
  <2> DEFINE q == [p EXCEPT !.status = "compensating"]
  <2>1. q \in Following(p)
    BY <1>1, <1>7, StatusFollows
       DEF p, Manager!StartCompensation, Manager!Instance, Manager!Statuses
  <2> QED
    BY <1>1, <1>7, <2>1, SaveKeeps DEF p, Manager!StartCompensation
<1>8. CASE Manager!CompleteCompensation(h)
  <2> DEFINE q == [p EXCEPT !.status = "compensated"]
  <2>1. q \in Following(p)
    BY <1>1, <1>8, StatusFollows
       DEF p, Manager!CompleteCompensation, Manager!Instance, Manager!Statuses
  <2> QED
    BY <1>1, <1>8, <2>1, SaveKeeps DEF p, Manager!CompleteCompensation
<1> QED
  BY <1>2, <1>3, <1>4, <1>5, <1>6, <1>7, <1>8

\* The operations on a step.
LEMMA StepStep ==
  ASSUME Manager!ProcessesAssumption, ManagerInv, NEW h \in Handlers, NEW s \in Steps,
         Manager!StartStep(h, s) \/ Manager!CompleteStep(h, s) \/ Manager!FailStep(h, s)
  PROVE  ManagerInv' /\ Kept
<1>1. copy[h] # None /\ copy[h] \in Manager!Instance /\ Manager!Open(copy[h])
  BY CopyType
     DEF ManagerInv, Manager!StartStep, Manager!CompleteStep, Manager!FailStep, Manager!Operating
<1>2. CASE Manager!StartStep(h, s)
  BY <1>1, <1>2, StepsFollow, SaveKeeps DEF Manager!StartStep
<1>3. CASE Manager!CompleteStep(h, s)
  BY <1>1, <1>3, StepsFollow, SaveKeeps DEF Manager!CompleteStep
<1>4. CASE Manager!FailStep(h, s)
  BY <1>1, <1>4, StepsFollow, SaveKeeps DEF Manager!FailStep
<1> QED
  BY <1>2, <1>3, <1>4

\* The operations on a timeout.
LEMMA TimeoutStep ==
  ASSUME Manager!ProcessesAssumption, ManagerInv, NEW h \in Handlers, NEW t \in Timeouts,
         \/ Manager!Schedule(h, t)
         \/ Manager!EndTimeout(h, t, "fired") \/ Manager!EndTimeout(h, t, "cancelled")
  PROVE  ManagerInv' /\ Kept
<1>1. copy[h] # None /\ copy[h] \in Manager!Instance /\ Manager!Open(copy[h])
  BY CopyType DEF ManagerInv, Manager!Schedule, Manager!EndTimeout, Manager!Operating
<1>2. CASE Manager!Schedule(h, t)
  BY <1>1, <1>2, TimeoutsFollow, SaveKeeps DEF Manager!Schedule
<1>3. ASSUME NEW status \in {"fired", "cancelled"}, Manager!EndTimeout(h, t, status)
      PROVE  ManagerInv' /\ Kept
  BY <1>1, <1>3, TimeoutsFollow, SaveKeeps DEF Manager!EndTimeout
<1> QED
  BY <1>2, <1>3

\* An instance follows from itself.
LEMMA EndsSame == ASSUME NEW p \in Manager!Instance PROVE Ends(p, p)
<1>1. \A u \in Steps : p.attempts[u] \in 0..MaxSaves
  BY DEF Manager!Instance
<1> QED
  BY <1>1 DEF Ends

\* A load, and a handler that goes without a save, leave what is stored as it is.
LEMMA CopyStep ==
  ASSUME Manager!ProcessesAssumption, ManagerInv, NEW h \in Handlers,
         Manager!Load(h) \/ Manager!Drop(h)
  PROVE  ManagerInv' /\ Kept
<1>1. Kept
  BY EndsSame DEF ManagerInv, Manager!TypeOK, Manager!Load, Manager!Drop, Kept
<1>2. Manager!TypeOK'
  BY DEF ManagerInv, Manager!TypeOK, Manager!Load, Manager!Drop, Manager!ProcessesAssumption
<1>3. ASSUME NEW g \in Handlers
      PROVE  read'[g] <= saves' /\ (copy'[g] # None /\ read'[g] = saves' => copy'[g] = instance')
  <2>1. saves \in 0..MaxSaves /\ read[g] <= saves /\ saves' = saves
    BY DEF ManagerInv, Manager!TypeOK, UpToDate, Manager!Load, Manager!Drop
  <2>2. g # h => read'[g] = read[g] /\ copy'[g] = copy[g] /\ instance' = instance
    BY DEF ManagerInv, Manager!TypeOK, Manager!Load, Manager!Drop
  <2>3. CASE g = h /\ Manager!Load(h)
    BY <2>1, <2>3 DEF ManagerInv, Manager!TypeOK, Manager!Load
  <2>4. CASE g = h /\ Manager!Drop(h)
    BY <2>1, <2>4 DEF ManagerInv, Manager!TypeOK, Manager!Drop
  <2> QED
    BY <2>1, <2>2, <2>3, <2>4 DEF ManagerInv, UpToDate
<1> QED
  BY <1>1, <1>2, <1>3 DEF ManagerInv, UpToDate

\* The invariant is inductive, and every step is one the property allows.
LEMMA ManagerStep ==
  ASSUME Manager!ProcessesAssumption
  PROVE  ManagerInv /\ [Manager!Next]_Manager!vars =>
           ManagerInv' /\ (Kept \/ UNCHANGED Manager!vars)
<1> SUFFICES ASSUME ManagerInv, [Manager!Next]_Manager!vars
             PROVE  ManagerInv' /\ (Kept \/ UNCHANGED Manager!vars)
  OBVIOUS
<1>1. CASE UNCHANGED Manager!vars
  BY <1>1 DEF ManagerInv, Manager!TypeOK, UpToDate, Manager!vars
<1>2. CASE Manager!Next
  BY <1>2, CopyStep, StatusStep, StepStep, TimeoutStep DEF Manager!Next
<1> QED
  BY <1>1, <1>2

\* The invariant holds when the process has been created.
LEMMA ManagerInit ==
  ASSUME Manager!ProcessesAssumption
  PROVE  Manager!Init => ManagerInv
<1> SUFFICES ASSUME Manager!Init PROVE ManagerInv
  OBVIOUS
<1>1. 0 \in 0..MaxSaves
  BY DEF Manager!ProcessesAssumption
<1>2. Manager!NewProcess \in Manager!Instance
  BY <1>1 DEF Manager!NewProcess, Manager!Instance, Manager!Statuses
<1>3. Manager!TypeOK
  BY <1>1, <1>2 DEF Manager!Init, Manager!TypeOK
<1>4. UpToDate
  BY DEF Manager!Init, UpToDate
<1> QED
  BY <1>3, <1>4 DEF ManagerInv

(***************************************************************************)
(* A process that has ended stays so unless a save is lost, whatever the   *)
(* operations and the order of their saves (assertProcessOpen is asked of  *)
(* the copy, and the copy is what is stored if no save is lost).           *)
(***************************************************************************)
THEOREM ProcessesEnd ==
  ASSUME Manager!ProcessesAssumption
  PROVE  Manager!Spec => EndsForGood
<1>1. ManagerInv /\ [Manager!Next]_Manager!vars
        => [lost' \/
             /\ instance.status \in {"completed", "cancelled", "compensated"} =>
                  instance' = instance
             /\ instance.status = "failed" => instance'.status \in {"failed", "compensating"}
             /\ instance.status = "compensating" =>
                  instance'.status \in {"compensating", "compensated"}
             /\ \A s \in Steps : instance'.attempts[s] >= instance.attempts[s]
             /\ \A t \in Timeouts :
                  instance.timeouts[t] # None => instance'.timeouts[t] # None]_Manager!vars
  BY ManagerStep DEF Kept, Ends
<1>2. ManagerInv /\ [Manager!Next]_Manager!vars => ManagerInv'
  BY ManagerStep
<1> QED
  BY <1>1, <1>2, ManagerInit, PTL DEF Manager!Spec, EndsForGood, Manager!EndsForGood

-----------------------------------------------------------------------------
(***************************************************************************)
(* Domain packages and the cache of their workflow and field schema.       *)
(***************************************************************************)
Writing == {"cacheWorkflow", "cacheSchema", "savePackage"}

\* What the call k asks for, by where it is.
AskedBy(k) ==
  /\ k.at \in {"look", "check", "cacheSchema", "savePackage"} => k.op = "package"
  /\ k.at \in {"saveWorkflow", "cacheWorkflow"} => k.op \in {"package", "workflow"}
  /\ k.at \in {"load", "fill"} => k.op \in Registry!Entries
  /\ k.op = "package" /\ k.at # "new" => k.version \in Versions
  /\ k.at \in Writing \cup {"look", "check", "saveWorkflow"} => k.content \in Contents

\* One registration writes at a time, and the workflow it saved is still stored.
OneWrites ==
  \A c \in Registrations : calls[c].at \in Writing =>
    /\ \A d \in Registrations : calls[d].at \in Writing => d = c
    /\ calls[c].at = "cacheWorkflow" => workflow = calls[c].content

\* A registration that has been checked may still be made.
Allowed(k) ==
  k.op = "package" /\ k.at \in Writing \cup {"saveWorkflow"} =>
    \/ Registry!Registered = {}
    \/ <<Registry!Latest, [version |-> k.version, content |-> k.content]>> \in Upgrades

\* What a reader has loaded is still what is stored.
Stored(k) ==
  k.at = "fill" =>
    IF k.op = "workflow" THEN k.content = workflow
    ELSE Registry!Registered # {} /\ k.content = Registry!Latest.content

\* The cache has what is stored, but for what a registration is about to put there.
Coherent ==
  /\ \/ cached.workflow \in {None, workflow}
     \/ \E c \in Registrations : calls[c].at = "cacheWorkflow"
  /\ \/ cached.schema = None
     \/ Registry!Registered # {} /\ cached.schema = Registry!Latest.content
     \/ \E c \in Registrations : calls[c].at = "savePackage"
  /\ \A c \in Registrations : calls[c].at = "savePackage" =>
       cached.schema \in {None, calls[c].content}

HasLatest ==
  Registry!Registered # {} =>
    \E m \in Registry!Registered : \A v \in Registry!Registered : v <= m

\* The versions are upgrades of each other.
Chained ==
  \A v \in Registry!Registered :
    LET later == {u \in Registry!Registered : u > v}
    IN  later # {} =>
          <<[version |-> v, content |-> packages[v]],
            [version |-> Registry!Min(later), content |-> packages[Registry!Min(later)]]>>
            \in Upgrades

Undisturbed ==
  /\ OneWrites /\ Coherent /\ Chained
  /\ \A c \in Registrations : Allowed(calls[c]) /\ Stored(calls[c])

RegistryInv ==
  /\ Registry!TypeOK
  /\ \A c \in Registrations : AskedBy(calls[c])
  /\ HasLatest
  /\ ~packageDisturbed => Undisturbed

(***************************************************************************)
(* A step of a call that leaves what is stored and cached as it is, and is *)
(* no part of a write.                                                     *)
(***************************************************************************)
LEMMA QuietCall ==
  ASSUME RegistryInv, NEW c \in Registrations, NEW k \in Registry!Call,
         calls' = [calls EXCEPT ![c] = k],
         calls[c].at \notin Writing, k.at \notin Writing, AskedBy(k),
         ~packageDisturbed => Allowed(k) /\ Stored(k),
         packageFaults' \in 0..MaxFaults,
         UNCHANGED <<packages, workflow, cached, packageDisturbed>>
  PROVE  RegistryInv'
<1>1. Registry!TypeOK'
  BY DEF RegistryInv, Registry!TypeOK
<1>2. \A d \in Registrations : calls'[d] = IF d = c THEN k ELSE calls[d]
  BY DEF RegistryInv, Registry!TypeOK
<1>3. \A d \in Registrations : AskedBy(calls[d])'
  BY <1>2 DEF RegistryInv, AskedBy
<1>4. Registry!Registered' = Registry!Registered /\ Registry!Latest' = Registry!Latest
  BY DEF Registry!Registered, Registry!Latest
<1>5. ASSUME ~packageDisturbed PROVE Undisturbed'
  <2>1. OneWrites'
    BY <1>2, <1>5 DEF RegistryInv, Undisturbed, OneWrites
  <2>2. Coherent'
    BY <1>2, <1>4, <1>5 DEF RegistryInv, Undisturbed, Coherent, Writing
  <2>3. Chained'
    BY <1>4, <1>5 DEF RegistryInv, Undisturbed, Chained
  <2>4. \A d \in Registrations : Allowed(calls[d])' /\ Stored(calls[d])'
    BY <1>2, <1>4, <1>5 DEF RegistryInv, Undisturbed, Allowed, Stored
  <2> QED
    BY <2>1, <2>2, <2>3, <2>4 DEF Undisturbed
<1>6. HasLatest'
  BY <1>4 DEF RegistryInv, HasLatest
<1> QED
  BY <1>1, <1>3, <1>5, <1>6 DEF RegistryInv

\* A call that moves on is still a call, and asks for the same.
LEMMA MoveType ==
  ASSUME RegistryInv, NEW c \in Registrations,
         NEW at \in {"check", "saveWorkflow", "cacheWorkflow", "cacheSchema", "savePackage",
                     "done", "refused", "failed"}
  PROVE  /\ [calls[c] EXCEPT !.at = at] \in Registry!Call
         /\ Registry!Goto(c, at) => calls' = [calls EXCEPT ![c] = [calls[c] EXCEPT !.at = at]]
BY DEF RegistryInv, Registry!TypeOK, Registry!Call, Registry!Goto

\* A registration, or the registration of a workflow, begins.
LEMMA RegisterStep ==
  ASSUME RegistryInv, NEW c \in Registrations, NEW x \in Contents,
         Registry!RegisterWorkflow(c, x) \/ \E v \in Versions : Registry!Register(c, v, x)
  PROVE  RegistryInv'
<1>1. packageFaults \in 0..MaxFaults
  BY DEF RegistryInv, Registry!TypeOK
<1>2. CASE Registry!RegisterWorkflow(c, x)
  <2> DEFINE k == [at |-> "saveWorkflow", op |-> "workflow", version |-> None, content |-> x]
  <2>1. k \in Registry!Call /\ AskedBy(k) /\ Allowed(k) /\ Stored(k) /\ k.at \notin Writing
    BY DEF Registry!Call, AskedBy, Allowed, Stored, Writing
  <2> QED
    BY <1>1, <1>2, <2>1, QuietCall DEF Registry!RegisterWorkflow, Registry!At, Writing
<1>3. ASSUME NEW v \in Versions, Registry!Register(c, v, x) PROVE RegistryInv'
  <2> DEFINE k == [at |-> "look", op |-> "package", version |-> v, content |-> x]
  <2>1. k \in Registry!Call /\ AskedBy(k) /\ Allowed(k) /\ Stored(k) /\ k.at \notin Writing
    BY DEF Registry!Call, AskedBy, Allowed, Stored, Writing
  <2> QED
    BY <1>1, <1>3, <2>1, QuietCall DEF Registry!Register, Registry!At, Writing
<1> QED
  BY <1>2, <1>3

\* A version is looked up and compared with the latest.
LEMMA LookStep ==
  ASSUME RegistryInv, NEW c \in Registrations, Registry!Look(c) \/ Registry!Check(c)
  PROVE  RegistryInv'
<1> DEFINE k(at) == [calls[c] EXCEPT !.at = at]
<1>1. PICK at \in {"check", "saveWorkflow", "done", "refused"} :
        /\ calls' = [calls EXCEPT ![c] = k(at)]
        /\ at = "check" => Registry!Look(c)
        /\ at = "saveWorkflow" =>
             /\ Registry!Check(c)
             /\ \/ Registry!Registered = {}
                \/ <<Registry!Latest, [version |-> calls[c].version, content |-> calls[c].content]>>
                     \in Upgrades
  <2>1. CASE Registry!Look(c)
    BY <2>1, MoveType DEF Registry!Look
  <2>2. CASE Registry!Check(c)
    BY <2>2, MoveType DEF Registry!Check
  <2> QED
    BY <2>1, <2>2
<1>2. /\ calls[c].at \in {"look", "check"} /\ calls[c] \in Registry!Call
      /\ UNCHANGED <<packages, workflow, cached, packageFaults, packageDisturbed>>
  BY DEF RegistryInv, Registry!TypeOK, Registry!Look, Registry!Check, Registry!At
<1>3. /\ k(at) \in Registry!Call /\ k(at).at = at /\ k(at).op = "package"
      /\ k(at).version = calls[c].version /\ k(at).content = calls[c].content
  BY <1>2, MoveType DEF RegistryInv, AskedBy, Registry!Call
<1>4. AskedBy(k(at))
  <2>1. calls[c].version \in Versions /\ calls[c].op = "package"
    BY <1>2 DEF RegistryInv, AskedBy
  <2>2. calls[c].content \in Contents
    BY <1>2 DEF RegistryInv, AskedBy
  <2> QED
    BY <1>3, <2>1, <2>2 DEF AskedBy, Writing
<1>5. Allowed(k(at)) /\ Stored(k(at)) /\ k(at).at \notin Writing
  BY <1>1, <1>3 DEF Allowed, Stored, Writing
<1>6. packageFaults' \in 0..MaxFaults
  BY <1>2 DEF RegistryInv, Registry!TypeOK
<1> HIDE DEF k
<1> QED
  BY <1>1, <1>2, <1>3, <1>4, <1>5, <1>6, QuietCall DEF Writing

\* The latest version is the highest of those that are registered.
LEMMA LatestIs ==
  ASSUME Registry!PackagesAssumption, Registry!TypeOK, HasLatest, Registry!Registered # {}
  PROVE  /\ Registry!Latest.version \in Registry!Registered
         /\ Registry!Latest.content = packages[Registry!Latest.version]
         /\ \A v \in Registry!Registered : v <= Registry!Latest.version
<1>1. PICK m \in Registry!Registered : \A v \in Registry!Registered : v <= m
  BY DEF HasLatest
<1>2. Registry!Registered \subseteq Nat
  BY DEF Registry!Registered, Registry!PackagesAssumption
<1>3. /\ Registry!Max(Registry!Registered) \in Registry!Registered
      /\ \A v \in Registry!Registered : v <= Registry!Max(Registry!Registered)
  BY <1>1, <1>2 DEF Registry!Max
<1> QED
  BY <1>3 DEF Registry!Latest

\* A reader looks at the cache, and at what is stored if that has nothing.
LEMMA ReadStep ==
  ASSUME Registry!PackagesAssumption, RegistryInv, NEW c \in Registrations,
         Registry!LoadStored(c) \/ \E e \in Registry!Entries : Registry!Get(c, e)
  PROVE  RegistryInv'
<1>1. /\ calls[c] \in Registry!Call
      /\ UNCHANGED <<packages, workflow, cached, packageFaults, packageDisturbed>>
  BY DEF RegistryInv, Registry!TypeOK, Registry!LoadStored, Registry!Get
<1>2. packageFaults' \in 0..MaxFaults
  BY <1>1 DEF RegistryInv, Registry!TypeOK
<1>3. ASSUME NEW e \in Registry!Entries, Registry!Get(c, e) PROVE RegistryInv'
  <2>1. PICK at \in {"load", "done"} :
          calls' = [calls EXCEPT ![c] = [calls[c] EXCEPT !.op = e, !.at = at]]
    BY <1>3 DEF RegistryInv, Registry!TypeOK, Registry!Get
  <2> DEFINE k == [calls[c] EXCEPT !.op = e, !.at = at]
  <2>2. k \in Registry!Call /\ k.at = at /\ k.op = e
    BY <1>1 DEF Registry!Call, Registry!Entries
  <2>3. AskedBy(k) /\ Allowed(k) /\ Stored(k) /\ k.at \notin Writing
    BY <2>2 DEF AskedBy, Allowed, Stored, Writing, Registry!Entries
  <2>4. calls[c].at \notin Writing
    BY <1>3 DEF Registry!Get, Registry!At, Writing
  <2> HIDE DEF k
  <2> QED
    BY <1>1, <1>2, <2>1, <2>2, <2>3, <2>4, QuietCall DEF k
<1>4. CASE Registry!LoadStored(c)
  <2> DEFINE s == IF calls[c].op = "workflow" THEN workflow
                  ELSE IF Registry!Registered = {} THEN None ELSE Registry!Latest.content
             k == [calls[c] EXCEPT !.content = s, !.at = IF s = None THEN "done" ELSE "fill"]
  <2>1. calls' = [calls EXCEPT ![c] = k]
    BY <1>4 DEF RegistryInv, Registry!TypeOK, Registry!LoadStored
  <2>2. calls[c].at = "load" /\ calls[c].op \in Registry!Entries
    BY <1>4 DEF RegistryInv, AskedBy, Registry!LoadStored, Registry!At
  <2>3. k.content = s /\ k.at = (IF s = None THEN "done" ELSE "fill") /\ k.op = calls[c].op
    BY <1>1 DEF Registry!Call
  <2>4. s # None => Stored(k)
    BY <2>2, <2>3 DEF Stored, Registry!Entries
  <2>5. s = None => Stored(k)
    BY <2>3 DEF Stored
  <2>6. AskedBy(k) /\ Allowed(k) /\ k.at \notin Writing
    BY <2>2, <2>3 DEF AskedBy, Allowed, Writing, Registry!Entries
  <2>7. k \in Registry!Call
    <3>1. s \in Contents \cup {None}
      <4>1. CASE calls[c].op = "workflow"
        BY <4>1 DEF RegistryInv, Registry!TypeOK
      <4>2. CASE Registry!Registered # {}
        <5>1. Registry!Latest.content \in Contents \cup {None}
          BY <4>2, LatestIs DEF RegistryInv, Registry!TypeOK, Registry!Registered
        <5> QED
          BY <5>1 DEF RegistryInv, Registry!TypeOK
      <4> QED
        BY <4>1, <4>2
    <3> HIDE DEF s
    <3> QED
      BY <1>1, <3>1 DEF Registry!Call
  <2>8. Stored(k) /\ calls[c].at \notin Writing
    BY <2>2, <2>4, <2>5 DEF Writing
  <2> HIDE DEF k
  <2> QED
    BY <1>1, <1>2, <2>1, <2>6, <2>7, <2>8, QuietCall
<1> QED
  BY <1>3, <1>4

\* A write throws or the process dies.
LEMMA BreakOffStep ==
  ASSUME Registry!PackagesAssumption, RegistryInv, NEW c \in Registrations, Registry!BreakOff(c)
  PROVE  RegistryInv'
<1> DEFINE k == [calls[c] EXCEPT !.at = "failed"]
<1>1. /\ calls' = [calls EXCEPT ![c] = k] /\ k \in Registry!Call /\ k.at = "failed"
      /\ calls[c].at \in Writing \cup {"saveWorkflow"}
      /\ UNCHANGED <<packages, workflow, cached>>
  <2>1. calls' = [calls EXCEPT ![c] = k] /\ k \in Registry!Call
    BY MoveType DEF Registry!BreakOff
  <2>2. k.at = "failed"
    BY DEF Registry!Call, RegistryInv, Registry!TypeOK
  <2> HIDE DEF k
  <2> QED
    BY <2>1, <2>2 DEF Registry!BreakOff, Writing
<1>2. AskedBy(k)
  <2>1. k.op = calls[c].op /\ k.version = calls[c].version
    BY DEF Registry!Call, RegistryInv, Registry!TypeOK
  <2>2. AskedBy(calls[c])
    BY DEF RegistryInv
  <2> HIDE DEF k
  <2> QED
    BY <1>1, <2>1, <2>2 DEF AskedBy, Writing
<1>3. Allowed(k) /\ Stored(k) /\ k.at \notin Writing
  BY <1>1 DEF Allowed, Stored, Writing
<1>4. packageFaults' \in 0..MaxFaults
  BY DEF RegistryInv, Registry!TypeOK, Registry!BreakOff, Registry!PackagesAssumption
<1> HIDE DEF k
<1>5. CASE calls[c].at = "saveWorkflow"
  <2>1. packageDisturbed' = packageDisturbed
    BY <1>5 DEF Registry!BreakOff, Registry!At, RegistryInv, Registry!TypeOK
  <2> QED
    BY <1>1, <1>2, <1>3, <1>4, <1>5, <2>1, QuietCall DEF Writing
<1>6. CASE calls[c].at # "saveWorkflow"
  <2>1. packageDisturbed'
    BY <1>6 DEF Registry!BreakOff, Registry!At
  <2>2. Registry!TypeOK'
    BY <1>1, <1>4, <2>1 DEF RegistryInv, Registry!TypeOK
  <2>3. \A d \in Registrations : AskedBy(calls[d])'
    BY <1>1, <1>2 DEF RegistryInv, Registry!TypeOK, AskedBy
  <2>4. HasLatest'
    BY <1>1 DEF RegistryInv, HasLatest, Registry!Registered
  <2> QED
    BY <2>1, <2>2, <2>3, <2>4 DEF RegistryInv
<1> QED
  BY <1>5, <1>6

\* The highest and the lowest of a set of versions.
LEMMA MaxMin ==
  ASSUME NEW S \in SUBSET Nat, NEW m \in S
  PROVE  /\ (\A q \in S : q <= m) => Registry!Max(S) = m
         /\ (\A q \in S : m <= q) => Registry!Min(S) = m
<1>1. ASSUME \A q \in S : q <= m PROVE Registry!Max(S) = m
  <2>1. Registry!Max(S) \in S /\ \A q \in S : Registry!Max(S) >= q
    BY <1>1 DEF Registry!Max
  <2>2. Registry!Max(S) \in Nat /\ m \in Nat
    BY <2>1
  <2>3. Registry!Max(S) >= m /\ Registry!Max(S) <= m
    BY <1>1, <2>1
  <2> QED
    BY <2>2, <2>3
<1>2. ASSUME \A q \in S : m <= q PROVE Registry!Min(S) = m
  <2>1. Registry!Min(S) \in S /\ \A q \in S : Registry!Min(S) =< q
    BY <1>2 DEF Registry!Min
  <2>2. Registry!Min(S) \in Nat /\ m \in Nat
    BY <2>1
  <2>3. Registry!Min(S) <= m /\ m <= Registry!Min(S)
    BY <1>2, <2>1
  <2> QED
    BY <2>2, <2>3
<1> QED
  BY <1>1, <1>2

(***************************************************************************)
(* A write that is done while no other call is about to act leaves nothing *)
(* disturbed; nobody else has read what it changes.                        *)
(***************************************************************************)
LEMMA WriteAlone ==
  ASSUME RegistryInv, NEW c \in Registrations, NEW k \in Registry!Call,
         calls' = [calls EXCEPT ![c] = k],
         Registry!Disturb(c), ~packageDisturbed'
  PROVE  /\ ~packageDisturbed /\ Undisturbed
         /\ calls'[c] = k
         /\ \A d \in Registrations : d # c =>
              /\ calls'[d] = calls[d]
              /\ calls[d].at \notin Writing \cup {"check", "saveWorkflow", "fill"}
<1>1. ~packageDisturbed /\ Registry!Acting = {c}
  BY DEF Registry!Disturb
<1>2. \A d \in Registrations : d # c => d \notin Registry!Acting
  BY <1>1
<1> QED
  BY <1>1, <1>2 DEF RegistryInv, Registry!TypeOK, Registry!Acting, Writing

\* A call that moves on in its write asks for the same, and keeps its types.
LEMMA WriteType ==
  ASSUME RegistryInv, NEW c \in Registrations, NEW k \in Registry!Call,
         calls[c].at \in Writing \cup {"saveWorkflow", "fill"},
         NEW at \in Writing \cup {"done"}, k = [calls[c] EXCEPT !.at = at],
         at \in {"cacheSchema", "savePackage"} => calls[c].op = "package",
         at = "cacheWorkflow" => calls[c].at = "saveWorkflow",
         at # "done" => calls[c].at # "fill",
         calls' = [calls EXCEPT ![c] = k]
  PROVE  /\ k.at = at /\ k.op = calls[c].op
         /\ k.version = calls[c].version /\ k.content = calls[c].content
         /\ calls' \in [Registrations -> Registry!Call]
         /\ \A d \in Registrations : AskedBy(calls[d])'
<1>1. /\ k.at = at /\ k.op = calls[c].op
      /\ k.version = calls[c].version /\ k.content = calls[c].content
  BY DEF RegistryInv, Registry!TypeOK, Registry!Call
<1>2. calls' \in [Registrations -> Registry!Call]
  BY DEF RegistryInv, Registry!TypeOK
<1>3. AskedBy(k)
  <2>1. AskedBy(calls[c])
    BY DEF RegistryInv
  <2> QED
    BY <1>1, <2>1 DEF AskedBy, Writing
<1>4. \A d \in Registrations : AskedBy(calls[d])'
  BY <1>3 DEF RegistryInv, Registry!TypeOK, AskedBy
<1> QED
  BY <1>1, <1>2, <1>4

\* The workflow is saved.
LEMMA SaveWorkflowStep ==
  ASSUME RegistryInv, NEW c \in Registrations, Registry!SaveWorkflow(c)
  PROVE  RegistryInv'
<1> DEFINE k == [calls[c] EXCEPT !.at = "cacheWorkflow"]
<1>1. /\ calls' = [calls EXCEPT ![c] = k] /\ k \in Registry!Call
      /\ calls[c].at = "saveWorkflow" /\ workflow' = calls[c].content
      /\ UNCHANGED <<packages, cached, packageFaults>> /\ Registry!Disturb(c)
  BY MoveType DEF Registry!SaveWorkflow, Registry!At
<1>2. /\ k.at = "cacheWorkflow" /\ k.op = calls[c].op
      /\ k.version = calls[c].version /\ k.content = calls[c].content
      /\ calls' \in [Registrations -> Registry!Call]
      /\ \A d \in Registrations : AskedBy(calls[d])'
  BY <1>1, WriteType DEF Writing
<1> HIDE DEF k
<1>3. Registry!Registered' = Registry!Registered /\ Registry!Latest' = Registry!Latest
  BY <1>1 DEF Registry!Registered, Registry!Latest
<1>4. HasLatest'
  BY <1>3 DEF RegistryInv, HasLatest
<1>5. Registry!TypeOK'
  <2>1. calls[c].content \in Contents
    BY <1>1 DEF RegistryInv, AskedBy
  <2>2. packageDisturbed' \in BOOLEAN
    BY <1>1 DEF Registry!Disturb, RegistryInv, Registry!TypeOK
  <2> QED
    BY <1>1, <1>2, <2>1, <2>2 DEF RegistryInv, Registry!TypeOK
<1>6. ASSUME ~packageDisturbed' PROVE Undisturbed'
  <2>1. /\ ~packageDisturbed /\ Undisturbed
        /\ calls'[c] = k
        /\ \A d \in Registrations : d # c =>
             /\ calls'[d] = calls[d]
             /\ calls[d].at \notin Writing \cup {"check", "saveWorkflow", "fill"}
    BY <1>1, <1>6, WriteAlone
  <2>2. OneWrites'
    BY <1>1, <1>2, <2>1 DEF OneWrites
  <2>3. Coherent'
    <3>1. \A d \in Registrations : calls[d].at # "savePackage" /\ calls'[d].at # "savePackage"
      BY <1>1, <1>2, <2>1 DEF Writing
    <3> QED
      BY <1>1, <1>2, <1>3, <2>1, <3>1 DEF Undisturbed, Coherent
  <2>4. Chained'
    BY <1>1, <1>3, <2>1 DEF Undisturbed, Chained
  <2>5. \A d \in Registrations : Allowed(calls[d])' /\ Stored(calls[d])'
    BY <1>1, <1>2, <1>3, <2>1 DEF Undisturbed, Allowed, Stored, Writing
  <2> QED
    BY <2>2, <2>3, <2>4, <2>5 DEF Undisturbed
<1> QED
  BY <1>2, <1>4, <1>5, <1>6 DEF RegistryInv

\* The workflow is put in the cache.
LEMMA CacheWorkflowStep ==
  ASSUME RegistryInv, NEW c \in Registrations, Registry!CacheWorkflow(c)
  PROVE  RegistryInv'
<1> DEFINE at == IF calls[c].op = "workflow" THEN "done" ELSE "cacheSchema"
           k == [calls[c] EXCEPT !.at = at]
<1>1. /\ calls' = [calls EXCEPT ![c] = k] /\ k \in Registry!Call
      /\ calls[c].at = "cacheWorkflow"
      /\ cached' = [cached EXCEPT !.workflow = calls[c].content]
      /\ UNCHANGED <<packages, workflow, packageFaults, packageDisturbed>>
  BY MoveType DEF Registry!CacheWorkflow, Registry!At
<1>2. calls[c].op \in {"package", "workflow"} /\ calls[c].content \in Contents
  BY <1>1 DEF RegistryInv, AskedBy, Writing
<1>3. /\ k.at = at /\ k.op = calls[c].op
      /\ k.version = calls[c].version /\ k.content = calls[c].content
      /\ calls' \in [Registrations -> Registry!Call]
      /\ \A d \in Registrations : AskedBy(calls[d])'
  <2>1. at \in Writing \cup {"done"} /\ at \notin {"cacheWorkflow", "savePackage"}
    BY DEF Writing
  <2>2. at = "cacheSchema" => calls[c].op = "package"
    BY <1>2
  <2>3. calls[c].at \in Writing /\ calls[c].at # "fill"
    BY <1>1 DEF Writing
  <2> HIDE DEF at
  <2> QED
    BY <1>1, <2>1, <2>2, <2>3, WriteType
<1> HIDE DEF k
<1>4. Registry!Registered' = Registry!Registered /\ Registry!Latest' = Registry!Latest
  BY <1>1 DEF Registry!Registered, Registry!Latest
<1>5. HasLatest'
  BY <1>4 DEF RegistryInv, HasLatest
<1>6. Registry!TypeOK'
  BY <1>1, <1>2, <1>3 DEF RegistryInv, Registry!TypeOK
<1>7. ASSUME ~packageDisturbed' PROVE Undisturbed'
  <2>1. /\ Undisturbed
        /\ calls'[c] = k /\ \A d \in Registrations : d # c => calls'[d] = calls[d]
    BY <1>1, <1>7 DEF RegistryInv, Registry!TypeOK
  <2>2. /\ workflow = calls[c].content
        /\ \A d \in Registrations : d # c => calls[d].at \notin Writing
    BY <1>1, <2>1 DEF Undisturbed, OneWrites, Writing
  <2>3. OneWrites'
    BY <1>2, <1>3, <2>1, <2>2 DEF OneWrites, Writing
  <2>4. Coherent'
    <3>1. \A d \in Registrations : calls[d].at # "savePackage" /\ calls'[d].at # "savePackage"
      BY <1>1, <1>3, <2>1, <2>2 DEF Writing
    <3>2. cached'.workflow = workflow /\ cached'.schema = cached.schema /\ workflow' = workflow
      BY <1>1, <2>2 DEF RegistryInv, Registry!TypeOK, Registry!Entries
    <3> QED
      BY <1>4, <2>1, <3>1, <3>2 DEF Undisturbed, Coherent
  <2>5. Chained'
    BY <1>1, <1>4, <2>1 DEF Undisturbed, Chained
  <2>6. \A d \in Registrations : Allowed(calls[d])' /\ Stored(calls[d])'
    <3>1. Allowed(calls[c]) /\ calls[c].at \in Writing
      BY <1>1, <2>1 DEF Undisturbed, Writing
    <3>2. Allowed(calls[c])' /\ Stored(calls[c])'
      BY <1>3, <1>4, <2>1, <3>1 DEF Allowed, Stored
    <3> QED
      BY <1>1, <1>4, <2>1, <3>2 DEF Undisturbed, Allowed, Stored
  <2> QED
    BY <2>3, <2>4, <2>5, <2>6 DEF Undisturbed
<1> QED
  BY <1>3, <1>5, <1>6, <1>7 DEF RegistryInv

\* The schema is put in the cache.
LEMMA CacheSchemaStep ==
  ASSUME RegistryInv, NEW c \in Registrations, Registry!CacheSchema(c)
  PROVE  RegistryInv'
<1> DEFINE k == [calls[c] EXCEPT !.at = "savePackage"]
<1>1. /\ calls' = [calls EXCEPT ![c] = k] /\ k \in Registry!Call
      /\ calls[c].at = "cacheSchema"
      /\ cached' = [cached EXCEPT !.schema = calls[c].content]
      /\ UNCHANGED <<packages, workflow, packageFaults>> /\ Registry!Disturb(c)
  BY MoveType DEF Registry!CacheSchema, Registry!At
<1>2. calls[c].op = "package" /\ calls[c].content \in Contents
  BY <1>1 DEF RegistryInv, AskedBy, Writing
<1>3. /\ k.at = "savePackage" /\ k.op = calls[c].op
      /\ k.version = calls[c].version /\ k.content = calls[c].content
      /\ calls' \in [Registrations -> Registry!Call]
      /\ \A d \in Registrations : AskedBy(calls[d])'
  BY <1>1, <1>2, WriteType DEF Writing
<1> HIDE DEF k
<1>4. Registry!Registered' = Registry!Registered /\ Registry!Latest' = Registry!Latest
  BY <1>1 DEF Registry!Registered, Registry!Latest
<1>5. HasLatest'
  BY <1>4 DEF RegistryInv, HasLatest
<1>6. Registry!TypeOK'
  <2>1. packageDisturbed' \in BOOLEAN
    BY <1>1 DEF Registry!Disturb, RegistryInv, Registry!TypeOK
  <2> QED
    BY <1>1, <1>2, <1>3, <2>1 DEF RegistryInv, Registry!TypeOK
<1>7. ASSUME ~packageDisturbed' PROVE Undisturbed'
  <2>1. /\ ~packageDisturbed /\ Undisturbed
        /\ calls'[c] = k
        /\ \A d \in Registrations : d # c =>
             /\ calls'[d] = calls[d]
             /\ calls[d].at \notin Writing \cup {"check", "saveWorkflow", "fill"}
    BY <1>1, <1>7, WriteAlone
  <2>2. OneWrites'
    BY <1>1, <1>3, <2>1 DEF OneWrites
  <2>3. Coherent'
    <3>1. /\ cached'.workflow = cached.workflow /\ cached'.schema = calls[c].content
          /\ workflow' = workflow
      BY <1>1 DEF RegistryInv, Registry!TypeOK, Registry!Entries
    <3>2. \A d \in Registrations : calls[d].at # "cacheWorkflow"
      BY <1>1, <2>1 DEF Writing
    <3>3. \A d \in Registrations : calls'[d].at = "savePackage" => d = c
      BY <2>1 DEF Writing
    <3> QED
      BY <1>3, <2>1, <3>1, <3>2, <3>3 DEF Undisturbed, Coherent
  <2>4. Chained'
    BY <1>1, <1>4, <2>1 DEF Undisturbed, Chained
  <2>5. \A d \in Registrations : Allowed(calls[d])' /\ Stored(calls[d])'
    <3>1. Allowed(calls[c]) /\ calls[c].at \in Writing
      BY <1>1, <2>1 DEF Undisturbed, Writing
    <3>2. Allowed(calls[c])' /\ Stored(calls[c])'
      BY <1>3, <1>4, <2>1, <3>1 DEF Allowed, Stored
    <3> QED
      BY <1>1, <1>4, <2>1, <3>2 DEF Undisturbed, Allowed, Stored
  <2> QED
    BY <2>2, <2>3, <2>4, <2>5 DEF Undisturbed
<1> QED
  BY <1>3, <1>5, <1>6, <1>7 DEF RegistryInv

(***************************************************************************)
(* A version above all the others is stored: it is the latest, and the     *)
(* chain goes on with it.                                                  *)
(***************************************************************************)
LEMMA NewLatest ==
  ASSUME Registry!PackagesAssumption, Registry!TypeOK, HasLatest, Chained,
         NEW v \in Versions, NEW x \in Contents,
         packages' = [packages EXCEPT ![v] = x],
         \/ Registry!Registered = {}
         \/ <<Registry!Latest, [version |-> v, content |-> x]>> \in Upgrades
  PROVE  /\ Registry!Latest' = [version |-> v, content |-> x]
         /\ Chained'
<1>1. /\ Registry!Registered' = Registry!Registered \cup {v}
      /\ packages'[v] = x /\ \A u \in Registry!Registered : u # v => packages'[u] = packages[u]
  BY DEF Registry!Registered, Registry!TypeOK, Registry!PackagesAssumption
<1>2. Registry!Registered \in SUBSET Nat /\ v \in Nat
  BY DEF Registry!Registered, Registry!PackagesAssumption
<1>3. \A u \in Registry!Registered : u < v
  <2> SUFFICES ASSUME NEW u \in Registry!Registered PROVE u < v
    OBVIOUS
  <2>1. Registry!Latest.version \in Registry!Registered /\ u <= Registry!Latest.version
    BY LatestIs
  <2>2. Registry!Latest.version < v
    BY DEF Registry!PackagesAssumption
  <2>3. PICK n \in Nat : n = Registry!Latest.version
    BY <1>2, <2>1
  <2>4. u \in Nat /\ u <= n /\ n < v
    BY <1>2, <2>1, <2>2, <2>3
  <2> QED
    BY <1>2, <2>4
<1>4. Registry!Max(Registry!Registered') = v
  <2>1. \A q \in Registry!Registered \cup {v} : q <= v
    BY <1>2, <1>3
  <2>2. Registry!Registered \cup {v} \in SUBSET Nat
    BY <1>2
  <2> QED
    BY <1>1, <2>1, <2>2, MaxMin
<1>5. Registry!Latest' = [version |-> v, content |-> x]
  BY <1>1, <1>4 DEF Registry!Latest
<1>6. Chained'
  <2> DEFINE above(u) == {q \in Registry!Registered : q > u}
             lowest(u) == Registry!Min({q \in Registry!Registered' : q > u})
             offer(u) == [version |-> u, content |-> packages'[u]]
  <2> SUFFICES ASSUME NEW u \in Registry!Registered',
                      {q \in Registry!Registered' : q > u} # {}
               PROVE  <<offer(u), offer(lowest(u))>> \in Upgrades
    BY DEF Chained
  <2>1. u \in Registry!Registered /\ u # v
    <3>1. PICK q \in Registry!Registered' : q > u
      OBVIOUS
    <3>2. \A w \in Registry!Registered' : w \in Nat /\ w <= v
      BY <1>1, <1>2, <1>3
    <3>3. u # v
      BY <1>2, <3>1, <3>2
    <3> QED
      BY <1>1, <3>3
  <2>2. {q \in Registry!Registered' : q > u} = above(u) \cup {v}
    BY <1>1, <1>3, <2>1
  <2>3. packages'[u] = packages[u]
    BY <1>1, <2>1
  <2>4. CASE above(u) = {}
    <3>1. lowest(u) = v
      BY <1>2, <2>2, <2>4, MaxMin
    <3>2. \A q \in Registry!Registered : q <= u
      BY <1>2, <2>1, <2>4
    <3>3. Registry!Max(Registry!Registered) = u
      BY <1>2, <2>1, <3>2, MaxMin
    <3>4. Registry!Latest = offer(u)
      BY <2>3, <3>3 DEF Registry!Latest
    <3> QED
      BY <1>1, <2>1, <3>1, <3>4
  <2>5. CASE above(u) # {}
    <3>1. above(u) \in SUBSET Nat
      BY <1>2
    <3>2. PICK m \in above(u) : \A q \in above(u) : m <= q
      BY <2>5, <3>1, NatLeast
    <3>3. m < v /\ m \in Registry!Registered /\ m # v
      BY <1>2, <1>3, <3>2
    <3>4. \A q \in above(u) \cup {v} : m <= q
      BY <1>2, <3>2, <3>3
    <3>5. above(u) \cup {v} \in SUBSET Nat
      BY <1>2, <3>1
    <3>6. lowest(u) = m
      BY <2>2, <3>2, <3>4, <3>5, MaxMin
    <3>7. Registry!Min(above(u)) = m
      BY <3>1, <3>2, MaxMin
    <3>8. <<[version |-> u, content |-> packages[u]], [version |-> m, content |-> packages[m]]>>
            \in Upgrades
      BY <2>1, <2>5, <3>7 DEF Chained
    <3>9. packages'[m] = packages[m]
      BY <1>1, <3>3
    <3> QED
      BY <2>3, <3>6, <3>8, <3>9
  <2> QED
    BY <2>4, <2>5
<1> QED
  BY <1>5, <1>6

\* The version is stored.
LEMMA SavePackageStep ==
  ASSUME Registry!PackagesAssumption, RegistryInv, NEW c \in Registrations,
         Registry!SavePackage(c)
  PROVE  RegistryInv'
<1> DEFINE k == [calls[c] EXCEPT !.at = "done"]
<1>1. /\ calls' = [calls EXCEPT ![c] = k] /\ k \in Registry!Call
      /\ calls[c].at = "savePackage"
      /\ packages' = [packages EXCEPT ![calls[c].version] = calls[c].content]
      /\ UNCHANGED <<workflow, cached, packageFaults>> /\ Registry!Disturb(c)
  BY MoveType DEF Registry!SavePackage, Registry!At
<1>2. PICK v \in Versions, x \in Contents : v = calls[c].version /\ x = calls[c].content
  BY <1>1 DEF RegistryInv, AskedBy, Writing
<1>3. /\ k.at = "done" /\ k.op = calls[c].op
      /\ calls' \in [Registrations -> Registry!Call]
      /\ \A d \in Registrations : AskedBy(calls[d])'
  BY <1>1, WriteType DEF Writing
<1> HIDE DEF k
<1>4. Registry!Registered' = Registry!Registered \cup {v}
  BY <1>1, <1>2 DEF Registry!Registered, RegistryInv, Registry!TypeOK,
     Registry!PackagesAssumption
<1>5. HasLatest'
  <2>1. Registry!Registered \in SUBSET Nat /\ v \in Nat
    BY DEF Registry!Registered, Registry!PackagesAssumption
  <2>2. CASE Registry!Registered = {}
    BY <1>4, <2>1, <2>2 DEF HasLatest
  <2>3. CASE Registry!Registered # {}
    <3>1. PICK m \in Registry!Registered : \A u \in Registry!Registered : u <= m
      BY <2>3 DEF RegistryInv, HasLatest
    <3>2. CASE m <= v
      BY <1>4, <2>1, <3>1, <3>2 DEF HasLatest
    <3>3. CASE v <= m
      BY <1>4, <2>1, <3>1, <3>3 DEF HasLatest
    <3> QED
      BY <2>1, <3>2, <3>3
  <2> QED
    BY <2>2, <2>3
<1>6. Registry!TypeOK'
  <2>1. packageDisturbed' \in BOOLEAN
    BY <1>1 DEF Registry!Disturb, RegistryInv, Registry!TypeOK
  <2> QED
    BY <1>1, <1>2, <1>3, <2>1 DEF RegistryInv, Registry!TypeOK
<1>7. ASSUME ~packageDisturbed' PROVE Undisturbed'
  <2>1. /\ ~packageDisturbed /\ Undisturbed
        /\ calls'[c] = k
        /\ \A d \in Registrations : d # c =>
             /\ calls'[d] = calls[d]
             /\ calls[d].at \notin Writing \cup {"check", "saveWorkflow", "fill"}
    BY <1>1, <1>7, WriteAlone
  <2>2. Registry!Latest' = [version |-> v, content |-> x] /\ Chained'
    <3>1. \/ Registry!Registered = {}
          \/ <<Registry!Latest, [version |-> v, content |-> x]>> \in Upgrades
      <4>1. Allowed(calls[c]) /\ calls[c].at \in Writing /\ calls[c].op = "package"
        BY <1>1, <2>1 DEF RegistryInv, AskedBy, Undisturbed, Writing
      <4> QED
        BY <1>2, <4>1 DEF Allowed
    <3> QED
      BY <1>1, <1>2, <2>1, <3>1, NewLatest DEF RegistryInv, Undisturbed
  <2>3. OneWrites'
    BY <1>1, <1>3, <2>1 DEF OneWrites, Writing
  <2>4. Coherent'
    <3>1. cached'.schema \in {None, x} /\ cached' = cached /\ workflow' = workflow
      BY <1>1, <1>2, <2>1 DEF Undisturbed, Coherent
    <3>2. \A d \in Registrations : calls[d].at # "cacheWorkflow" /\ calls'[d].at # "savePackage"
      BY <1>1, <1>3, <2>1 DEF Writing
    <3> QED
      BY <1>4, <2>1, <2>2, <3>1, <3>2 DEF Undisturbed, Coherent
  <2>5. \A d \in Registrations : calls'[d].at \notin Writing \cup {"saveWorkflow", "fill"}
    BY <1>3, <2>1 DEF Writing
  <2>6. \A d \in Registrations : Allowed(calls[d])' /\ Stored(calls[d])'
    BY <2>5 DEF Allowed, Stored
  <2> QED
    BY <2>2, <2>3, <2>4, <2>6 DEF Undisturbed
<1> QED
  BY <1>3, <1>5, <1>6, <1>7 DEF RegistryInv

\* A reader puts what it has loaded in the cache.
LEMMA FillStep ==
  ASSUME RegistryInv, NEW c \in Registrations, Registry!Fill(c)
  PROVE  RegistryInv'
<1> DEFINE k == [calls[c] EXCEPT !.at = "done"]
<1>1. /\ calls' = [calls EXCEPT ![c] = k] /\ k \in Registry!Call
      /\ calls[c].at = "fill"
      /\ cached' = [cached EXCEPT ![calls[c].op] = calls[c].content]
      /\ packageDisturbed' =
           (packageDisturbed \/ \E d \in Registrations : calls[d].at = "savePackage")
      /\ UNCHANGED <<packages, workflow, packageFaults>>
  BY MoveType DEF Registry!Fill, Registry!At
<1>2. calls[c].op \in Registry!Entries
  BY <1>1 DEF RegistryInv, AskedBy
<1>3. /\ k.at = "done" /\ k.op = calls[c].op
      /\ calls' \in [Registrations -> Registry!Call]
      /\ \A d \in Registrations : AskedBy(calls[d])'
  BY <1>1, WriteType DEF Writing
<1> HIDE DEF k
<1>4. Registry!Registered' = Registry!Registered /\ Registry!Latest' = Registry!Latest
  BY <1>1 DEF Registry!Registered, Registry!Latest
<1>5. HasLatest'
  BY <1>4 DEF RegistryInv, HasLatest
<1>6. Registry!TypeOK'
  <2>1. calls[c].content \in Contents \cup {None}
    BY DEF RegistryInv, Registry!TypeOK, Registry!Call
  <2> QED
    BY <1>1, <1>2, <1>3, <2>1 DEF RegistryInv, Registry!TypeOK
<1>7. ASSUME ~packageDisturbed' PROVE Undisturbed'
  <2>1. /\ ~packageDisturbed /\ Undisturbed
        /\ \A d \in Registrations : calls[d].at # "savePackage"
        /\ calls'[c] = k /\ \A d \in Registrations : d # c => calls'[d] = calls[d]
    BY <1>1, <1>7 DEF RegistryInv, Registry!TypeOK
  <2>2. OneWrites'
    BY <1>1, <1>3, <2>1 DEF Undisturbed, OneWrites, Writing
  <2>3. Coherent'
    <3>1. /\ Stored(calls[c])
          /\ \A e \in Registry!Entries :
               cached'[e] = IF e = calls[c].op THEN calls[c].content ELSE cached[e]
      BY <1>1, <1>2, <2>1 DEF RegistryInv, Registry!TypeOK, Undisturbed
    <3>2. cached'.workflow \in {cached.workflow, workflow}
      BY <1>1, <3>1 DEF Stored, Registry!Entries
    <3>3. \/ cached'.schema = cached.schema
          \/ Registry!Registered # {} /\ cached'.schema = Registry!Latest.content
      BY <1>1, <1>2, <3>1 DEF Stored, Registry!Entries
    <3>4. \A d \in Registrations : calls'[d].at # "savePackage"
      BY <1>3, <2>1
    <3>5. \A d \in Registrations : calls[d].at = "cacheWorkflow" => calls'[d].at = "cacheWorkflow"
      BY <1>1, <2>1
    <3>6. \/ cached'.workflow \in {None, workflow'}
          \/ \E d \in Registrations : calls'[d].at = "cacheWorkflow"
      BY <1>1, <2>1, <3>2, <3>5 DEF Undisturbed, Coherent
    <3>7. \/ cached'.schema = None
          \/ Registry!Registered' # {} /\ cached'.schema = Registry!Latest'.content
      BY <1>4, <2>1, <3>3 DEF Undisturbed, Coherent
    <3> QED
      BY <3>4, <3>6, <3>7 DEF Coherent
  <2>4. Chained'
    BY <1>1, <1>4, <2>1 DEF Undisturbed, Chained
  <2>5. Allowed(calls[c])' /\ Stored(calls[c])'
    BY <1>3, <2>1 DEF Allowed, Stored, Writing
  <2>6. \A d \in Registrations : Allowed(calls[d])' /\ Stored(calls[d])'
    BY <1>1, <1>4, <2>1, <2>5 DEF Undisturbed, Allowed, Stored
  <2> QED
    BY <2>2, <2>3, <2>4, <2>6 DEF Undisturbed
<1> QED
  BY <1>3, <1>5, <1>6, <1>7 DEF RegistryInv

\* Entries are dropped from the cache, or nothing happens.
LEMMA DropStep ==
  ASSUME RegistryInv, Registry!DropCached \/ UNCHANGED Registry!vars
  PROVE  RegistryInv'
<1>1. /\ UNCHANGED <<packages, workflow, calls, packageFaults, packageDisturbed>>
      /\ cached' \in [Registry!Entries -> Contents \cup {None}]
      /\ \A e \in Registry!Entries : cached'[e] \in {None, cached[e]}
  BY DEF RegistryInv, Registry!TypeOK, Registry!DropCached, Registry!vars
<1>2. Registry!TypeOK'
  BY <1>1 DEF RegistryInv, Registry!TypeOK
<1>3. Registry!Registered' = Registry!Registered /\ Registry!Latest' = Registry!Latest
  BY <1>1 DEF Registry!Registered, Registry!Latest
<1>4. HasLatest' /\ \A c \in Registrations : AskedBy(calls[c])'
  BY <1>1, <1>3 DEF RegistryInv, HasLatest, AskedBy
<1>5. ASSUME ~packageDisturbed' PROVE Undisturbed'
  <2>1. Undisturbed
    BY <1>1, <1>5 DEF RegistryInv
  <2>2. OneWrites' /\ Chained'
    BY <1>1, <1>3, <2>1 DEF Undisturbed, OneWrites, Chained
  <2>3. Coherent'
    <3>1. cached'.workflow \in {None, cached.workflow} /\ cached'.schema \in {None, cached.schema}
      BY <1>1 DEF Registry!Entries
    <3> QED
      BY <1>1, <1>3, <2>1, <3>1 DEF Undisturbed, Coherent
  <2>4. \A d \in Registrations : Allowed(calls[d])' /\ Stored(calls[d])'
    BY <1>1, <1>3, <2>1 DEF Undisturbed, Allowed, Stored
  <2> QED
    BY <2>2, <2>3, <2>4 DEF Undisturbed
<1> QED
  BY <1>1, <1>2, <1>4, <1>5 DEF RegistryInv

\* The invariant holds when nothing is registered, and is inductive.
LEMMA RegistryInit ==
  ASSUME Registry!PackagesAssumption
  PROVE  Registry!Init => RegistryInv
<1> SUFFICES ASSUME Registry!Init PROVE RegistryInv
  OBVIOUS
<1>1. Registry!Registered = {}
  BY DEF Registry!Init, Registry!Registered
<1>2. Registry!TypeOK
  <2>1. [at |-> "new", op |-> "package", version |-> None, content |-> None] \in Registry!Call
    BY DEF Registry!Call
  <2>2. 0 \in 0..MaxFaults
    BY DEF Registry!PackagesAssumption
  <2> QED
    BY <2>1, <2>2 DEF Registry!Init, Registry!TypeOK
<1>3. \A c \in Registrations : calls[c].at = "new"
  BY DEF Registry!Init
<1>4. \A c \in Registrations : AskedBy(calls[c]) /\ Allowed(calls[c]) /\ Stored(calls[c])
  BY <1>3 DEF AskedBy, Allowed, Stored, Writing
<1>5. HasLatest /\ OneWrites /\ Chained
  BY <1>1, <1>3 DEF HasLatest, OneWrites, Chained, Writing
<1>6. Coherent
  BY <1>3 DEF Registry!Init, Registry!Entries, Coherent
<1> QED
  BY <1>2, <1>4, <1>5, <1>6 DEF RegistryInv, Undisturbed

LEMMA RegistryStep ==
  ASSUME Registry!PackagesAssumption
  PROVE  RegistryInv /\ [Registry!Next]_Registry!vars => RegistryInv'
<1> SUFFICES ASSUME RegistryInv, [Registry!Next]_Registry!vars PROVE RegistryInv'
  OBVIOUS
<1>1. ASSUME NEW c \in Registrations, NEW x \in Contents,
             Registry!RegisterWorkflow(c, x) \/ \E v \in Versions : Registry!Register(c, v, x)
      PROVE  RegistryInv'
  BY <1>1, RegisterStep
<1>2. ASSUME NEW c \in Registrations,
             \/ Registry!Look(c) \/ Registry!Check(c) \/ Registry!BreakOff(c)
             \/ Registry!SaveWorkflow(c) \/ Registry!CacheWorkflow(c) \/ Registry!CacheSchema(c)
             \/ Registry!SavePackage(c) \/ Registry!Fill(c)
      PROVE  RegistryInv'
  BY <1>2, LookStep, BreakOffStep, SaveWorkflowStep, CacheWorkflowStep, CacheSchemaStep,
     SavePackageStep, FillStep
<1>3. ASSUME NEW c \in Registrations,
             Registry!LoadStored(c) \/ \E e \in Registry!Entries : Registry!Get(c, e)
      PROVE  RegistryInv'
  BY <1>3, ReadStep
<1> QED
  BY <1>1, <1>2, <1>3, DropStep DEF Registry!Next

\* When nobody is about to act, nobody is about to put anything in the cache.
LEMMA RegistryKept == RegistryInv => CacheCoherent
<1> SUFFICES ASSUME RegistryInv, ~packageDisturbed, Registry!Acting = {}
             PROVE  /\ cached.workflow \in {None, workflow}
                    /\ cached.schema # None =>
                         Registry!Registered # {} /\ cached.schema = Registry!Latest.content
                    /\ Chained
  BY DEF CacheCoherent, Registry!CacheCoherent, Chained
<1>1. \A c \in Registrations : calls[c].at \notin {"cacheWorkflow", "savePackage"}
  BY DEF Registry!Acting
<1> QED
  BY <1>1 DEF RegistryInv, Undisturbed, Coherent

(***************************************************************************)
(* The cache has the stored workflow and the schema of the latest version, *)
(* or nothing, and the versions are upgrades of each other, for any calls, *)
(* versions and contents (registerDomainPackage checks before it writes,   *)
(* and a write that nobody has read around finds what was checked).        *)
(***************************************************************************)
THEOREM CacheFollowsStore ==
  ASSUME Registry!PackagesAssumption
  PROVE  Registry!Spec => []CacheCoherent
BY RegistryInit, RegistryStep, RegistryKept, PTL DEF Registry!Spec

-----------------------------------------------------------------------------
(***************************************************************************)
(* The migrations of packages: first, what a plan is.                      *)
(***************************************************************************)
\* The step that comes n-th on the path g from the version v.
Onward(v, g, n) ==
  LET here == IF n = 0 THEN v
              ELSE IF g[n - 1] = None THEN None ELSE To[g[n - 1]]
  IN  IF here = None \/ Migrator!Leaving(here) = {} THEN None
      ELSE Migrator!Min(Migrator!Leaving(here))

Last == Migrator!Cardinality(Migrations)

\* The steps there are can be counted.
LEMMA LastType ==
  ASSUME Migrator!MigrationsAssumption
  PROVE  Last \in Nat
<1>1. IsFiniteSet(Migrations)
  BY DEF Migrator!MigrationsAssumption, Migrator!IsFiniteSet, IsFiniteSet
<1>2. Migrator!Cardinality(Migrations) = Cardinality(Migrations)
  BY DEF Migrator!Cardinality, Cardinality, Migrator!IsFiniteSet, IsFiniteSet
<1> QED
  BY <1>1, <1>2, FS_CardinalityType DEF Last

\* What comes next is a step, or none.
LEMMA OnwardType ==
  ASSUME Migrator!MigrationsAssumption, NEW v, NEW g, NEW n
  PROVE  Onward(v, g, n) \in Migrations \cup {None}
<1> DEFINE here == IF n = 0 THEN v
                   ELSE IF g[n - 1] = None THEN None ELSE To[g[n - 1]]
<1>1. CASE here # None /\ Migrator!Leaving(here) # {}
  <2>1. Migrator!Leaving(here) \in SUBSET Migrations /\ Migrator!Leaving(here) \in SUBSET Nat
    BY DEF Migrator!Leaving, Migrator!MigrationsAssumption
  <2> HIDE DEF here
  <2>2. PICK m \in Migrator!Leaving(here) : \A q \in Migrator!Leaving(here) : m <= q
    BY <1>1, <2>1, NatLeast
  <2>3. Migrator!Min(Migrator!Leaving(here)) \in Migrations
    BY <2>1, <2>2 DEF Migrator!Min
  <2> QED
    BY <1>1, <2>3 DEF Onward, here
<1>2. CASE here = None \/ Migrator!Leaving(here) = {}
  BY <1>2 DEF Onward
<1> QED
  BY <1>1, <1>2

\* There is a path of any length.
LEMMA PathExists ==
  ASSUME Migrator!MigrationsAssumption, NEW v, NEW n \in Nat
  PROVE  \E g \in [0..n -> Migrations \cup {None}] : \A k \in 0..n : g[k] = Onward(v, g, k)
<1> DEFINE IsPath(g, m) == \A k \in 0..m : g[k] = Onward(v, g, k)
           Bad == {m \in Nat : ~ \E g \in [0..m -> Migrations \cup {None}] : IsPath(g, m)}
<1> SUFFICES Bad = {}
  OBVIOUS
<1> SUFFICES ASSUME Bad # {} PROVE FALSE
  OBVIOUS
<1>1. PICK m \in Bad : \A q \in Bad : m <= q
  <2>1. Bad \in SUBSET Nat
    OBVIOUS
  <2> HIDE DEF Bad
  <2> QED
    BY <2>1, NatLeast
<1>2. CASE m = 0
  <2> DEFINE g == [k \in 0..0 |-> Onward(v, <<>>, 0)]
  <2>1. g \in [0..0 -> Migrations \cup {None}]
    BY OnwardType
  <2>2. IsPath(g, 0)
    BY DEF Onward
  <2> QED
    BY <1>1, <1>2, <2>1, <2>2
<1>3. CASE m # 0
  <2>1. m - 1 \in Nat /\ m - 1 \notin Bad /\ m \in Nat
    BY <1>1, <1>3
  <2>2. PICK g \in [0..(m - 1) -> Migrations \cup {None}] : IsPath(g, m - 1)
    BY <2>1
  <2> DEFINE h == [k \in 0..m |-> IF k = m THEN Onward(v, g, m) ELSE g[k]]
  <2>3. h \in [0..m -> Migrations \cup {None}]
    BY <2>1, OnwardType
  <2>4. h[m] = Onward(v, g, m) /\ \A k \in 0..(m - 1) : h[k] = g[k]
    BY <2>1
  <2> HIDE DEF h
  <2>5. ASSUME NEW k \in 0..m PROVE h[k] = Onward(v, h, k)
    <3>1. k # 0 => k - 1 \in 0..(m - 1) /\ h[k - 1] = g[k - 1]
      BY <2>1, <2>4
    <3>2. Onward(v, h, k) = Onward(v, g, k)
      BY <3>1 DEF Onward
    <3>3. CASE k = m
      BY <2>4, <3>2, <3>3
    <3>4. CASE k # m
      <4>1. k \in 0..(m - 1)
        BY <2>1, <3>4
      <4> QED
        BY <2>2, <2>4, <3>2, <4>1
    <3> QED
      BY <3>3, <3>4
  <2> QED
    BY <1>1, <2>3, <2>5
<1> QED
  BY <1>2, <1>3

\* StepsFrom is such a path.
LEMMA StepsFromIs ==
  ASSUME Migrator!MigrationsAssumption, NEW v
  PROVE  /\ Migrator!StepsFrom(v) \in [0..Last -> Migrations \cup {None}]
         /\ \A k \in 0..Last : Migrator!StepsFrom(v)[k] = Onward(v, Migrator!StepsFrom(v), k)
<1>1. PICK g \in [0..Last -> Migrations \cup {None}] : \A k \in 0..Last : g[k] = Onward(v, g, k)
  BY LastType, PathExists
<1>2. g = [k \in 0..Last |-> Onward(v, g, k)]
  BY <1>1
<1> DEFINE F == CHOOSE f : f = [k \in 0..Last |-> Onward(v, f, k)]
<1>3. F = [k \in 0..Last |-> Onward(v, F, k)]
  BY <1>2
<1>4. Migrator!StepsFrom(v) = F
  BY DEF Migrator!StepsFrom, Onward, Last
<1> HIDE DEF F
<1>5. F \in [0..Last -> Migrations \cup {None}]
  BY <1>3, OnwardType
<1> QED
  BY <1>3, <1>4, <1>5

\* A plan is a sequence of steps.
LEMMA PlanType ==
  ASSUME Migrator!MigrationsAssumption, NEW from, NEW to
  PROVE  Migrator!Plan(from, to) \in Seq(Migrations)
<1> DEFINE path == Migrator!StepsFrom(from)
           ends == {n \in DOMAIN path : path[n] # None /\ To[path[n]] = to}
<1>1. /\ path \in [0..Last -> Migrations \cup {None}]
      /\ \A k \in 0..Last : path[k] = Onward(from, path, k)
  BY StepsFromIs
<1>2. Last \in Nat /\ ends \in SUBSET Nat /\ ends \subseteq 0..Last
  BY <1>1, LastType
<1>3. CASE ends = {}
  BY <1>3 DEF Migrator!Plan
<1>4. CASE ends # {}
  <2>1. PICK m \in ends : \A q \in ends : m <= q
    BY <1>2, <1>4, NatLeast
  <2>2. m \in 0..Last /\ path[m] # None
    BY <1>2, <2>1
  <2>3. Migrator!Min(ends) = m
    <3>1. Migrator!Min(ends) \in ends /\ \A q \in ends : Migrator!Min(ends) =< q
      BY <2>1 DEF Migrator!Min
    <3>2. PICK q \in ends : q = Migrator!Min(ends) /\ q =< m
      BY <2>1, <3>1
    <3> HIDE DEF ends
    <3>3. q \in Nat /\ m \in Nat /\ m <= q
      BY <1>2, <2>1
    <3> QED
      BY <3>2, <3>3
  <2>4. ASSUME NEW k \in 0..m, path[k] = None PROVE FALSE
    <3> DEFINE later == {j \in Nat : k <= j /\ j <= m /\ path[j] # None}
    <3>1. m \in later /\ later \in SUBSET Nat
      BY <2>2, <2>4
    <3>2. PICK j \in later : \A q \in later : j <= q
      BY <3>1, NatLeast
    <3>3. j \in Nat /\ k <= j /\ j <= m /\ path[j] # None /\ j # k
      BY <2>4, <3>2
    <3>4. j - 1 \in Nat /\ k <= j - 1 /\ j - 1 <= m /\ j - 1 \notin later
      BY <2>2, <3>2, <3>3
    <3>5. path[j - 1] = None
      BY <3>4
    <3>6. j \in 0..Last /\ j # 0
      BY <1>2, <2>2, <2>4, <3>3
    <3>7. path[j] = None
      BY <1>1, <3>5, <3>6 DEF Onward
    <3> QED
      BY <3>3, <3>7
  <2>5. \A n \in 1..(m + 1) : path[n - 1] \in Migrations
    <3> SUFFICES ASSUME NEW n \in 1..(m + 1) PROVE path[n - 1] \in Migrations
      OBVIOUS
    <3>1. n - 1 \in 0..m /\ n - 1 \in 0..Last
      BY <1>2, <2>2
    <3> HIDE DEF path
    <3> QED
      BY <1>1, <2>4, <3>1
  <2>6. Migrator!Plan(from, to) = [n \in 1..(m + 1) |-> path[n - 1]]
    BY <1>4, <2>3 DEF Migrator!Plan
  <2> HIDE DEF path
  <2> QED
    BY <1>2, <2>2, <2>5, <2>6
<1> QED
  BY <1>3, <1>4

-----------------------------------------------------------------------------
(***************************************************************************)
(* Then the calls that handle the steps of their plans.                    *)
(***************************************************************************)
AtHand == {"handle", "applied", "failed"}

\* A call stays on its plan, one at a step that it has; a new one has handlers.
OnPlan(k) ==
  /\ k.next <= Len(k.plan) + 1
  /\ k.at \in AtHand \cup {"look"} => k.next <= Len(k.plan)
  /\ k.at = "new" => k.handlers

\* The handler of the step has ended, as its record or the call that will write it knows.
Ended(s) ==
  \/ migrations[s] = "applied"
  \/ \E r \in Migrator!Handling(s) : runs[r].at = "applied"

\* A step no two calls were handling at once: who handles it is alone and handles it
\* for a reason, and who has handled it is known.
Fine(s) ==
  /\ \A r \in Migrator!Handling(s) : \A q \in Migrator!Handling(s) : r = q
  /\ Migrator!Handling(s) # {} => migrations[s] # "applied"
  /\ handled[s] <= 1 + migrationFaults[s]
  /\ ~Ended(s) => handled[s] <= migrationFaults[s]
  /\ Ended(s) /\ handled[s] = 0 =>
       \E r \in Runners : ~runs[r].handlers /\ s \in Migrator!ToSet(runs[r].plan)

\* The steps a call has gone past are applied.
Passed(k) ==
  ~k.dryRun =>
    \A n \in 1..(k.next - 1) : k.plan[n] \notin shared => migrations[k.plan[n]] = "applied"

MigratorInv ==
  /\ Migrator!TypeOK
  /\ \A r \in Runners : OnPlan(runs[r]) /\ Passed(runs[r])
  /\ \A s \in Migrations \ shared : Fine(s)

\* A call at a step has the step.
LEMMA CurrentType ==
  ASSUME MigratorInv, NEW r \in Runners, runs[r].at \in AtHand \cup {"look"}
  PROVE  /\ runs[r] \in Migrator!Run
         /\ runs[r].plan \in Seq(Migrations) /\ runs[r].next \in 1..Len(runs[r].plan)
         /\ Migrator!Current(r) \in Migrations
         /\ Migrator!Current(r) = runs[r].plan[runs[r].next]
         /\ Migrator!Current(r) \in Migrator!ToSet(runs[r].plan)
<1>1. /\ runs[r] \in Migrator!Run /\ runs[r].plan \in Seq(Migrations) /\ runs[r].next \in Nat \ {0}
      /\ runs[r].next <= Len(runs[r].plan)
  BY DEF MigratorInv, Migrator!TypeOK, Migrator!Run, OnPlan
<1>2. runs[r].next \in 1..Len(runs[r].plan)
  BY <1>1
<1> QED
  BY <1>1, <1>2 DEF Migrator!Current, Migrator!ToSet

(***************************************************************************)
(* A step of a plan that a call has nothing to do with, before and after   *)
(* it moves.                                                               *)
(***************************************************************************)
LEMMA OtherStep ==
  ASSUME MigratorInv, NEW r \in Runners, NEW k \in Migrator!Run,
         runs' = [runs EXCEPT ![r] = k],
         runs[r].handlers \/ (k.handlers = runs[r].handlers /\ k.plan = runs[r].plan),
         NEW s \in Migrations \ shared,
         r \notin Migrator!Handling(s),
         ~ (k.at \in AtHand /\ k.plan[k.next] = s),
         migrations'[s] = migrations[s], handled'[s] = handled[s],
         migrationFaults'[s] = migrationFaults[s]
  PROVE  Fine(s)'
<1>1. /\ runs'[r] = k
      /\ \A q \in Runners : q # r => runs'[q] = runs[q]
  BY DEF MigratorInv, Migrator!TypeOK
<1>2. Migrator!Handling(s)' = Migrator!Handling(s)
  BY <1>1 DEF Migrator!Handling, Migrator!Current, AtHand
<1>3. \A q \in Migrator!Handling(s) : runs'[q] = runs[q]
  BY <1>1 DEF Migrator!Handling
<1>4. Ended(s)' = Ended(s)
  BY <1>2, <1>3 DEF Ended
<1>5. \A q \in Runners : ~runs[q].handlers =>
        ~runs'[q].handlers /\ runs'[q].plan = runs[q].plan
  BY <1>1
<1> QED
  BY <1>2, <1>4, <1>5 DEF MigratorInv, Fine

(***************************************************************************)
(* What is left to show of a call that moves: of the call itself that it   *)
(* stays on its plan and past steps that are applied, of the step it is at *)
(* that all is well.                                                       *)
(***************************************************************************)
LEMMA RunMoves ==
  ASSUME MigratorInv, NEW r \in Runners, NEW k \in Migrator!Run,
         runs' = [runs EXCEPT ![r] = k],
         runs[r].handlers \/ (k.handlers = runs[r].handlers /\ k.plan = runs[r].plan),
         NEW s \in Migrations,
         runs[r].at \in AtHand => Migrator!Current(r) = s,
         k.at \in AtHand => k.plan[k.next] = s,
         OnPlan(k), Passed(k)',
         \A t \in Migrations \ {s} :
           /\ migrations'[t] = migrations[t] /\ handled'[t] = handled[t]
           /\ migrationFaults'[t] = migrationFaults[t],
         shared \subseteq shared',
         s \notin shared => migrations'[s] = migrations[s] \/ migrations[s] # "applied",
         s \notin shared' => Fine(s)',
         migrations' \in [Migrations -> {None, "applied", "failed"}],
         handled' \in [Migrations -> Nat], migrationFaults' \in [Migrations -> Nat],
         shared' \subseteq Migrations
  PROVE  MigratorInv'
<1>1. /\ runs'[r] = k
      /\ \A q \in Runners : q # r => runs'[q] = runs[q]
  BY DEF MigratorInv, Migrator!TypeOK
<1>2. Migrator!TypeOK'
  <2>1. runs' \in [Runners -> Migrator!Run]
    BY DEF MigratorInv, Migrator!TypeOK
  <2> QED
    BY <2>1 DEF Migrator!TypeOK
<1>3. ASSUME NEW t \in Migrations \ shared' PROVE Fine(t)'
  <2>1. CASE t = s
    BY <2>1
  <2>2. CASE t # s
    <3>1. t \in Migrations \ shared /\ r \notin Migrator!Handling(t)
      BY <2>2 DEF Migrator!Handling, AtHand
    <3> QED
      BY <2>2, <3>1, OtherStep
  <2> QED
    BY <2>1, <2>2
<1>4. ASSUME NEW q \in Runners, q # r PROVE OnPlan(runs[q])' /\ Passed(runs[q])'
  <2>1. OnPlan(runs[q])'
    BY <1>1, <1>4 DEF MigratorInv, OnPlan
  <2>2. Passed(runs[q])'
    <3> SUFFICES ASSUME ~runs[q].dryRun, NEW n \in 1..(runs[q].next - 1),
                        runs[q].plan[n] \notin shared'
                 PROVE  migrations'[runs[q].plan[n]] = "applied"
      BY <1>1, <1>4 DEF Passed
    <3>1. migrations[runs[q].plan[n]] = "applied"
      BY DEF MigratorInv, Passed
    <3>2. runs[q].plan[n] \in Migrations
      <4>1. /\ runs[q].plan \in Seq(Migrations) /\ runs[q].next \in Nat
            /\ runs[q].next <= Len(runs[q].plan) + 1
        BY DEF MigratorInv, Migrator!TypeOK, Migrator!Run, OnPlan
      <4>2. n \in 1..Len(runs[q].plan)
        BY <4>1
      <4> QED
        BY <4>1, <4>2
    <3> QED
      BY <3>1, <3>2
  <2> QED
    BY <2>1, <2>2
<1>5. OnPlan(runs[r])' /\ Passed(runs[r])'
  BY <1>1 DEF OnPlan, Passed
<1> QED
  BY <1>2, <1>3, <1>4, <1>5 DEF MigratorInv

\* A call that moves on with the same step is still a call on its plan.
LEMMA MoveOn ==
  ASSUME MigratorInv, NEW r \in Runners, runs[r].at \in AtHand \cup {"look"},
         NEW at \in {"handle", "applied", "failed", "threw", "died"}, Migrator!Goto(r, at)
  PROVE  \E k \in Migrator!Run :
           /\ runs' = [runs EXCEPT ![r] = k]
           /\ OnPlan(k) /\ Passed(k)
           /\ k.at = at /\ k.next = runs[r].next /\ k.plan = runs[r].plan
           /\ k.handlers = runs[r].handlers /\ k.dryRun = runs[r].dryRun
<1> DEFINE k == [runs[r] EXCEPT !.at = at]
<1>1. /\ runs[r] \in Migrator!Run
      /\ runs[r].next <= Len(runs[r].plan) + 1 /\ runs[r].next <= Len(runs[r].plan)
  BY DEF MigratorInv, Migrator!TypeOK, OnPlan
<1>2. /\ k \in Migrator!Run
      /\ k.at = at /\ k.next = runs[r].next /\ k.plan = runs[r].plan
      /\ k.handlers = runs[r].handlers /\ k.dryRun = runs[r].dryRun
  BY <1>1 DEF Migrator!Run
<1>3. runs' = [runs EXCEPT ![r] = k]
  BY DEF Migrator!Goto, MigratorInv, Migrator!TypeOK
<1> HIDE DEF k
<1>4. OnPlan(k) /\ Passed(k)
  BY <1>1, <1>2 DEF OnPlan, MigratorInv, Passed
<1> QED
  BY <1>2, <1>3, <1>4

\* A call that goes past a step is a call on its plan.
LEMMA Advances ==
  ASSUME MigratorInv, NEW r \in Runners, runs[r].at \in AtHand \cup {"look"},
         Migrator!Advance(r)
  PROVE  \E k \in Migrator!Run :
           /\ runs' = [runs EXCEPT ![r] = k]
           /\ OnPlan(k) /\ k.at \in {"look", "done"}
           /\ k.next = runs[r].next + 1 /\ k.plan = runs[r].plan
           /\ k.handlers = runs[r].handlers /\ k.dryRun = runs[r].dryRun
<1> DEFINE at == IF runs[r].next = Len(runs[r].plan) THEN "done" ELSE "look"
           k == [runs[r] EXCEPT !.next = @ + 1, !.at = at]
<1>1. /\ runs[r] \in Migrator!Run /\ runs[r].plan \in Seq(Migrations)
      /\ runs[r].next \in Nat \ {0} /\ runs[r].next <= Len(runs[r].plan)
  BY DEF MigratorInv, Migrator!TypeOK, Migrator!Run, OnPlan
<1>2. /\ at \in {"look", "done"} /\ (at = "look" => runs[r].next + 1 <= Len(runs[r].plan))
      /\ runs[r].next + 1 \in Nat \ {0}
  BY <1>1
<1>3. runs' = [runs EXCEPT ![r] = k]
  BY DEF Migrator!Advance, MigratorInv, Migrator!TypeOK
<1> HIDE DEF at
<1>4. /\ k \in Migrator!Run
      /\ k.at = at /\ k.next = runs[r].next + 1 /\ k.plan = runs[r].plan
      /\ k.handlers = runs[r].handlers /\ k.dryRun = runs[r].dryRun
  BY <1>1, <1>2 DEF Migrator!Run
<1> HIDE DEF k
<1>5. OnPlan(k)
  <2>1. Len(runs[r].plan) \in Nat
    BY <1>1
  <2> QED
    BY <1>1, <1>2, <1>4, <2>1 DEF OnPlan, AtHand
<1> QED
  BY <1>2, <1>3, <1>4, <1>5

\* A call starts.
LEMMA StartStep ==
  ASSUME Migrator!MigrationsAssumption, MigratorInv, NEW r \in Runners,
         NEW from \in Formats, NEW to \in Formats,
         NEW dryRun \in BOOLEAN, NEW handlers \in BOOLEAN, NEW required \in BOOLEAN,
         Migrator!Start(r, from, to, dryRun, handlers, required)
  PROVE  MigratorInv'
<1> DEFINE plan == Migrator!Plan(from, to)
           k == [at |-> IF plan = <<>> THEN "threw" ELSE "look", plan |-> plan, next |-> 1,
                 dryRun |-> dryRun, handlers |-> handlers, required |-> required]
<1>1. plan \in Seq(Migrations)
  BY PlanType
<1>2. /\ runs' = [runs EXCEPT ![r] = k] /\ runs[r].at = "new" /\ runs[r].handlers
      /\ UNCHANGED <<migrations, handled, migrationFaults, shared>>
  BY DEF Migrator!Start, Migrator!At, MigratorInv, OnPlan
<1> HIDE DEF plan
<1>3. k \in Migrator!Run /\ k.at \in {"threw", "look"}
  BY <1>1 DEF Migrator!Run
<1>4. OnPlan(k)
  <2>1. Len(plan) \in Nat /\ (plan # <<>> => 1 <= Len(plan))
    BY <1>1
  <2> QED
    BY <2>1 DEF OnPlan, AtHand
<1>5. \A n \in 1..(k.next - 1) : FALSE
  OBVIOUS
<1>6. runs'[r] = k /\ \A q \in Runners : q # r => runs'[q] = runs[q]
  BY <1>2 DEF MigratorInv, Migrator!TypeOK
<1>k. PICK j \in Migrator!Run :
        /\ j.at \notin AtHand /\ runs' = [runs EXCEPT ![r] = j]
  BY <1>2, <1>3 DEF AtHand
<1> HIDE DEF k
<1>7. Migrator!TypeOK'
  BY <1>2, <1>3 DEF MigratorInv, Migrator!TypeOK
<1>8. \A s \in Migrations \ shared : Fine(s)'
  <2> SUFFICES ASSUME NEW s \in Migrations \ shared PROVE Fine(s)'
    OBVIOUS
  <2>1. r \notin Migrator!Handling(s)
    BY <1>2 DEF Migrator!Handling
  <2>2. /\ migrations'[s] = migrations[s] /\ handled'[s] = handled[s]
        /\ migrationFaults'[s] = migrationFaults[s]
    BY <1>2
  <2> QED
    BY <1>2, <1>k, <2>1, <2>2, OtherStep
<1>9. \A q \in Runners : OnPlan(runs[q])' /\ Passed(runs[q])'
  BY <1>2, <1>4, <1>5, <1>6 DEF MigratorInv, OnPlan, Passed
<1> QED
  BY <1>2, <1>7, <1>8, <1>9 DEF MigratorInv

\* The step it is at is handled by the call, and by no other unless it is shared.
LEMMA HandlingAlone ==
  ASSUME MigratorInv, NEW r \in Runners, runs[r].at \in AtHand,
         NEW s, s = Migrator!Current(r), s \notin shared
  PROVE  /\ Migrator!Handling(s) = {r} /\ migrations[s] # "applied" /\ Fine(s)
         /\ handled[s] <= 1 + migrationFaults[s]
         /\ runs[r].at # "applied" => handled[s] <= migrationFaults[s]
<1>1. s \in Migrations /\ Fine(s)
  BY CurrentType DEF MigratorInv
<1>2. r \in Migrator!Handling(s)
  BY DEF Migrator!Handling, AtHand
<1>3. Migrator!Handling(s) = {r}
  BY <1>1, <1>2 DEF Fine
<1> QED
  BY <1>1, <1>3 DEF Fine, Ended

\* After a step of the call r, its step s is handled by r if it is still there.
LEMMA HandlingAfter ==
  ASSUME MigratorInv, NEW r \in Runners, NEW k \in Migrator!Run,
         runs' = [runs EXCEPT ![r] = k], NEW s
  PROVE  /\ runs'[r] = k
         /\ k.at \in AtHand /\ k.plan[k.next] = s =>
              Migrator!Handling(s)' = Migrator!Handling(s) \cup {r}
         /\ ~ (k.at \in AtHand /\ k.plan[k.next] = s) =>
              Migrator!Handling(s)' = Migrator!Handling(s) \ {r}
<1>1. runs'[r] = k /\ \A q \in Runners : q # r => runs'[q] = runs[q]
  BY DEF MigratorInv, Migrator!TypeOK
<1> QED
  BY <1>1 DEF Migrator!Handling, Migrator!Current, AtHand

\* The handler ends, or throws.
LEMMA HandlerStep ==
  ASSUME Migrator!MigrationsAssumption, MigratorInv, NEW r \in Runners,
         Migrator!HandlerEnds(r) \/ Migrator!HandlerThrows(r)
  PROVE  MigratorInv'
<1>1. /\ runs[r].at = "handle" /\ UNCHANGED <<migrations, migrationFaults, shared>>
  BY DEF Migrator!HandlerEnds, Migrator!HandlerThrows, Migrator!At
<1>2. PICK s \in Migrations : /\ s = Migrator!Current(r) /\ s = runs[r].plan[runs[r].next]
                             /\ s \in Migrator!ToSet(runs[r].plan)
  BY <1>1, CurrentType DEF AtHand
<1>3. PICK at \in {"applied", "failed"} :
        /\ Migrator!Goto(r, at)
        /\ IF at = "applied" /\ runs[r].handlers
             THEN handled' = [handled EXCEPT ![s] = @ + 1] ELSE handled' = handled
  BY <1>2 DEF Migrator!HandlerEnds, Migrator!HandlerThrows
<1>4. PICK k \in Migrator!Run :
        /\ OnPlan(k) /\ Passed(k)
        /\ k.at = at /\ k.next = runs[r].next /\ k.plan = runs[r].plan
        /\ k.handlers = runs[r].handlers /\ k.dryRun = runs[r].dryRun
        /\ runs' = [runs EXCEPT ![r] = k]
  BY <1>1, <1>3, MoveOn DEF AtHand
<1>5. /\ handled' \in [Migrations -> Nat]
      /\ \A t \in Migrations \ {s} : handled'[t] = handled[t]
      /\ handled'[s] = IF at = "applied" /\ runs[r].handlers THEN handled[s] + 1 ELSE handled[s]
  BY <1>2, <1>3 DEF MigratorInv, Migrator!TypeOK
<1>6. Passed(k)'
  BY <1>1, <1>4 DEF Passed
<1>7. ASSUME s \notin shared PROVE Fine(s)'
  <2>1. /\ Migrator!Handling(s) = {r} /\ migrations[s] # "applied"
        /\ handled[s] <= migrationFaults[s]
    BY <1>1, <1>2, <1>7, HandlingAlone DEF AtHand
  <2>2. Migrator!Handling(s)' = {r} /\ runs'[r] = k
    <3>1. k.at \in AtHand /\ k.plan[k.next] = s
      BY <1>2, <1>4 DEF AtHand
    <3>2. runs'[r] = k /\ Migrator!Handling(s)' = Migrator!Handling(s) \cup {r}
      BY <1>4, <3>1, HandlingAfter
    <3> QED
      BY <2>1, <3>2
  <2>3. migrationFaults[s] \in Nat /\ handled[s] \in Nat
    BY <1>2 DEF MigratorInv, Migrator!TypeOK
  <2>4. Ended(s)' <=> at = "applied"
    BY <1>1, <1>4, <2>1, <2>2 DEF Ended
  <2>5. at = "applied" /\ handled'[s] = 0 => ~runs[r].handlers
    BY <1>5, <2>3
  <2>6. at = "applied" /\ handled'[s] = 0 =>
          \E q \in Runners : ~runs'[q].handlers /\ s \in Migrator!ToSet(runs'[q].plan)
    BY <1>2, <1>4, <2>2, <2>5
  <2>7. /\ handled'[s] <= 1 + migrationFaults'[s]
        /\ at # "applied" => handled'[s] <= migrationFaults'[s]
    BY <1>1, <1>5, <2>1, <2>3
  <2> QED
    BY <1>1, <2>1, <2>2, <2>4, <2>6, <2>7 DEF Fine
<1> QED
  BY <1>1, <1>2, <1>4, <1>5, <1>6, <1>7, RunMoves DEF MigratorInv, Migrator!TypeOK

\* The record of the step is looked at: the step is passed over, refused or handled.
LEMMA PlanLookStep ==
  ASSUME Migrator!MigrationsAssumption, MigratorInv, NEW r \in Runners, Migrator!Look(r)
  PROVE  MigratorInv'
<1>1. /\ runs[r].at = "look" /\ UNCHANGED <<migrations, handled, migrationFaults>>
      /\ shared' = shared \cup {s \in Migrations : Migrator!Cardinality(Migrator!Handling(s)') > 1}
  BY DEF Migrator!Look, Migrator!At
<1>2. PICK s \in Migrations : /\ s = Migrator!Current(r) /\ s = runs[r].plan[runs[r].next]
                             /\ s \in Migrator!ToSet(runs[r].plan)
  BY <1>1, CurrentType DEF AtHand
<1>3. /\ migrations \in [Migrations -> {None, "applied", "failed"}]
      /\ handled \in [Migrations -> Nat] /\ migrationFaults \in [Migrations -> Nat]
      /\ shared \subseteq shared' /\ shared' \subseteq Migrations
      /\ r \notin Migrator!Handling(s)
  BY <1>1 DEF MigratorInv, Migrator!TypeOK, Migrator!Handling
<1>4. ASSUME NEW k \in Migrator!Run, runs' = [runs EXCEPT ![r] = k], k.at \notin AtHand,
             k.handlers = runs[r].handlers, k.plan = runs[r].plan,
             OnPlan(k), Passed(k)'
      PROVE  MigratorInv'
  <2>1. s \notin shared => Fine(s)'
    BY <1>1, <1>3, <1>4, OtherStep
  <2> QED
    BY <1>1, <1>3, <1>4, <2>1, RunMoves DEF AtHand
<1>5. CASE Migrator!Advance(r) /\ (migrations[s] = "applied" \/ runs[r].dryRun)
  <2>1. PICK k \in Migrator!Run :
          /\ runs' = [runs EXCEPT ![r] = k]
          /\ OnPlan(k) /\ k.at \in {"look", "done"}
          /\ k.next = runs[r].next + 1 /\ k.plan = runs[r].plan
          /\ k.handlers = runs[r].handlers /\ k.dryRun = runs[r].dryRun
    BY <1>1, <1>5, Advances
  <2>2. Passed(k)'
    <3> SUFFICES ASSUME ~k.dryRun, NEW n \in 1..(k.next - 1), k.plan[n] \notin shared'
                 PROVE  migrations'[k.plan[n]] = "applied"
      BY DEF Passed
    <3>1. runs[r].next \in Nat
      BY DEF MigratorInv, Migrator!TypeOK, Migrator!Run
    <3>2. n = runs[r].next \/ n \in 1..(runs[r].next - 1)
      BY <2>1, <3>1
    <3> QED
      BY <1>1, <1>2, <1>3, <1>5, <2>1, <3>2 DEF MigratorInv, Passed
  <2> QED
    BY <1>4, <2>1, <2>2 DEF AtHand
<1>6. CASE Migrator!Goto(r, "threw")
  <2>1. PICK k \in Migrator!Run :
          /\ runs' = [runs EXCEPT ![r] = k]
          /\ OnPlan(k) /\ Passed(k) /\ k.at = "threw" /\ k.plan = runs[r].plan
          /\ k.handlers = runs[r].handlers
    BY <1>1, <1>6, MoveOn
  <2>2. Passed(k)'
    BY <1>1, <1>3, <2>1 DEF Passed
  <2> QED
    BY <1>4, <2>1, <2>2 DEF AtHand
<1>7. CASE Migrator!Goto(r, "handle") /\ migrations[s] # "applied"
  <2>1. PICK k \in Migrator!Run :
          /\ runs' = [runs EXCEPT ![r] = k]
          /\ OnPlan(k) /\ Passed(k) /\ k.at = "handle"
          /\ k.next = runs[r].next /\ k.plan = runs[r].plan
          /\ k.handlers = runs[r].handlers
    BY <1>1, <1>7, MoveOn
  <2>2. Passed(k)'
    BY <1>1, <1>3, <2>1 DEF Passed
  <2>3. ASSUME s \notin shared' PROVE Fine(s)'
    <3>1. s \notin shared /\ Fine(s)
      BY <1>3, <2>3 DEF MigratorInv
    <3>2. k.at \in AtHand /\ k.plan[k.next] = s
      BY <1>2, <2>1 DEF AtHand
    <3>3. runs'[r] = k /\ Migrator!Handling(s)' = Migrator!Handling(s) \cup {r}
      BY <2>1, <3>2, HandlingAfter
    <3>4. Migrator!Handling(s) = {}
      <4> SUFFICES ASSUME NEW q \in Migrator!Handling(s) PROVE FALSE
        OBVIOUS
      <4>1. Migrator!Handling(s)' = {q, r} /\ q # r
        BY <1>3, <3>1, <3>3 DEF Fine
      <4>2. IsFiniteSet({q, r}) /\ Cardinality({q, r}) = 2
        <5>1. IsFiniteSet({r}) /\ Cardinality({r}) = 1
          BY FS_Singleton
        <5>2. {q, r} = {r} \cup {q} /\ q \notin {r}
          BY <4>1
        <5>3. IsFiniteSet({r} \cup {q}) /\ Cardinality({r} \cup {q}) = Cardinality({r}) + 1
          BY <5>1, <5>2, FS_AddElement
        <5> QED
          BY <5>1, <5>2, <5>3
      <4>3. Migrator!Cardinality(Migrator!Handling(s)') = 2
        BY <4>1, <4>2 DEF Migrator!Cardinality, Cardinality, Migrator!IsFiniteSet, IsFiniteSet
      <4> QED
        BY <1>1, <2>3, <4>3
    <3>5. Migrator!Handling(s)' = {r} /\ runs'[r].at = "handle"
      BY <2>1, <3>3, <3>4
    <3>6. ~Ended(s) /\ ~Ended(s)'
      BY <1>1, <1>7, <3>4, <3>5 DEF Ended
    <3> QED
      BY <1>1, <1>7, <3>1, <3>5, <3>6 DEF Fine
  <2> QED
    BY <1>1, <1>2, <1>3, <2>1, <2>2, <2>3, RunMoves DEF AtHand
<1> QED
  BY <1>2, <1>5, <1>6, <1>7 DEF Migrator!Look

\* The step is recorded as applied, and the call goes on.
LEMMA SaveAppliedStep ==
  ASSUME Migrator!MigrationsAssumption, MigratorInv, NEW r \in Runners, Migrator!SaveApplied(r)
  PROVE  MigratorInv'
<1>1. /\ runs[r].at = "applied" /\ UNCHANGED <<handled, migrationFaults, shared>>
  BY DEF Migrator!SaveApplied, Migrator!At
<1>2. PICK s \in Migrations : /\ s = Migrator!Current(r) /\ s = runs[r].plan[runs[r].next]
                             /\ s \in Migrator!ToSet(runs[r].plan)
  BY <1>1, CurrentType DEF AtHand
<1>3. /\ migrations' \in [Migrations -> {None, "applied", "failed"}]
      /\ migrations'[s] = "applied"
      /\ \A t \in Migrations \ {s} : migrations'[t] = migrations[t]
      /\ handled \in [Migrations -> Nat] /\ migrationFaults \in [Migrations -> Nat]
      /\ shared \subseteq Migrations
  BY <1>2 DEF Migrator!SaveApplied, MigratorInv, Migrator!TypeOK
<1>4. PICK k \in Migrator!Run :
        /\ runs' = [runs EXCEPT ![r] = k]
        /\ OnPlan(k) /\ k.at \in {"look", "done"}
        /\ k.next = runs[r].next + 1 /\ k.plan = runs[r].plan
        /\ k.handlers = runs[r].handlers /\ k.dryRun = runs[r].dryRun
  BY <1>1, Advances DEF Migrator!SaveApplied, AtHand
<1>5. Passed(k)'
  <2> SUFFICES ASSUME ~k.dryRun, NEW n \in 1..(k.next - 1), k.plan[n] \notin shared
               PROVE  migrations'[k.plan[n]] = "applied"
    BY <1>1 DEF Passed
  <2>1. /\ runs[r].next \in Nat /\ runs[r].plan \in Seq(Migrations)
        /\ runs[r].next <= Len(runs[r].plan)
    BY <1>1 DEF MigratorInv, Migrator!TypeOK, Migrator!Run, OnPlan, AtHand
  <2>2. n = runs[r].next \/ n \in 1..(runs[r].next - 1)
    BY <1>4, <2>1
  <2>3. n \in 1..Len(runs[r].plan)
    BY <1>4, <2>1
  <2>4. runs[r].plan[n] \in Migrations
    BY <2>1, <2>3
  <2>5. k.plan[n] = s \/ migrations[k.plan[n]] = "applied"
    BY <1>2, <1>4, <2>2 DEF MigratorInv, Passed
  <2> QED
    BY <1>3, <1>4, <2>4, <2>5
<1>6. ASSUME s \notin shared PROVE Fine(s)'
  <2>1. /\ Migrator!Handling(s) = {r} /\ Fine(s)
        /\ handled[s] <= 1 + migrationFaults[s]
    BY <1>1, <1>2, <1>6, HandlingAlone DEF AtHand
  <2>2. Migrator!Handling(s)' = {}
    <3>1. k.at \notin AtHand
      BY <1>4 DEF AtHand
    <3>2. Migrator!Handling(s)' = Migrator!Handling(s) \ {r}
      BY <1>4, <3>1, HandlingAfter
    <3> QED
      BY <2>1, <3>2
  <2>3. Ended(s) /\ Ended(s)'
    BY <1>1, <1>3, <2>1 DEF Ended
  <2>4. handled[s] = 0 =>
          \E q \in Runners : ~runs[q].handlers /\ s \in Migrator!ToSet(runs[q].plan)
    BY <2>1, <2>3 DEF Fine
  <2>5. \A q \in Runners : runs'[q].handlers = runs[q].handlers /\ runs'[q].plan = runs[q].plan
    BY <1>4 DEF MigratorInv, Migrator!TypeOK
  <2> QED
    BY <1>1, <2>1, <2>2, <2>3, <2>4, <2>5 DEF Fine
<1>7. s \notin shared => migrations[s] # "applied"
  BY <1>1, <1>2, HandlingAlone DEF AtHand
<1>8. k.at \notin AtHand
  BY <1>4 DEF AtHand
<1> QED
  BY <1>1, <1>2, <1>3, <1>4, <1>5, <1>6, <1>7, <1>8, RunMoves

\* The save of an applied step throws, or the process dies: a fault of the step.
LEMMA FaultStep ==
  ASSUME Migrator!MigrationsAssumption, MigratorInv, NEW r \in Runners,
         Migrator!SaveThrows(r) \/ Migrator!Die(r)
  PROVE  MigratorInv'
<1>1. /\ runs[r].at \in AtHand \cup {"look"} /\ UNCHANGED <<migrations, handled, shared>>
  BY DEF Migrator!SaveThrows, Migrator!Die, Migrator!At, AtHand
<1>2. PICK s \in Migrations : /\ s = Migrator!Current(r) /\ s = runs[r].plan[runs[r].next]
                             /\ s \in Migrator!ToSet(runs[r].plan)
  BY <1>1, CurrentType
<1>3. PICK at \in {"failed", "died"} :
        /\ Migrator!Goto(r, at) /\ migrationFaults' = [migrationFaults EXCEPT ![s] = @ + 1]
        /\ at = "failed" => runs[r].at = "applied"
  BY <1>2 DEF Migrator!SaveThrows, Migrator!Die, Migrator!Fault, Migrator!At
<1>4. PICK k \in Migrator!Run :
        /\ runs' = [runs EXCEPT ![r] = k]
        /\ OnPlan(k) /\ Passed(k)
        /\ k.at = at /\ k.next = runs[r].next /\ k.plan = runs[r].plan
        /\ k.handlers = runs[r].handlers /\ k.dryRun = runs[r].dryRun
  BY <1>1, <1>3, MoveOn
<1>5. /\ migrationFaults' \in [Migrations -> Nat]
      /\ \A t \in Migrations \ {s} : migrationFaults'[t] = migrationFaults[t]
      /\ migrationFaults'[s] = migrationFaults[s] + 1
      /\ handled[s] \in Nat /\ migrationFaults[s] \in Nat
  BY <1>2, <1>3 DEF MigratorInv, Migrator!TypeOK
<1>6. Passed(k)'
  BY <1>1, <1>4 DEF Passed
<1>7. ASSUME s \notin shared PROVE Fine(s)'
  <2>1. Fine(s) /\ runs'[r] = k
    BY <1>2, <1>4, <1>7, HandlingAfter DEF MigratorInv
  <2>2. Migrator!Handling(s)' \subseteq Migrator!Handling(s)
    <3>1. CASE at = "died"
      <4>1. k.at \notin AtHand
        BY <1>4, <3>1 DEF AtHand
      <4>2. Migrator!Handling(s)' = Migrator!Handling(s) \ {r}
        BY <1>4, <4>1, HandlingAfter
      <4> QED
        BY <4>2
    <3>2. CASE at = "failed"
      <4>1. r \in Migrator!Handling(s)
        BY <1>2, <1>3, <3>2 DEF Migrator!Handling
      <4>2. k.at \in AtHand /\ k.plan[k.next] = s
        BY <1>2, <1>4, <3>2 DEF AtHand
      <4>3. Migrator!Handling(s)' = Migrator!Handling(s) \cup {r}
        BY <1>4, <4>2, HandlingAfter
      <4> QED
        BY <4>1, <4>3
    <3> QED
      BY <3>1, <3>2
  <2>3. Ended(s)' => Ended(s)
    <3>1. ASSUME NEW q \in Migrator!Handling(s)', runs'[q].at = "applied"
          PROVE  q \in Migrator!Handling(s) /\ runs[q].at = "applied"
      <4>1. q # r
        BY <1>4, <2>1, <3>1
      <4> QED
        BY <1>4, <2>2, <3>1, <4>1 DEF MigratorInv, Migrator!TypeOK, Migrator!Handling
    <3> QED
      BY <1>1, <3>1 DEF Ended
  <2>4. \A q \in Runners : runs'[q].handlers = runs[q].handlers /\ runs'[q].plan = runs[q].plan
    BY <1>4 DEF MigratorInv, Migrator!TypeOK
  <2>5. handled'[s] <= migrationFaults'[s]
    BY <1>1, <1>5, <2>1 DEF Fine
  <2> QED
    BY <1>1, <1>5, <2>1, <2>2, <2>3, <2>4, <2>5 DEF Fine
<1>8. k.at \in AtHand => k.plan[k.next] = s
  BY <1>2, <1>4
<1> QED
  BY <1>1, <1>2, <1>4, <1>5, <1>6, <1>7, <1>8, RunMoves DEF MigratorInv, Migrator!TypeOK

\* The step is recorded as failed, whatever record there was.
LEMMA SaveFailedStep ==
  ASSUME Migrator!MigrationsAssumption, MigratorInv, NEW r \in Runners, Migrator!SaveFailed(r)
  PROVE  MigratorInv'
<1>1. /\ runs[r].at = "failed" /\ UNCHANGED <<handled, migrationFaults, shared>>
  BY DEF Migrator!SaveFailed, Migrator!At
<1>2. PICK s \in Migrations : s = Migrator!Current(r)
  BY <1>1, CurrentType DEF AtHand
<1>3. /\ migrations' \in [Migrations -> {None, "applied", "failed"}]
      /\ migrations'[s] = "failed"
      /\ \A t \in Migrations \ {s} : migrations'[t] = migrations[t]
      /\ handled \in [Migrations -> Nat] /\ migrationFaults \in [Migrations -> Nat]
      /\ shared \subseteq Migrations
  BY <1>2 DEF Migrator!SaveFailed, MigratorInv, Migrator!TypeOK
<1>4. PICK k \in Migrator!Run :
        /\ runs' = [runs EXCEPT ![r] = k]
        /\ OnPlan(k) /\ Passed(k)
        /\ k.at = "threw" /\ k.next = runs[r].next /\ k.plan = runs[r].plan
        /\ k.handlers = runs[r].handlers /\ k.dryRun = runs[r].dryRun
  BY <1>1, MoveOn DEF Migrator!SaveFailed, AtHand
<1>5. k.at \notin AtHand
  BY <1>4 DEF AtHand
<1>6. s \notin shared =>
        /\ Migrator!Handling(s) = {r} /\ migrations[s] # "applied" /\ Fine(s)
        /\ handled[s] <= migrationFaults[s]
  BY <1>1, <1>2, HandlingAlone DEF AtHand
<1>7. Passed(k)'
  <2> SUFFICES ASSUME ~k.dryRun, NEW n \in 1..(k.next - 1), k.plan[n] \notin shared
               PROVE  migrations'[k.plan[n]] = "applied"
    BY <1>1 DEF Passed
  <2>1. migrations[k.plan[n]] = "applied"
    BY <1>4 DEF Passed
  <2>2. k.plan[n] \in Migrations
    <3>1. /\ runs[r].next \in Nat /\ runs[r].plan \in Seq(Migrations)
          /\ runs[r].next <= Len(runs[r].plan)
      BY <1>1 DEF MigratorInv, Migrator!TypeOK, Migrator!Run, OnPlan, AtHand
    <3>2. n \in 1..Len(runs[r].plan)
      BY <1>4, <3>1
    <3> QED
      BY <1>4, <3>1, <3>2
  <2> QED
    BY <1>3, <1>6, <2>1, <2>2
<1>8. ASSUME s \notin shared PROVE Fine(s)'
  <2>1. Migrator!Handling(s)' = {}
    <3>1. Migrator!Handling(s)' = Migrator!Handling(s) \ {r}
      BY <1>4, <1>5, HandlingAfter
    <3> QED
      BY <1>6, <1>8, <3>1
  <2>2. ~Ended(s)'
    BY <1>3, <2>1 DEF Ended
  <2>3. handled'[s] <= migrationFaults'[s] /\ handled'[s] <= 1 + migrationFaults'[s]
    BY <1>1, <1>2, <1>3, <1>6, <1>8
  <2> QED
    BY <2>1, <2>2, <2>3 DEF Fine
<1> QED
  BY <1>1, <1>2, <1>3, <1>4, <1>5, <1>6, <1>7, <1>8, RunMoves

\* The invariant is inductive.
LEMMA MigratorStep ==
  ASSUME Migrator!MigrationsAssumption
  PROVE  MigratorInv /\ [Migrator!Next]_Migrator!vars => MigratorInv'
<1> SUFFICES ASSUME MigratorInv, [Migrator!Next]_Migrator!vars PROVE MigratorInv'
  OBVIOUS
<1>1. CASE UNCHANGED Migrator!vars
  <2>1. UNCHANGED <<migrations, runs, handled, migrationFaults, shared>>
    BY <1>1 DEF Migrator!vars
  <2>2. \A s : Migrator!Handling(s)' = Migrator!Handling(s)
    BY <2>1 DEF Migrator!Handling, Migrator!Current
  <2>3. \A s : Fine(s)' <=> Fine(s)
    BY <2>1, <2>2 DEF Fine, Ended
  <2> QED
    BY <2>1, <2>3 DEF MigratorInv, Migrator!TypeOK, OnPlan, Passed
<1>2. ASSUME NEW r \in Runners, NEW from \in Formats, NEW to \in Formats,
             NEW dryRun \in BOOLEAN, NEW handlers \in BOOLEAN, NEW required \in BOOLEAN,
             Migrator!Start(r, from, to, dryRun, handlers, required)
      PROVE  MigratorInv'
  BY <1>2, StartStep
<1>3. ASSUME NEW r \in Runners,
             \/ Migrator!Look(r) \/ Migrator!HandlerEnds(r) \/ Migrator!HandlerThrows(r)
             \/ Migrator!SaveApplied(r) \/ Migrator!SaveThrows(r) \/ Migrator!SaveFailed(r)
             \/ Migrator!Die(r)
      PROVE  MigratorInv'
  BY <1>3, PlanLookStep, HandlerStep, SaveAppliedStep, FaultStep, SaveFailedStep
<1> QED
  BY <1>1, <1>2, <1>3 DEF Migrator!Next

\* The invariant holds before any call starts.
LEMMA MigratorInit ==
  ASSUME Migrator!MigrationsAssumption
  PROVE  Migrator!Init => MigratorInv
<1> SUFFICES ASSUME Migrator!Init PROVE MigratorInv
  OBVIOUS
<1>1. [at |-> "new", plan |-> <<>>, next |-> 1, dryRun |-> FALSE, handlers |-> TRUE,
       required |-> FALSE] \in Migrator!Run
  BY DEF Migrator!Run
<1>2. Migrator!TypeOK
  BY <1>1 DEF Migrator!Init, Migrator!TypeOK
<1>3. \A r \in Runners : OnPlan(runs[r]) /\ Passed(runs[r])
  <2>1. Len(<<>>) = 0 /\ 1..(1 - 1) = {}
    OBVIOUS
  <2> QED
    BY <2>1 DEF Migrator!Init, OnPlan, Passed, AtHand
<1>4. ASSUME NEW s \in Migrations PROVE Fine(s)
  <2>1. migrations[s] = None /\ handled[s] = 0 /\ migrationFaults[s] = 0
    BY DEF Migrator!Init
  <2>2. Migrator!Handling(s) = {}
    BY DEF Migrator!Init, Migrator!Handling
  <2>3. migrations[s] # "applied"
    BY <2>1 DEF Migrator!MigrationsAssumption
  <2> QED
    BY <2>1, <2>2, <2>3 DEF Fine, Ended
<1> QED
  BY <1>2, <1>3, <1>4 DEF MigratorInv

\* The property follows from the invariant.
LEMMA MigratorKept == MigratorInv => HandledOnce
<1> SUFFICES ASSUME MigratorInv PROVE HandledOnce
  OBVIOUS
<1>1. ASSUME NEW s \in Migrations \ shared
      PROVE  /\ handled[s] <= 1 + migrationFaults[s]
             /\ migrations[s] = "applied" /\ handled[s] = 0 =>
                  \E r \in Runners : ~runs[r].handlers /\ s \in Migrator!ToSet(runs[r].plan)
  BY DEF MigratorInv, Fine, Ended
<1>2. \A r \in Runners : Passed(runs[r])
  BY DEF MigratorInv
<1> QED
  BY <1>1, <1>2 DEF HandledOnce, Migrator!HandledOnce, Passed

(***************************************************************************)
(* For any versions and steps, any number of calls and whatever fails: the *)
(* handler of a step that no two calls were handling at once ends once,    *)
(* and once more at most for each save of it that was lost, and a call     *)
(* goes past the steps of its plan that are applied, in their order        *)
(* (runPackageMigrations looks at the record of a step before it handles   *)
(* it, and records it before it goes on).                                  *)
(***************************************************************************)
THEOREM StepsHandledOnce ==
  ASSUME Migrator!MigrationsAssumption
  PROVE  Migrator!Spec => []HandledOnce
BY MigratorInit, MigratorStep, MigratorKept, PTL DEF Migrator!Spec

-----------------------------------------------------------------------------
(***************************************************************************)
(* The streams of events.                                                  *)
(***************************************************************************)
Appends == EventFile!Appends
Lines == Seq(EventFile!Line)

\* The revisions of a stream are its positions.
Positions == \A s \in Streams : \A i \in DOMAIN stored[s] : stored[s][i].revision = i - 1

\* What a writer was told follows what is stored, and is what it expected.
Follows(a) ==
  /\ a.lines # <<>>
  /\ \A i \in DOMAIN a.lines : a.lines[i].revision = Len(stored[a.stream]) + i - 1
  /\ EventFile!Expected(Len(stored[a.stream]), a.expected)

\* Who writes holds the lock of the stream.
Claimed == \A w \in Writers : writers[w] # EventFile!Free =>
  /\ writers[w] \in Appends
  /\ holder[writers[w].stream] = w
  /\ Follows(writers[w])

\* What was appended is where its first revision says.
Placed(a) ==
  /\ a \in Appends
  /\ a.lines # <<>>
  /\ EventFile!Expected(a.lines[1].revision, a.expected)
  /\ a.lines[1].revision + Len(a.lines) <= Len(stored[a.stream])
  /\ \A i \in 1..Len(a.lines) : stored[a.stream][a.lines[1].revision + i] = a.lines[i]

EventInv ==
  /\ stored \in [Streams -> Lines]
  /\ holder \in [Streams -> Writers \cup {None}]
  /\ writers \in [Writers -> Appends \cup {EventFile!Free}]
  /\ Positions
  /\ Claimed
  /\ \A a \in appended : Placed(a)

\* Lines that are numbered by their positions are read from a revision on.
LEMMA ReadFrom ==
  ASSUME EventInv, NEW s \in Streams, NEW from \in Nat, from <= Len(stored[s])
  PROVE  EventFile!ReadStream(s, from) = SubSeq(stored[s], from + 1, Len(stored[s]))
<1> DEFINE taken(n) == SubSeq(stored[s], from + 1, n)
           upTo == CHOOSE f : f = [n \in 0..Len(stored[s]) |->
                     IF n = 0 THEN <<>>
                     ELSE IF stored[s][n].revision < from THEN f[n - 1]
                     ELSE Append(f[n - 1], stored[s][n])]
           len == Len(stored[s])
           g == [n \in 0..Len(stored[s]) |-> taken(n)]
<1>1. stored[s] \in Lines /\ \A n \in 1..Len(stored[s]) : stored[s][n].revision = n - 1
  BY DEF EventInv, Positions, Lines
<1> HIDE DEF Lines
<1>2. \A n \in 1..Len(stored[s]) : n - 1 < from => taken(n) = <<>> /\ taken(n - 1) = <<>>
  BY <1>1 DEF Lines
<1>3. \A n \in 1..Len(stored[s]) : n - 1 >= from => taken(n) = Append(taken(n - 1), stored[s][n])
  BY <1>1 DEF Lines
<1>4. taken(0) = <<>>
  BY <1>1 DEF Lines
<1> HIDE DEF taken
<1>5. g = [n \in 0..len |->
             IF n = 0 THEN <<>>
             ELSE IF stored[s][n].revision < from THEN g[n - 1]
             ELSE Append(g[n - 1], stored[s][n])]
  BY <1>1, <1>2, <1>3, <1>4 DEF Lines
<1>6. /\ upTo = [n \in 0..len |->
             IF n = 0 THEN <<>>
             ELSE IF stored[s][n].revision < from THEN upTo[n - 1]
             ELSE Append(upTo[n - 1], stored[s][n])]
      /\ EventFile!ReadStream(s, from) = upTo[len]
  <2>1. \E f : f = [n \in 0..len |->
             IF n = 0 THEN <<>>
             ELSE IF stored[s][n].revision < from THEN f[n - 1]
             ELSE Append(f[n - 1], stored[s][n])]
    BY <1>5
  <2> QED
    BY <2>1 DEF EventFile!ReadStream
<1>7. \A n \in 0..len : g[n] = taken(n)
  OBVIOUS
<1>8. len \in Nat
  BY <1>1 DEF Lines
<1> HIDE DEF upTo, g, len
<1> DEFINE Bad == {n \in 0..len : upTo[n] # g[n]}
<1>9. Bad = {}
  <2> SUFFICES ASSUME Bad # {} PROVE FALSE
    OBVIOUS
  <2>1. Bad \in SUBSET Nat
    BY <1>8
  <2>2. PICK n \in Bad : \A q \in Bad : n <= q
    BY <2>1, NatLeast
  <2>3. CASE n = 0
    BY <1>5, <1>6, <2>2, <2>3
  <2>4. CASE n # 0
    <3>1. n - 1 \in 0..len /\ n \in 0..len /\ ~ (n <= n - 1)
      BY <1>8, <2>2, <2>4
    <3>2. upTo[n - 1] = g[n - 1]
      BY <2>2, <3>1
    <3>3. g[n] = IF stored[s][n].revision < from THEN g[n - 1]
                 ELSE Append(g[n - 1], stored[s][n])
      BY <1>5, <2>4, <3>1
    <3>4. upTo[n] = IF stored[s][n].revision < from THEN upTo[n - 1]
                    ELSE Append(upTo[n - 1], stored[s][n])
      BY <1>6, <2>4, <3>1
    <3>5. g[n] = upTo[n]
      BY <3>2, <3>3, <3>4
    <3> QED
      BY <2>2, <3>5
  <2> QED
    BY <2>3, <2>4
<1>10. upTo[len] = taken(len)
  BY <1>7, <1>8, <1>9
<1> QED
  BY <1>6, <1>10 DEF taken, len

\* What is placed is read where its writer was told.
LEMMA PlacedIsRead ==
  ASSUME EventInv, NEW a, Placed(a)
  PROVE  SubSeq(EventFile!ReadStream(a.stream, a.lines[1].revision), 1, Len(a.lines)) = a.lines
<1>1. a.stream \in Streams /\ a.lines \in Lines /\ a.lines # <<>>
  BY DEF Placed, Appends, EventFile!Appends, Lines
<1>2. a.lines[1].revision \in Nat
  <2>1. a.lines[1] \in EventFile!Line
    BY <1>1 DEF Lines
  <2> QED
    BY <2>1 DEF EventFile!Line
<1> DEFINE f == a.lines[1].revision
           l == a.lines
           s == stored[a.stream]
<1>3. s \in Lines /\ f + Len(l) <= Len(s) /\ \A i \in 1..Len(l) : s[f + i] = l[i]
  BY <1>1 DEF EventInv, Placed
<1>4. Len(s) \in Nat /\ Len(l) \in Nat
  BY <1>1, <1>3 DEF Lines
<1>5. EventFile!ReadStream(a.stream, f) = SubSeq(s, f + 1, Len(s))
  <2>1. f <= Len(s) /\ f \in Nat
    BY <1>2, <1>3, <1>4
  <2> HIDE DEF f
  <2> QED
    BY <1>1, <2>1, ReadFrom
<1>6. f \in Nat /\ l \in Lines /\ s \in Lines
  BY <1>1, <1>2, <1>3
<1> HIDE DEF f, l, s
<1>7. SubSeq(SubSeq(s, f + 1, Len(s)), 1, Len(l)) = l
  <2>1. SubSeq(s, f + 1, Len(s)) \in Lines /\ Len(SubSeq(s, f + 1, Len(s))) = Len(s) - f
    BY <1>3, <1>4, <1>6 DEF Lines
  <2>2. \A i \in 1..Len(s) - f : SubSeq(s, f + 1, Len(s))[i] = s[f + i]
    BY <1>3, <1>4, <1>6 DEF Lines
  <2> DEFINE t == SubSeq(s, f + 1, Len(s))
  <2> HIDE DEF t
  <2>3. t \in Lines /\ Len(t) = Len(s) - f /\ \A i \in 1..Len(l) : t[i] = l[i]
    BY <1>3, <1>4, <1>6, <2>1, <2>2 DEF t
  <2>4. SubSeq(t, 1, Len(l)) = l
    BY <1>3, <1>4, <1>6, <2>3 DEF Lines
  <2> QED
    BY <2>4 DEF t
<1> QED
  BY <1>5, <1>7 DEF f, l

-----------------------------------------------------------------------------
\* A batch is a sequence of events.
LEMMA EventCounts ==
  /\ \A S : EventFile!Cardinality(S) = Cardinality(S)
  /\ \A S : EventFile!IsFiniteSet(S) <=> IsFiniteSet(S)
BY DEF EventFile!Cardinality, Cardinality, EventFile!IsFiniteSet, IsFiniteSet

LEMMA BatchType ==
  ASSUME EventFile!StoreAssumption,
         NEW T \in SUBSET Events, NEW batch \in EventFile!SetToAllKPermutations(T)
  PROVE  batch \in Seq(Events)
<1>1. PICK S \in SUBSET T : batch \in [1..EventFile!Cardinality(S) -> S]
  BY DEF EventFile!SetToAllKPermutations, EventFile!SetToSeqs
<1>2. EventFile!Cardinality(S) \in Nat
  BY EventCounts, FS_Subset, FS_CardinalityType DEF EventFile!StoreAssumption
<1> QED
  BY <1>1, <1>2

\* An open writer has a lock of its own, so that nobody else follows its stream.
LEMMA EventStart == EventFile!StoreAssumption /\ EventFile!StoreInit => EventInv
BY DEF EventFile!StoreInit, EventFile!StoreAssumption, EventInv, Positions, Claimed, Lines

\* What is placed stays so while its stream grows.
LEMMA PlacedStays ==
  ASSUME EventInv, stored' \in [Streams -> Lines], NEW a, Placed(a),
         \A s \in Streams : /\ Len(stored[s]) <= Len(stored'[s])
                            /\ \A i \in 1..Len(stored[s]) : stored'[s][i] = stored[s][i]
  PROVE  Placed(a)'
<1>1. a.stream \in Streams /\ a.lines \in Lines /\ a.lines[1].revision \in Nat
  <2>1. a.stream \in Streams /\ a.lines \in Lines /\ a.lines # <<>>
    BY DEF Placed, Appends, EventFile!Appends, Lines
  <2>2. a.lines[1] \in EventFile!Line
    BY <2>1 DEF Lines
  <2> QED
    BY <2>1, <2>2 DEF EventFile!Line
<1>2. Len(a.lines) \in Nat /\ stored[a.stream] \in Lines /\ stored'[a.stream] \in Lines
  BY <1>1 DEF EventInv, Lines
<1>3. Len(stored[a.stream]) \in Nat /\ Len(stored'[a.stream]) \in Nat
  BY <1>2 DEF Lines
<1>4. a.lines[1].revision + Len(a.lines) <= Len(stored'[a.stream])
  BY <1>1, <1>2, <1>3 DEF Placed
<1>5. ASSUME NEW i \in 1..Len(a.lines)
      PROVE  stored'[a.stream][a.lines[1].revision + i] = a.lines[i]
  <2>1. a.lines[1].revision + i \in 1..Len(stored[a.stream])
    BY <1>1, <1>2, <1>3 DEF Placed
  <2> QED
    BY <1>1, <2>1 DEF Placed
<1> QED
  BY <1>4, <1>5 DEF Placed

LEMMA LineDomain == ASSUME NEW q \in Lines PROVE DOMAIN q = 1..Len(q) /\ Len(q) \in Nat
BY DEF Lines

\* What a sequence has when another is added to it.
LEMMA Concatenated ==
  ASSUME NEW S, NEW p \in Seq(S), NEW q \in Seq(S)
  PROVE  /\ p \o q \in Seq(S) /\ Len(p \o q) = Len(p) + Len(q)
         /\ \A i \in 1..Len(p) : (p \o q)[i] = p[i]
         /\ \A i \in 1..Len(q) : (p \o q)[Len(p) + i] = q[i]
<1>1. \A i \in 1..Len(q) : Len(p) + i \in 1..Len(p) + Len(q) /\ ~ (Len(p) + i <= Len(p))
  OBVIOUS
<1> QED
  BY <1>1

\* The lines a writer was told follow its stream: some of them, from the first on, may be added.
LEMMA Extended ==
  ASSUME EventInv, NEW w \in Writers, writers[w] # EventFile!Free,
         NEW n \in 0..Len(writers[w].lines),
         stored' = [stored EXCEPT ![writers[w].stream] = @ \o SubSeq(writers[w].lines, 1, n)]
  PROVE  /\ stored' \in [Streams -> Lines] /\ Positions'
         /\ \A s \in Streams : /\ Len(stored[s]) <= Len(stored'[s])
                               /\ \A i \in 1..Len(stored[s]) : stored'[s][i] = stored[s][i]
         /\ \A i \in 1..n : stored'[writers[w].stream][Len(stored[writers[w].stream]) + i]
                              = writers[w].lines[i]
         /\ Len(stored'[writers[w].stream]) = Len(stored[writers[w].stream]) + n
<1> DEFINE a == writers[w]
           t == a.stream
<1>1. t \in Streams /\ a.lines \in Lines /\ Follows(a)
  BY DEF EventInv, Claimed, Appends, EventFile!Appends, Lines
<1>2. PICK batch : batch = SubSeq(a.lines, 1, n)
  OBVIOUS
<1>3. batch \in Lines /\ Len(batch) = n /\ \A i \in 1..n : batch[i] = a.lines[i]
  BY <1>1, <1>2 DEF Lines
<1>4. \A s \in Streams : stored'[s] = IF s = t THEN stored[s] \o batch ELSE stored[s]
  BY <1>1, <1>2 DEF EventInv
<1>5. \A s \in Streams : stored[s] \in Lines
  BY DEF EventInv
<1> HIDE DEF a, t
<1>6. /\ stored[t] \o batch \in Lines /\ Len(stored[t] \o batch) = Len(stored[t]) + n
      /\ \A i \in 1..Len(stored[t]) : (stored[t] \o batch)[i] = stored[t][i]
      /\ \A i \in 1..n : (stored[t] \o batch)[Len(stored[t]) + i] = batch[i]
  <2>1. stored[t] \in Lines /\ batch \in Lines
    BY <1>1, <1>3, <1>5
  <2>2. PICK p : p = stored[t]
    OBVIOUS
  <2>3. /\ p \o batch \in Lines /\ Len(p \o batch) = Len(p) + Len(batch)
        /\ \A i \in 1..Len(p) : (p \o batch)[i] = p[i]
        /\ \A i \in 1..Len(batch) : (p \o batch)[Len(p) + i] = batch[i]
    BY <2>1, <2>2, Concatenated DEF Lines
  <2> QED
    BY <1>3, <2>2, <2>3
<1>7. stored' \in [Streams -> Lines]
  BY <1>4, <1>5, <1>6 DEF EventInv, t, a
<1>8. \A s \in Streams : /\ Len(stored[s]) <= Len(stored'[s])
                         /\ \A i \in 1..Len(stored[s]) : stored'[s][i] = stored[s][i]
  <2> SUFFICES ASSUME NEW s \in Streams
               PROVE  /\ Len(stored[s]) <= Len(stored'[s])
                      /\ \A i \in 1..Len(stored[s]) : stored'[s][i] = stored[s][i]
    OBVIOUS
  <2>1. Len(stored[s]) \in Nat
    BY <1>5 DEF Lines
  <2>2. n \in Nat
    BY <1>3 DEF Lines
  <2>3. CASE s = t
    <3>1. stored'[s] = stored[t] \o batch
      BY <1>4, <2>3
    <3> QED
      BY ONLY <1>6, <2>1, <2>2, <2>3, <3>1
  <2>4. CASE s # t
    <3>1. stored'[s] = stored[s]
      BY <1>4, <2>4
    <3> QED
      BY ONLY <2>1, <3>1
  <2> QED
    BY <2>3, <2>4
<1>9. Positions'
  <2> SUFFICES ASSUME NEW s \in Streams, NEW i \in 1..Len(stored'[s])
               PROVE  stored'[s][i].revision = i - 1
    <3>1. \A s \in Streams : stored'[s] \in Lines
      BY <1>7
    <3>2. \A s \in Streams : DOMAIN stored'[s] = 1..Len(stored'[s])
      BY ONLY <3>1, LineDomain
    <3> QED
      BY <3>2 DEF Positions
  <2>1. Len(stored[s]) \in Nat /\ Len(stored[t]) \in Nat
    BY <1>1, <1>5 DEF Lines
  <2>2. \A j \in 1..Len(stored[s]) : stored[s][j].revision = j - 1
    BY <1>5 DEF EventInv, Positions, Lines
  <2>3. CASE i \in 1..Len(stored[s])
    BY <1>8, <2>2, <2>3
  <2>4. CASE i \notin 1..Len(stored[s])
    <3>1. s = t
      BY <1>4, <2>4
    <3>2. PICK j \in 1..n : i = Len(stored[t]) + j
      <4>1. i \in Nat /\ i > Len(stored[t]) /\ i <= Len(stored[t]) + n
        <5>1. i \in 1..Len(stored[t]) + n
          <6>1. stored'[s] = stored[t] \o batch
            BY <1>4, <3>1
          <6> QED
            BY <1>6, <6>1
        <5>2. n \in Nat
          BY <1>3 DEF Lines
        <5> QED
          BY <2>1, <2>4, <3>1, <5>1, <5>2
      <4>2. i - Len(stored[t]) \in 1..n /\ i = Len(stored[t]) + (i - Len(stored[t]))
        BY <2>1, <4>1
      <4> QED
        BY <4>2
    <3>3. stored'[s][i] = a.lines[j]
      BY <1>3, <1>4, <1>6, <3>1, <3>2
    <3>4. j \in DOMAIN a.lines
      BY <1>1, <3>2 DEF Lines, a
    <3>5. a.lines[j].revision = Len(stored[t]) + j - 1
      BY <1>1, <3>4 DEF Follows, t
    <3>6. Len(stored[t]) + j - 1 = i - 1
      BY <3>2
    <3> QED
      BY <3>3, <3>5, <3>6
  <2> QED
    BY <2>3, <2>4
<1> QED
  BY <1>3, <1>4, <1>6, <1>7, <1>8, <1>9, <1>1 DEF a, t

\* Each writer by itself.
LEMMA EachWriter ==
  ASSUME \A v \in Writers : \A b : b = writers'[v] /\ b # EventFile!Free =>
           b \in Appends /\ holder'[b.stream] = v /\ Follows(b)'
  PROVE  Claimed'
BY DEF Claimed, Follows

\* A writer begins.
LEMMA BeginKeeps ==
  ASSUME EventFile!StoreAssumption, EventInv, NEW w \in Writers, EventFile!Begin(w)
  PROVE  EventInv'
<1>1. PICK s \in Streams, batch \in Seq(Events), expected \in Expectations :
        /\ writers[w] = EventFile!Free /\ holder[s] = None /\ batch # <<>>
        /\ EventFile!Expected(Len(stored[s]), expected)
        /\ holder' = [holder EXCEPT ![s] = w]
        /\ writers' = [writers EXCEPT ![w] =
             [stream |-> s, expected |-> expected,
              lines |-> EventFile!Numbered(batch, Len(stored[s]))]]
        /\ UNCHANGED <<stored, torn, crashes, appended>>
  <2>1. PICK s \in Streams :
          \E batch \in EventFile!SetToAllKPermutations(
               {e \in Events \ EventFile!Taken : StreamOf[e] = s}) :
          \E expected \in Expectations :
        /\ writers[w] = EventFile!Free /\ holder[s] = None /\ batch # <<>>
        /\ EventFile!Expected(Len(stored[s]), expected)
        /\ holder' = [holder EXCEPT ![s] = w]
        /\ writers' = [writers EXCEPT ![w] =
             [stream |-> s, expected |-> expected,
              lines |-> EventFile!Numbered(batch, Len(stored[s]))]]
        /\ UNCHANGED <<stored, torn, crashes, appended>>
    BY DEF EventFile!Begin
  <2>2. {e \in Events \ EventFile!Taken : StreamOf[e] = s} \in SUBSET Events
    OBVIOUS
  <2> QED
    BY <2>1, <2>2, BatchType
<1>2. PICK lines : lines = EventFile!Numbered(batch, Len(stored[s]))
  OBVIOUS
<1>3. Len(stored[s]) \in Nat
  BY LineDomain DEF EventInv
<1>4. /\ lines \in Lines /\ lines # <<>> /\ DOMAIN lines = DOMAIN batch
      /\ \A i \in DOMAIN lines : lines[i].revision = Len(stored[s]) + i - 1
  <2>1. PICK n \in Nat : batch \in [1..n -> Events] /\ DOMAIN batch = 1..n /\ n # 0
    BY <1>1
  <2>2. lines = [i \in 1..n |-> [event |-> batch[i], revision |-> Len(stored[s]) + i - 1]]
    BY <1>2, <2>1 DEF EventFile!Numbered
  <2>3. \A i \in 1..n : [event |-> batch[i], revision |-> Len(stored[s]) + i - 1] \in EventFile!Line
    BY <1>3, <2>1 DEF EventFile!Line
  <2>4. lines \in [1..n -> EventFile!Line]
    BY <2>2, <2>3
  <2>5. lines \in Lines /\ DOMAIN lines = 1..n
    BY <2>4 DEF Lines
  <2>6. lines # <<>>
    BY <2>1, <2>5
  <2> QED
    BY <2>1, <2>2, <2>5, <2>6
<1>5. PICK a : a = [stream |-> s, expected |-> expected, lines |-> lines]
  OBVIOUS
<1>6. a \in Appends /\ a # EventFile!Free /\ Follows(a)
  <2>1. expected \in SUBSET EventFile!Revisions
    BY DEF EventFile!StoreAssumption
  <2>2. a \in Appends
    BY <1>4, <1>5, <2>1 DEF Appends, EventFile!Appends, Lines
  <2>3. a.stream = s /\ a.lines = lines /\ a.expected = expected
    BY <1>5
  <2>4. a # EventFile!Free
    BY <2>3 DEF EventFile!Free, EventFile!StoreAssumption
  <2> QED
    BY <1>1, <1>4, <2>2, <2>3, <2>4 DEF Follows
<1>7. writers' = [writers EXCEPT ![w] = a] /\ a.stream = s
  BY <1>1, <1>2, <1>5
<1>8. /\ writers' \in [Writers -> Appends \cup {EventFile!Free}]
      /\ holder' \in [Streams -> Writers \cup {None}]
  BY <1>1, <1>6, <1>7 DEF EventInv
<1>9. stored' = stored /\ appended' = appended
  BY <1>1
<1>10. Claimed'
  <2> SUFFICES ASSUME NEW v \in Writers, NEW b, b = writers'[v], b # EventFile!Free
               PROVE  b \in Appends /\ holder'[b.stream] = v /\ Follows(b)'
    BY EachWriter
  <2>1. CASE v = w
    <3>1. b = a
      BY <1>7, <2>1 DEF EventInv
    <3>2. holder'[s] = w
      BY <1>1 DEF EventInv
    <3> QED
      BY <1>6, <1>7, <1>9, <2>1, <3>1, <3>2 DEF Follows
  <2>2. CASE v # w
    <3>1. b = writers[v]
      BY <1>7, <2>2 DEF EventInv
    <3>2. b \in Appends /\ holder[b.stream] = v /\ Follows(b)
      BY <3>1 DEF EventInv, Claimed, Follows
    <3>3. b.stream # s
      BY <1>1, <3>2 DEF EventFile!StoreAssumption
    <3>4. holder'[b.stream] = holder[b.stream]
      BY <1>1, <3>2, <3>3 DEF EventInv, Appends, EventFile!Appends
    <3> QED
      BY <1>9, <3>2, <3>4 DEF Follows
  <2> QED
    BY <2>1, <2>2
<1> QED
  BY <1>8, <1>9, <1>10 DEF EventInv, Positions, Placed

\* A writer ends, with its lines in the file up to the last or the n-th.
LEMMA EndKeeps ==
  ASSUME EventFile!StoreAssumption, EventInv, NEW w \in Writers, writers[w] # EventFile!Free,
         NEW n \in 0..Len(writers[w].lines),
         stored' = [stored EXCEPT ![writers[w].stream] = @ \o SubSeq(writers[w].lines, 1, n)],
         holder' = [holder EXCEPT ![writers[w].stream] = IF @ = w THEN None ELSE @],
         writers' = [writers EXCEPT ![w] = EventFile!Free]
  PROVE  /\ stored' \in [Streams -> Lines] /\ Positions' /\ Claimed'
         /\ holder' \in [Streams -> Writers \cup {None}]
         /\ writers' \in [Writers -> Appends \cup {EventFile!Free}]
         /\ \A a \in appended : Placed(a)'
         /\ \A a : a = writers[w] /\ n = Len(a.lines) => Placed(a)'
<1> DEFINE t == writers[w].stream
<1>1. /\ stored' \in [Streams -> Lines] /\ Positions'
      /\ \A s \in Streams : /\ Len(stored[s]) <= Len(stored'[s])
                            /\ \A i \in 1..Len(stored[s]) : stored'[s][i] = stored[s][i]
      /\ \A i \in 1..n : stored'[t][Len(stored[t]) + i] = writers[w].lines[i]
      /\ Len(stored'[t]) = Len(stored[t]) + n
  BY Extended
<1>2. t \in Streams /\ writers[w] \in Appends /\ Follows(writers[w])
  BY DEF EventInv, Claimed, Appends, EventFile!Appends
<1>3. \A a \in appended : Placed(a)'
  BY <1>1, PlacedStays DEF EventInv
<1>4. /\ holder' \in [Streams -> Writers \cup {None}]
      /\ writers' \in [Writers -> Appends \cup {EventFile!Free}]
  BY DEF EventInv
<1>5. Claimed'
  <2> SUFFICES ASSUME NEW v \in Writers, NEW b, b = writers'[v], b # EventFile!Free
               PROVE  b \in Appends /\ holder'[b.stream] = v /\ Follows(b)'
    BY EachWriter
  <2>1. v # w /\ b = writers[v]
    BY DEF EventInv
  <2>2. b \in Appends /\ holder[b.stream] = v /\ Follows(b)
    BY <2>1 DEF EventInv, Claimed, Follows
  <2>3. b.stream \in Streams
    BY <2>2 DEF Appends, EventFile!Appends
  <2>4. holder[t] = w
    BY DEF EventInv, Claimed
  <2>5. b.stream # t
    BY <2>1, <2>2, <2>4
  <2>6. holder'[b.stream] = holder[b.stream] /\ stored'[b.stream] = stored[b.stream]
    BY <2>3, <2>5 DEF EventInv
  <2> QED
    BY <2>2, <2>6 DEF Follows
<1>6. ASSUME NEW a, a = writers[w], n = Len(a.lines) PROVE Placed(a)'
  <2>1. a \in Appends /\ a.lines \in Lines /\ Follows(a) /\ t = a.stream
    BY <1>2, <1>6 DEF Appends, EventFile!Appends, Lines, Follows
  <2>2. 1 \in DOMAIN a.lines
    BY <2>1 DEF Follows, Lines
  <2>3. Len(stored[t]) \in Nat /\ n \in Nat
    BY <1>2, <1>6, <2>1, LineDomain DEF EventInv
  <2>4. a.lines[1].revision = Len(stored[t])
    BY <2>1, <2>2, <2>3 DEF Follows
  <2>5. EventFile!Expected(a.lines[1].revision, a.expected) /\ a.lines # <<>>
    BY <2>1, <2>4 DEF Follows
  <2>6. a.lines[1].revision + Len(a.lines) <= Len(stored'[t])
    <3>1. a.lines[1].revision + Len(a.lines) = Len(stored'[t])
      BY ONLY <1>1, <1>6, <2>4
    <3> QED
      BY ONLY <1>1, <2>3, <3>1
  <2>7. \A i \in 1..Len(a.lines) : stored'[t][a.lines[1].revision + i] = a.lines[i]
    BY <1>1, <1>6, <2>4
  <2> QED
    BY <2>1, <2>5, <2>6, <2>7 DEF Placed
<1> QED
  BY <1>1, <1>3, <1>4, <1>5, <1>6

LEMMA EventStep ==
  EventFile!StoreAssumption /\ EventInv /\ [EventFile!StoreNext]_EventFile!storeVars => EventInv'
<1> SUFFICES ASSUME EventFile!StoreAssumption, EventInv,
                    [EventFile!StoreNext]_EventFile!storeVars
             PROVE  EventInv'
  OBVIOUS
<1>1. CASE UNCHANGED EventFile!storeVars
  BY <1>1 DEF EventFile!storeVars, EventInv, Positions, Claimed, Follows, Placed
<1>2. ASSUME NEW w \in Writers, EventFile!Begin(w) PROVE EventInv'
  BY <1>2, BeginKeeps
<1>3. ASSUME NEW w \in Writers, EventFile!AppendFile(w) PROVE EventInv'
  <2>1. writers[w] # EventFile!Free /\ writers[w] \in Appends
    BY <1>3 DEF EventFile!AppendFile, EventInv
  <2>2. PICK n : n = Len(writers[w].lines)
    OBVIOUS
  <2>3. n \in Nat /\ SubSeq(writers[w].lines, 1, n) = writers[w].lines
    BY <2>1, <2>2 DEF Appends, EventFile!Appends
  <2>4. /\ stored' = [stored EXCEPT ![writers[w].stream] = @ \o SubSeq(writers[w].lines, 1, n)]
        /\ holder' = [holder EXCEPT ![writers[w].stream] = IF @ = w THEN None ELSE @]
        /\ writers' = [writers EXCEPT ![w] = EventFile!Free]
        /\ appended' = appended \cup {writers[w]}
    BY <1>3, <2>3 DEF EventFile!AppendFile
  <2>5. n \in 0..Len(writers[w].lines)
    BY <2>2, <2>3
  <2>6. /\ stored' \in [Streams -> Lines] /\ Positions' /\ Claimed'
        /\ holder' \in [Streams -> Writers \cup {None}]
        /\ writers' \in [Writers -> Appends \cup {EventFile!Free}]
        /\ \A a \in appended : Placed(a)'
        /\ \A a : a = writers[w] /\ n = Len(a.lines) => Placed(a)'
    BY <2>1, <2>4, <2>5, EndKeeps
  <2>7. ASSUME NEW a \in appended' PROVE Placed(a)'
    BY <2>2, <2>4, <2>6, <2>7
  <2> QED
    BY <2>6, <2>7 DEF EventInv, Placed
<1>4. ASSUME NEW w \in Writers, EventFile!Crash(w) PROVE EventInv'
  <2>1. writers[w] # EventFile!Free
    BY <1>4 DEF EventFile!Crash
  <2>2. PICK n \in 0..Len(writers[w].lines) :
          stored' = [stored EXCEPT ![writers[w].stream] = @ \o SubSeq(writers[w].lines, 1, n)]
    BY <1>4 DEF EventFile!Crash
  <2>3. /\ holder' = [holder EXCEPT ![writers[w].stream] = IF @ = w THEN None ELSE @]
        /\ writers' = [writers EXCEPT ![w] = EventFile!Free]
        /\ appended' = appended
    BY <1>4 DEF EventFile!Crash
  <2>4. /\ stored' \in [Streams -> Lines] /\ Positions' /\ Claimed'
        /\ holder' \in [Streams -> Writers \cup {None}]
        /\ writers' \in [Writers -> Appends \cup {EventFile!Free}]
        /\ \A a \in appended : Placed(a)'
    BY <2>1, <2>2, <2>3, EndKeeps
  <2>5. ASSUME NEW a \in appended' PROVE Placed(a)'
    BY <2>3, <2>4, <2>5
  <2> QED
    BY <2>4, <2>5 DEF EventInv, Placed
<1> QED
  BY <1>1, <1>2, <1>3, <1>4 DEF EventFile!StoreNext

(***************************************************************************)
(* Whatever appends to a stream at once, and whoever dies in the middle:   *)
(* the revisions of a stream are its positions, and an append that has     *)
(* returned found what it expected and is there where it was told          *)
(* (fs-event-store.ts).                                                    *)
(***************************************************************************)
THEOREM AppendsAreExact ==
  ASSUME EventFile!StoreAssumption
  PROVE  EventFile!StoreSpec => []AppendsExact
<1>1. EventInv => AppendsExact
  <2> SUFFICES ASSUME EventInv PROVE AppendsExact
    OBVIOUS
  <2>1. \A a \in appended :
          /\ EventFile!Expected(a.lines[1].revision, a.expected)
          /\ SubSeq(EventFile!ReadStream(a.stream, a.lines[1].revision), 1, Len(a.lines)) = a.lines
    BY PlacedIsRead DEF EventInv, Placed
  <2>2. Positions
    BY DEF EventInv
  <2> QED
    BY <2>1, <2>2 DEF AppendsExact, EventFile!AppendsExact, Positions
<1> QED
  BY <1>1, EventStart, EventStep, PTL DEF EventFile!StoreSpec

-----------------------------------------------------------------------------
(***************************************************************************)
(* The cache over files.                                                   *)
(***************************************************************************)
LEMMA CacheCounts ==
  /\ \A S : Cache!Cardinality(S) = Cardinality(S)
  /\ \A S : Cache!IsFiniteSet(S) <=> IsFiniteSet(S)
BY DEF Cache!Cardinality, Cardinality, Cache!IsFiniteSet, IsFiniteSet

\* What a file or a memory copy tells of time.
Entry == [kind : Cache!Kinds, checked : Int, stored : Int, mtime : Int]
Remembered == [stored : Int, expiresAt : Int]
Doing == [at : {"idle", "stat", "read", "decide", "remove", "miss", "factory", "write",
                "touch", "evict", "purge", "served"},
          key : Keys \cup {None}, time : Int, kind : Cache!Kinds,
          then : {"idle", "miss", "evict"}, flight : Keys \cup {None},
          seen : Entry \cup {None}, age : Int]

Keyed == {"stat", "read", "decide", "remove", "miss", "factory", "write", "touch"}

\* What is stored, and how old it may be.
Recent ==
  /\ file \in [Keys -> Entry \cup {None}]
  /\ freshness \in [Keys -> Remembered \cup {None}]
  /\ lruOrder \in Seq(Keys)
  /\ now \in Nat
  /\ inherited \in BOOLEAN
  /\ \A k \in Keys : file[k] # None => file[k].mtime <= file[k].stored
  /\ \A k \in Keys : freshness[k] # None => freshness[k].expiresAt <= freshness[k].stored + 2 * Ttl

\* What an operation goes by, and how old that may be.
Sound(b) ==
  /\ b \in Doing
  /\ b.at \in Keyed => b.key \in Keys
  /\ b.time <= now
  /\ b.at = "touch" /\ file[b.key] # None => b.time <= file[b.key].stored
  /\ b.at = "read" /\ file[b.key] # None => b.time <= file[b.key].stored + Ttl
  /\ b.at = "decide" => b.seen \in Entry /\ b.time <= b.seen.stored + Ttl
  /\ b.at = "served" => b.age < 2 * Ttl

\* Keys whose file somebody is about to remove, or to enter into memory.
Removing == {ops[o].key : o \in {p \in Ops : ops[p].at = "remove"}}
Touching == {ops[o].key : o \in {p \in Ops : ops[p].at = "touch"}}

\* The files that stay as they are.
Settled == {k \in Keys : file[k] # None /\ k \notin Removing /\ k \notin Touching}

\* Somebody is looking whether there are too many keys.
Evicting == \E o \in Ops : \/ ops[o].at = "evict"
                           \/ ops[o].at = "remove" /\ ops[o].then = "evict"

\* Every file that stays has its place in the order, and there are too many of them
\* only while somebody still evicts.
Bounded == ~inherited =>
  /\ Settled \subseteq Cache!ToSet(lruOrder)
  /\ Evicting \/ (IsFiniteSet(Settled) /\ Cardinality(Settled) <= MaxEntries)

CacheInv ==
  /\ Recent
  /\ ops \in [Ops -> Doing] /\ \A o \in Ops : Sound(ops[o])
  /\ Bounded

-----------------------------------------------------------------------------
\* What a sequence has when the first e is removed.
LEMMA Removed ==
  ASSUME NEW S, NEW s \in Seq(S), NEW e
  PROVE  /\ Cache!RemoveFirst(s, e) \in Seq(S)
         /\ \A x \in Cache!ToSet(s) : x # e => x \in Cache!ToSet(Cache!RemoveFirst(s, e))
<1> DEFINE t == Cache!RemoveFirst(s, e)
<1>1. CASE ~ \E i \in 1..Len(s) : s[i] = e
  <2>1. t = s
    BY <1>1 DEF Cache!RemoveFirst
  <2> QED
    BY <2>1
<1>2. CASE \E i \in 1..Len(s) : s[i] = e
  <2> DEFINE I == {i \in 1..Len(s) : s[i] = e}
  <2>1. I # {} /\ I \in SUBSET Nat
    BY <1>2
  <2>2. PICK n \in I : \A q \in I : n <= q
    BY <2>1, NatLeast
  <2>3. PICK m \in I : t = SubSeq(s, 1, m - 1) \o SubSeq(s, m + 1, Len(s))
    <3>1. Cache!Min(I) \in I
      BY <2>2 DEF Cache!Min
    <3>2. t = Cache!RemoveAt(s, Cache!SelectInSeq(s, LAMBDA v : v = e))
      BY <1>2 DEF Cache!RemoveFirst
    <3>3. Cache!SelectInSeq(s, LAMBDA v : v = e) = Cache!Min(I)
      BY <2>1 DEF Cache!SelectInSeq
    <3> QED
      BY <3>1, <3>2, <3>3 DEF Cache!RemoveAt
  <2>4. m \in 1..Len(s) /\ s[m] = e /\ Len(s) \in Nat
    OBVIOUS
  <2> DEFINE p == SubSeq(s, 1, m - 1)
             q == SubSeq(s, m + 1, Len(s))
  <2>5. /\ p \in Seq(S) /\ Len(p) = m - 1 /\ \A i \in 1..m - 1 : p[i] = s[i]
        /\ q \in Seq(S) /\ Len(q) = Len(s) - m /\ \A i \in 1..Len(s) - m : q[i] = s[m + i]
    BY <2>4
  <2> HIDE DEF p, q
  <2>6. /\ p \o q \in Seq(S) /\ Len(p \o q) = Len(p) + Len(q)
        /\ \A i \in 1..Len(p) : (p \o q)[i] = p[i]
        /\ \A i \in 1..Len(q) : (p \o q)[Len(p) + i] = q[i]
    <3>1. p \in Seq(S) /\ q \in Seq(S)
      BY <2>5
    <3> QED
      BY ONLY <3>1, Concatenated
  <2>7. t = p \o q
    BY <2>3 DEF p, q
  <2>8. ASSUME NEW i \in 1..Len(s), s[i] # e PROVE s[i] \in Cache!ToSet(p \o q)
    <3>1. CASE i < m
      <4>1. i \in 1..Len(p) /\ i \in DOMAIN (p \o q) /\ (p \o q)[i] = s[i]
        BY <2>4, <2>5, <2>6, <3>1
      <4> QED
        BY <4>1 DEF Cache!ToSet
    <3>2. CASE i > m
      <4>1. i - m \in 1..Len(q) /\ m + (i - m) = i /\ Len(p) + (i - m) \in 1..Len(p \o q)
        BY <2>4, <2>5, <2>6, <3>2
      <4>2. q[i - m] = s[i]
        BY <2>5, <4>1
      <4>3. (p \o q)[Len(p) + (i - m)] = s[i] /\ Len(p) + (i - m) \in DOMAIN (p \o q)
        BY ONLY <2>6, <4>1, <4>2
      <4> QED
        BY <4>3 DEF Cache!ToSet
    <3> QED
      BY <2>4, <2>8, <3>1, <3>2
  <2>9. ASSUME NEW x \in Cache!ToSet(s), x # e PROVE x \in Cache!ToSet(p \o q)
    <3>1. PICK i \in 1..Len(s) : x = s[i]
      BY <2>9 DEF Cache!ToSet
    <3> QED
      BY <2>8, <2>9, <3>1
  <2> QED
    BY <2>6, <2>7, <2>9
<1> QED
  BY <1>1, <1>2

\* What remains in the order of use.
LEMMA Order ==
  ASSUME lruOrder \in Seq(Keys), NEW k \in Keys
  PROVE  /\ Cache!Without(k) \in Seq(Keys)
         /\ Cache!ToSet(lruOrder) \ {k} \subseteq Cache!ToSet(Cache!Without(k))
         /\ Append(Cache!Without(k), k) \in Seq(Keys)
         /\ Cache!ToSet(lruOrder) \cup {k} \subseteq Cache!ToSet(Append(Cache!Without(k), k))
<1>1. PICK t : t = Cache!Without(k)
  OBVIOUS
<1>2. t \in Seq(Keys) /\ Cache!ToSet(lruOrder) \ {k} \subseteq Cache!ToSet(t)
  BY <1>1, Removed DEF Cache!Without
<1>3. Append(t, k) \in Seq(Keys) /\ Cache!ToSet(t) \cup {k} \subseteq Cache!ToSet(Append(t, k))
  <2>1. /\ Append(t, k) \in Seq(Keys) /\ Len(Append(t, k)) = Len(t) + 1
        /\ \A i \in 1..Len(t) : Append(t, k)[i] = t[i]
        /\ Append(t, k)[Len(t) + 1] = k
    BY <1>2
  <2>2. Len(t) \in Nat /\ DOMAIN t = 1..Len(t) /\ DOMAIN Append(t, k) = 1..Len(t) + 1
    BY <1>2, <2>1
  <2>3. \A i \in 1..Len(t) : i \in 1..Len(t) + 1
    BY <2>2
  <2>4. Len(t) + 1 \in 1..Len(t) + 1
    BY <2>2
  <2> QED
    BY <2>1, <2>2, <2>3, <2>4 DEF Cache!ToSet
<1> QED
  BY <1>1, <1>2, <1>3

\* The keys of a sequence are not more than its length.
LEMMA OrderCounts ==
  ASSUME NEW s \in Seq(Keys), NEW S \in SUBSET Cache!ToSet(s)
  PROVE  IsFiniteSet(S) /\ Cardinality(S) <= Len(s)
<1>1. IsFiniteSet(1..Len(s)) /\ Cardinality(1..Len(s)) = Len(s)
  <2>1. Len(s) \in Nat /\ 1 \in Int
    OBVIOUS
  <2>2. IsFiniteSet(1..Len(s)) /\ Cardinality(1..Len(s)) = IF 1 > Len(s) THEN 0 ELSE Len(s) - 1 + 1
    BY <2>1, FS_Interval
  <2> QED
    BY <2>1, <2>2
<1>2. Cache!ToSet(s) = {s[i] : i \in 1..Len(s)}
  BY DEF Cache!ToSet
<1>3. s \in Surjection(1..Len(s), {s[i] : i \in 1..Len(s)})
  BY DEF Surjection
<1>4. IsFiniteSet(Cache!ToSet(s)) /\ Cardinality(Cache!ToSet(s)) <= Len(s)
  BY <1>1, <1>2, <1>3, FS_Surjection
<1>5. IsFiniteSet(S) /\ Cardinality(S) <= Cardinality(Cache!ToSet(s))
  BY <1>4, FS_Subset
<1> QED
  BY <1>4, <1>5, FS_CardinalityType

\* What an operation goes by stays so, whoever writes.
LEMMA StaysSound ==
  ASSUME Cache!CacheAssumption, Recent, Recent', now <= now',
         \A k \in Keys : file'[k] # None =>
           \/ file[k] # None /\ file'[k].stored = file[k].stored
           \/ file'[k].stored >= now,
         NEW b, Sound(b)
  PROVE  Sound(b)'
<1>1. Ttl \in Nat /\ now \in Int /\ now' \in Int
  BY DEF Cache!CacheAssumption, Recent
<1>2. b.time \in Int
  BY DEF Sound, Doing
<1>3. \A k \in Keys : /\ file[k] # None => file[k].stored \in Int
                      /\ file'[k] # None => file'[k].stored \in Int
  BY DEF Recent, Entry
<1>4. b.time <= now'
  BY <1>1, <1>2 DEF Sound
<1>5. ASSUME b.at = "touch", file'[b.key] # None PROVE b.time <= file'[b.key].stored
  <2>1. b.key \in Keys
    BY <1>5 DEF Sound, Keyed
  <2> QED
    BY <1>1, <1>2, <1>3, <1>5, <2>1 DEF Sound
<1>6. ASSUME b.at = "read", file'[b.key] # None PROVE b.time <= file'[b.key].stored + Ttl
  <2>1. b.key \in Keys
    BY <1>6 DEF Sound, Keyed
  <2> QED
    BY <1>1, <1>2, <1>3, <1>6, <2>1 DEF Sound
<1> QED
  BY <1>4, <1>5, <1>6 DEF Sound

-----------------------------------------------------------------------------
\* An operation o goes on to b.
Goes(o, b) == ops' = [ops EXCEPT ![o] = b] /\ now' = now /\ inherited' = inherited

\* What files an operation may write or remove ...
FilesAge ==
  \A k \in Keys : file'[k] # None =>
    \/ file[k] # None /\ file'[k].stored = file[k].stored
    \/ file'[k].stored >= now

\* ... so that no file more is settled ...
NoneSettles(o, b) ==
  /\ \A k \in Keys : file'[k] # None => file[k] # None \/ (b.at = "touch" /\ b.key = k)
  /\ ops[o].at \in {"remove", "touch"} => file'[ops[o].key] = None

\* ... and none leaves the order of use unless it is about to be removed.
OrderKept(b) ==
  \A k \in Cache!ToSet(lruOrder) : k \in Cache!ToSet(lruOrder') \/ (b.at = "remove" /\ b.key = k)

Evicts(b) == b.at = "evict" \/ (b.at = "remove" /\ b.then = "evict")

LEMMA SettledShrinks ==
  ASSUME ops \in [Ops -> Doing], NEW o \in Ops, NEW b \in Doing, Goes(o, b), NoneSettles(o, b)
  PROVE  Settled' \subseteq Settled
<1> SUFFICES ASSUME NEW k \in Keys, file'[k] # None, k \notin Removing', k \notin Touching'
             PROVE  k \in Settled
  BY DEF Settled
<1>1. ops'[o] = b /\ \A p \in Ops : p # o => ops'[p] = ops[p]
  BY DEF Goes
<1>2. \A p \in Ops : ops'[p].at \in {"remove", "touch"} => ops'[p].key # k
  BY DEF Removing, Touching
<1>3. file[k] # None
  BY <1>1, <1>2 DEF NoneSettles
<1>4. \A p \in Ops : ops[p].at \in {"remove", "touch"} => ops[p].key # k
  BY <1>1, <1>2 DEF NoneSettles
<1> QED
  BY <1>3, <1>4 DEF Settled, Removing, Touching

LEMMA EvictsOn ==
  ASSUME ops \in [Ops -> Doing], NEW o \in Ops, NEW b \in Doing, Goes(o, b),
         Evicts(ops[o]) => Evicts(b), Evicting
  PROVE  Evicting'
<1>1. ops'[o] = b /\ \A p \in Ops : p # o => ops'[p] = ops[p]
  BY DEF Goes
<1>2. PICK p \in Ops : Evicts(ops[p])
  BY DEF Evicting, Evicts
<1>3. \E q \in Ops : Evicts(ops'[q])
  BY <1>1, <1>2
<1> QED
  BY <1>3 DEF Evicting, Evicts

\* The operations are sound after a step of one.
LEMMA SoundOn ==
  ASSUME Cache!CacheAssumption, CacheInv, NEW o \in Ops, NEW b \in Doing, Goes(o, b),
         Recent', FilesAge, Sound(b)'
  PROVE  ops' \in [Ops -> Doing] /\ \A p \in Ops : Sound(ops[p])'
<1>1. ops'[o] = b /\ \A p \in Ops : p # o => ops'[p] = ops[p]
  BY DEF Goes, CacheInv
<1>2. ops' \in [Ops -> Doing]
  BY DEF Goes, CacheInv
<1>3. now <= now'
  BY DEF Goes, CacheInv, Recent
<1>4. ASSUME NEW p \in Ops, NEW d, d = ops'[p] PROVE Sound(d)'
  <2>1. CASE p = o
    BY <1>1, <1>4, <2>1
  <2>2. CASE p # o
    <3>1. Sound(d)
      BY <1>1, <1>4, <2>2 DEF CacheInv, Sound
    <3> QED
      BY <1>3, <3>1, StaysSound DEF CacheInv, FilesAge
  <2> QED
    BY <2>1, <2>2
<1>5. \A p \in Ops : Sound(ops[p])'
  BY <1>4 DEF Sound
<1> QED
  BY <1>2, <1>5

\* A step that settles no file.
LEMMA Moves ==
  ASSUME Cache!CacheAssumption, CacheInv, NEW o \in Ops, NEW b \in Doing, Goes(o, b),
         Recent', FilesAge, Sound(b)', NoneSettles(o, b), OrderKept(b), Evicts(ops[o]) => Evicts(b)
  PROVE  CacheInv'
<1>1. ops' \in [Ops -> Doing] /\ \A p \in Ops : Sound(ops[p])'
  BY SoundOn
<1>2. Settled' \subseteq Settled
  BY SettledShrinks DEF CacheInv
<1>3. Evicting => Evicting'
  BY EvictsOn DEF CacheInv
<1>4. ASSUME ~ inherited' PROVE Settled' \subseteq Cache!ToSet(lruOrder')
  <2>1. Settled \subseteq Cache!ToSet(lruOrder)
    BY <1>4 DEF CacheInv, Bounded, Goes
  <2>2. ops'[o] = b
    BY DEF Goes, CacheInv
  <2>3. \A k \in Settled' : ~ (b.at = "remove" /\ b.key = k)
    BY <2>2 DEF Settled, Removing
  <2> QED
    BY <1>2, <2>1, <2>3 DEF OrderKept
<1>5. ASSUME ~ inherited', ~ Evicting'
      PROVE  IsFiniteSet(Settled') /\ Cardinality(Settled') <= MaxEntries
  <2>1. IsFiniteSet(Settled) /\ Cardinality(Settled) <= MaxEntries
    BY <1>3, <1>5 DEF CacheInv, Bounded, Goes
  <2>2. PICK S, T : S = Settled /\ T = Settled'
    OBVIOUS
  <2>3. IsFiniteSet(T) /\ Cardinality(T) <= Cardinality(S) /\ Cardinality(S) \in Nat
        /\ Cardinality(T) \in Nat
    BY <1>2, <2>1, <2>2, FS_Subset, FS_CardinalityType
  <2>4. MaxEntries \in Nat
    BY DEF Cache!CacheAssumption
  <2> QED
    BY <2>1, <2>2, <2>3, <2>4
<1>6. Bounded'
  BY <1>4, <1>5 DEF Bounded
<1> QED
  BY <1>1, <1>6 DEF CacheInv

-----------------------------------------------------------------------------
LEMMA Resting ==
  ASSUME Cache!CacheAssumption
  PROVE  /\ Cache!Idle \in Doing /\ Cache!Idle.at = "idle" /\ Cache!Idle.key = None
         /\ Cache!Idle.time = 0 /\ Cache!Idle.then = "idle" /\ Cache!Idle.flight = None
BY DEF Cache!Idle, Doing, Cache!Kinds

\* A step that leaves files and memory alone.
LEMMA Calm ==
  ASSUME Cache!CacheAssumption, CacheInv, NEW o \in Ops, NEW b, Goes(o, b), Sound(b),
         UNCHANGED <<file, freshness, lruOrder>>,
         ops[o].at \in {"remove", "touch"} => file[ops[o].key] = None,
         ops[o].at \notin {"remove", "evict"}
  PROVE  CacheInv'
<1>1. b \in Doing
  BY DEF Sound
<1>2. Recent' /\ FilesAge /\ NoneSettles(o, b) /\ OrderKept(b) /\ Sound(b)'
  BY DEF CacheInv, Recent, FilesAge, NoneSettles, OrderKept, Sound, Goes
<1>3. ~ Evicts(ops[o])
  BY DEF Evicts
<1> QED
  BY <1>1, <1>2, <1>3, Moves

LEMMA CalmSteps ==
  ASSUME Cache!CacheAssumption, CacheInv, NEW o \in Ops,
         \/ Cache!GetFile(o) \/ Cache!Read(o) \/ Cache!BeginWrite(o) \/ Cache!OrSet(o)
         \/ Cache!FactoryEnds(o) \/ Cache!WriteFails(o) \/ Cache!TouchFails(o)
         \/ Cache!BeginPurge(o) \/ Cache!Purge(o)
  PROVE  CacheInv'
<1>1. PICK d : d = ops[o]
  OBVIOUS
<1>2. d \in Doing /\ Sound(d) /\ now \in Int /\ now >= 0 /\ Ttl \in Nat
  BY <1>1 DEF CacheInv, Sound, Recent, Cache!CacheAssumption
<1>3. CASE Cache!GetFile(o)
  <2>1. PICK k \in Keys : ops' = [ops EXCEPT ![o] =
                            [Cache!Idle EXCEPT !.at = "stat", !.key = k, !.time = now]]
    BY <1>3 DEF Cache!GetFile, Cache!Goto
  <2>2. PICK b : b = [Cache!Idle EXCEPT !.at = "stat", !.key = k, !.time = now]
    OBVIOUS
  <2>3. b \in Doing /\ b.at = "stat" /\ b.key = k /\ b.time = now
    BY ONLY <1>2, <2>2, k \in Keys, Resting, Cache!CacheAssumption DEF Doing
  <2>4. Sound(b)
    BY <1>2, <2>3 DEF Sound, Keyed
  <2> QED
    BY <1>3, <2>1, <2>2, <2>4, Calm DEF Cache!GetFile, Cache!Begin, Cache!Ready, Goes
<1>4. CASE Cache!Read(o)
  <2>1. d.at = "read" /\ d.key \in Keys
    BY <1>1, <1>2, <1>4 DEF Cache!Read, Cache!At, Sound, Keyed
  <2>2. PICK b : b = IF file[d.key] = None THEN [Cache!Idle EXCEPT !.at = "miss", !.key = d.key]
                     ELSE [d EXCEPT !.at = "decide", !.seen = file[d.key]]
    OBVIOUS
  <2>3. Goes(o, b) /\ UNCHANGED <<file, freshness, lruOrder>>
    BY <1>1, <1>4, <2>2 DEF Cache!Read, Cache!Goto, Goes
  <2>4. Sound(b)
    <3>1. CASE file[d.key] = None
      BY <1>2, <2>1, <2>2, <3>1, Resting DEF Sound, Doing, Keyed
    <3>2. CASE file[d.key] # None
      <4>1. file[d.key] \in Entry
        BY <2>1, <3>2 DEF CacheInv, Recent
      <4> QED
        BY <1>2, <2>1, <2>2, <3>2, <4>1 DEF Sound, Doing, Keyed
    <3> QED
      BY <3>1, <3>2
  <2> QED
    BY <1>1, <2>1, <2>3, <2>4, Calm
<1>5. CASE Cache!BeginWrite(o)
  <2>1. PICK k \in Keys, kind \in {"value", "negative"} : ops' = [ops EXCEPT ![o] =
                 [Cache!Idle EXCEPT !.at = "write", !.key = k, !.kind = kind, !.time = now]]
    BY <1>5 DEF Cache!BeginWrite, Cache!Goto
  <2>2. PICK b : b = [Cache!Idle EXCEPT !.at = "write", !.key = k, !.kind = kind, !.time = now]
    OBVIOUS
  <2>3. b \in Doing /\ b.at = "write" /\ b.key = k /\ b.time = now
    BY <1>2, <2>2, Resting DEF Doing, Cache!Kinds
  <2>4. Sound(b)
    BY <1>2, <2>3 DEF Sound, Keyed
  <2> QED
    BY <1>5, <2>1, <2>2, <2>4, Calm DEF Cache!BeginWrite, Cache!Begin, Cache!Ready, Goes
<1>6. CASE Cache!OrSet(o)
  <2>1. d.at = "miss" /\ d.key \in Keys
    BY <1>1, <1>2, <1>6 DEF Cache!OrSet, Cache!At, Sound, Keyed
  <2>2. PICK b \in {Cache!Idle,
                    [Cache!Idle EXCEPT !.at = "factory", !.key = d.key, !.flight = d.key]} :
          Goes(o, b) /\ UNCHANGED <<file, freshness, lruOrder>>
    BY <1>1, <1>6 DEF Cache!OrSet, Cache!Goto, Goes
  <2>3. Sound(b)
    BY <1>2, <2>1, <2>2, Resting DEF Sound, Doing, Keyed
  <2> QED
    BY <1>1, <2>1, <2>2, <2>3, Calm
<1>7. CASE Cache!FactoryEnds(o)
  <2>1. d.at = "factory" /\ d.key \in Keys
    BY <1>1, <1>2, <1>7 DEF Cache!FactoryEnds, Cache!At, Sound, Keyed
  <2>2. PICK b : b = [d EXCEPT !.at = "write", !.time = now]
    OBVIOUS
  <2>3. Goes(o, b) /\ UNCHANGED <<file, freshness, lruOrder>>
    BY <1>1, <1>7, <2>2 DEF Cache!FactoryEnds, Cache!Goto, Goes
  <2>5. b \in Doing /\ b.at = "write" /\ b.key = d.key /\ b.time = now
    BY <1>2, <2>2 DEF Doing
  <2>4. Sound(b)
    BY <1>2, <2>1, <2>5 DEF Sound, Keyed
  <2> QED
    BY <1>1, <2>1, <2>3, <2>4, Calm
<1>8. CASE Cache!WriteFails(o) \/ Cache!TouchFails(o)
  <2>1. Goes(o, Cache!Idle) /\ UNCHANGED <<file, freshness, lruOrder>>
    BY <1>8 DEF Cache!WriteFails, Cache!TouchFails, Cache!Finish, Cache!Goto, Goes
  <2>2. ops[o].at \in {"factory", "write"} \/ (ops[o].at = "touch" /\ file[ops[o].key] = None)
    BY <1>8 DEF Cache!WriteFails, Cache!TouchFails, Cache!At
  <2>3. Sound(Cache!Idle)
    BY <1>2, Resting DEF Sound, Keyed
  <2> QED
    BY <2>1, <2>2, <2>3, Calm
<1>9. CASE Cache!BeginPurge(o)
  <2>1. PICK b : b = [Cache!Idle EXCEPT !.at = "purge", !.time = now]
    OBVIOUS
  <2>2. /\ Goes(o, b) /\ UNCHANGED <<file, freshness, lruOrder>>
        /\ ops[o].at \in {"idle", "served", "miss"}
    BY <1>9, <2>1 DEF Cache!BeginPurge, Cache!Goto, Goes, Cache!Begin, Cache!Ready
  <2>4. b \in Doing /\ b.at = "purge" /\ b.time = now
    BY <1>2, <2>1, Resting DEF Doing
  <2>3. Sound(b)
    BY <1>2, <2>4 DEF Sound, Keyed
  <2> QED
    BY <2>2, <2>3, Calm
<1>10. CASE Cache!Purge(o)
  <2>1. d.at = "purge"
    BY <1>1, <1>10 DEF Cache!Purge, Cache!At
  <2>2. PICK b \in {Cache!Idle} \cup {[d EXCEPT !.at = "remove", !.key = k] : k \in Keys} :
          Goes(o, b) /\ UNCHANGED <<file, freshness, lruOrder>>
    BY <1>1, <1>10 DEF Cache!Purge, Cache!Finish, Cache!Goto, Goes
  <2>3. Sound(b)
    BY <1>2, <2>1, <2>2, Resting DEF Sound, Doing, Keyed
  <2> QED
    BY <1>1, <2>1, <2>2, <2>3, Calm
<1> QED
  BY <1>3, <1>4, <1>5, <1>6, <1>7, <1>8, <1>9, <1>10

\* A hit in memory, and a file that is decided on, which may be discarded.
LEMMA ReadSteps ==
  ASSUME Cache!CacheAssumption, CacheInv, NEW o \in Ops,
         Cache!GetFresh(o) \/ Cache!Stat(o) \/ Cache!Decide(o) \/ Cache!Delete(o)
  PROVE  CacheInv'
<1>1. PICK d : d = ops[o]
  OBVIOUS
<1>2. /\ d \in Doing /\ Sound(d) /\ now \in Int /\ now >= 0 /\ Ttl \in Nat \ {0}
      /\ lruOrder \in Seq(Keys)
  BY <1>1 DEF CacheInv, Sound, Recent, Cache!CacheAssumption
\* Memory and the order of use are as they were, or the key k has gone or is the last.
<1>3. ASSUME NEW k \in Keys, NEW b \in Doing, Goes(o, b), Sound(b), UNCHANGED file,
             d.at \notin {"remove", "evict", "touch"},
             \/ freshness' = freshness
             \/ freshness' = [freshness EXCEPT ![k] = None]
             \/ \E c \in Remembered : /\ freshness' = [freshness EXCEPT ![k] = c]
                                      /\ c.expiresAt <= c.stored + 2 * Ttl,
             \/ lruOrder' = lruOrder
             \/ lruOrder' = Append(Cache!Without(k), k)
             \/ lruOrder' = Cache!Without(k) /\ b.at = "remove" /\ b.key = k
      PROVE  CacheInv'
  <2>1. lruOrder' \in Seq(Keys) /\ OrderKept(b)
    BY <1>2, <1>3, Order DEF OrderKept
  <2>2. /\ freshness' \in [Keys -> Remembered \cup {None}]
        /\ \A q \in Keys : freshness'[q] # None =>
             freshness'[q].expiresAt <= freshness'[q].stored + 2 * Ttl
    BY <1>3 DEF CacheInv, Recent
  <2>3. Recent'
    BY <1>3, <2>1, <2>2 DEF CacheInv, Recent, Goes
  <2>4. FilesAge /\ NoneSettles(o, b) /\ Sound(b)'
    BY <1>1, <1>3 DEF CacheInv, FilesAge, NoneSettles, Sound, Goes
  <2>5. ~ Evicts(ops[o])
    BY <1>1, <1>3 DEF Evicts
  <2> QED
    BY <1>3, <2>1, <2>3, <2>4, <2>5, Moves
<1>4. CASE Cache!GetFresh(o)
  <2>1. PICK k \in Keys : /\ freshness[k] # None /\ now < freshness[k].expiresAt
                          /\ Cache!TouchLru(k) /\ Cache!Answer(o, freshness[k].stored, now)
    BY <1>4 DEF Cache!GetFresh
  <2>2. PICK age : age = now - freshness[k].stored
    OBVIOUS
  <2>3. age \in Int /\ age < 2 * Ttl
    <3>1. freshness[k] \in Remembered /\ freshness[k].expiresAt <= freshness[k].stored + 2 * Ttl
      BY <2>1 DEF CacheInv, Recent
    <3> QED
      BY <1>2, <2>1, <2>2, <3>1 DEF Remembered
  <2>4. PICK b : b = [Cache!Idle EXCEPT !.at = "served", !.age = age]
    OBVIOUS
  <2>5. b \in Doing /\ b.at = "served" /\ b.time = 0 /\ b.age = age
    BY <1>2, <2>3, <2>4, Resting DEF Doing
  <2>6. Sound(b)
    BY <1>2, <2>3, <2>5 DEF Sound, Keyed
  <2>7. /\ Goes(o, b) /\ UNCHANGED <<file, freshness>> /\ lruOrder' = Append(Cache!Without(k), k)
        /\ d.at \in {"idle", "served", "miss"}
    BY <1>1, <1>4, <2>1, <2>2, <2>4
       DEF Cache!GetFresh, Cache!Answer, Cache!Goto, Cache!TouchLru, Goes, Cache!Begin, Cache!Ready
  <2> QED
    BY <1>3, <2>5, <2>6, <2>7
<1>5. ASSUME NEW k \in Keys, NEW then \in {"idle", "miss"}, Cache!Discard(o, k, then),
             UNCHANGED <<file, now, inherited>>, d.at \notin {"remove", "evict", "touch"}
      PROVE  CacheInv'
  <2>1. PICK b : b = [d EXCEPT !.at = "remove", !.key = k, !.then = then]
    OBVIOUS
  <2>2. b \in Doing /\ b.at = "remove" /\ b.key = k /\ b.time = d.time
    BY <1>2, <2>1 DEF Doing
  <2>3. Sound(b)
    BY <1>2, <2>2 DEF Sound, Keyed
  <2>4. /\ Goes(o, b) /\ freshness' = [freshness EXCEPT ![k] = None]
        /\ lruOrder' = Cache!Without(k)
    BY <1>1, <1>5, <2>1 DEF Cache!Discard, Cache!Forget, Cache!Goto, Goes
  <2> QED
    BY <1>3, <1>5, <2>2, <2>3, <2>4
<1>6. CASE Cache!Stat(o)
  <2>1. d.at = "stat" /\ d.key \in Keys /\ d.time \in Int
    BY <1>1, <1>2, <1>6 DEF Cache!Stat, Cache!At, Sound, Keyed, Doing
  <2>2. CASE file[d.key] # None /\ d.time - file[d.key].mtime > Ttl
    BY <1>1, <1>5, <1>6, <2>1, <2>2 DEF Cache!Stat
  <2>3. CASE ~ (file[d.key] # None /\ d.time - file[d.key].mtime > Ttl)
    <3>1. PICK b : b = [d EXCEPT !.at = "read"]
      OBVIOUS
    <3>2. b \in Doing /\ b.at = "read" /\ b.key = d.key /\ b.time = d.time
      BY <1>2, <3>1 DEF Doing
    <3>3. ASSUME file[d.key] # None PROVE d.time <= file[d.key].stored + Ttl
      <4>1. file[d.key] \in Entry /\ file[d.key].mtime <= file[d.key].stored
        BY <2>1, <3>3 DEF CacheInv, Recent
      <4> QED
        BY <1>2, <2>1, <2>3, <3>3, <4>1 DEF Entry
    <3>4. Sound(b)
      BY <1>2, <2>1, <3>2, <3>3 DEF Sound, Keyed
    <3>5. Goes(o, b) /\ UNCHANGED <<file, freshness, lruOrder>>
      BY <1>1, <1>6, <2>3, <3>1 DEF Cache!Stat, Cache!Goto, Goes
    <3> QED
      BY <1>1, <2>1, <3>4, <3>5, Calm
  <2> QED
    BY <2>2, <2>3
<1>7. CASE Cache!Decide(o)
  <2>1. /\ d.at = "decide" /\ d.key \in Keys /\ d.time \in Int
        /\ d.seen \in Entry /\ d.seen.stored \in Int /\ d.time <= d.seen.stored + Ttl
    BY <1>1, <1>2, <1>7 DEF Cache!Decide, Cache!At, Sound, Keyed, Doing, Entry
  <2>2. \/ Cache!Discard(o, d.key, "miss")
        \/ /\ \/ freshness' = freshness
              \/ freshness' = [freshness EXCEPT ![d.key] =
                                 [stored |-> d.seen.stored, expiresAt |-> d.time + Ttl]]
           /\ Cache!TouchLru(d.key)
           /\ Cache!Answer(o, d.seen.stored, d.time)
    BY <1>1, <1>7 DEF Cache!Decide
  <2>3. UNCHANGED <<file, now, inherited>>
    BY <1>7 DEF Cache!Decide
  <2>4. CASE Cache!Discard(o, d.key, "miss")
    BY <1>5, <2>1, <2>3, <2>4
  <2>5. CASE ~ Cache!Discard(o, d.key, "miss")
    <3>1. PICK age : age = d.time - d.seen.stored
      OBVIOUS
    <3>2. PICK b : b = [Cache!Idle EXCEPT !.at = "served", !.age = age]
      OBVIOUS
    <3>3. age \in Int /\ age < 2 * Ttl
      BY <1>2, <2>1, <3>1
    <3>4. b \in Doing /\ b.at = "served" /\ b.time = 0 /\ b.age = age
      BY <1>2, <3>2, <3>3, Resting DEF Doing
    <3>5. Sound(b)
      BY <1>2, <3>3, <3>4 DEF Sound, Keyed
    <3>6. Goes(o, b) /\ lruOrder' = Append(Cache!Without(d.key), d.key)
      BY <2>2, <2>3, <2>5, <3>1, <3>2 DEF Cache!Answer, Cache!Goto, Cache!TouchLru, Goes
    <3>7. PICK c : c = [stored |-> d.seen.stored, expiresAt |-> d.time + Ttl]
      OBVIOUS
    <3>8. c \in Remembered /\ c.expiresAt <= c.stored + 2 * Ttl
      BY <1>2, <2>1, <3>7 DEF Remembered
    <3>9. freshness' = freshness \/ freshness' = [freshness EXCEPT ![d.key] = c]
      BY <2>2, <2>5, <3>7
    <3> QED
      BY <1>3, <2>1, <2>3, <3>4, <3>5, <3>6, <3>8, <3>9
  <2> QED
    BY <2>4, <2>5
<1>8. CASE Cache!Delete(o)
  <2>1. PICK k \in Keys : /\ Cache!Forget(k)
                          /\ Cache!Goto(o, [Cache!Idle EXCEPT !.at = "remove", !.key = k])
    BY <1>8 DEF Cache!Delete
  <2>2. PICK b : b = [Cache!Idle EXCEPT !.at = "remove", !.key = k]
    OBVIOUS
  <2>3. b \in Doing /\ b.at = "remove" /\ b.key = k /\ b.time = 0
    BY <1>2, <2>2, Resting DEF Doing
  <2>4. Sound(b)
    BY <1>2, <2>3 DEF Sound, Keyed
  <2>5. /\ Goes(o, b) /\ freshness' = [freshness EXCEPT ![k] = None] /\ UNCHANGED file
        /\ lruOrder' = Cache!Without(k) /\ d.at \in {"idle", "served", "miss"}
    BY <1>1, <1>8, <2>1, <2>2
       DEF Cache!Delete, Cache!Forget, Cache!Goto, Goes, Cache!Begin, Cache!Ready
  <2> QED
    BY <1>3, <2>3, <2>4, <2>5
<1> QED
  BY <1>4, <1>6, <1>7, <1>8

\* A file is renamed into place, or removed.
LEMMA FileSteps ==
  ASSUME Cache!CacheAssumption, CacheInv, NEW o \in Ops, Cache!Rename(o) \/ Cache!RemoveFile(o)
  PROVE  CacheInv'
<1>1. PICK d : d = ops[o]
  OBVIOUS
<1>2. /\ d \in Doing /\ Sound(d) /\ now \in Int /\ now >= 0 /\ Ttl \in Nat \ {0}
      /\ file \in [Keys -> Entry \cup {None}]
  BY <1>1 DEF CacheInv, Sound, Recent, Cache!CacheAssumption
<1>3. CASE Cache!Rename(o)
  <2>1. /\ d.at = "write" /\ d.key \in Keys /\ d.kind \in Cache!Kinds
        /\ d.time \in Int /\ d.time <= now
    BY <1>1, <1>2, <1>3 DEF Cache!Rename, Cache!At, Sound, Keyed, Doing
  <2>2. PICK checked : checked = IF d.kind = "negative" THEN d.time ELSE 0
    OBVIOUS
  <2>3. PICK f : f = [kind |-> d.kind, stored |-> now, mtime |-> now, checked |-> checked]
    OBVIOUS
  <2>4. f \in Entry /\ f.stored = now /\ f.mtime = now
    <3>1. checked \in Int
      BY <2>1, <2>2
    <3> QED
      BY <1>2, <2>1, <2>3, <3>1 DEF Entry
  <2>5. PICK b : b = [d EXCEPT !.at = "touch"]
    OBVIOUS
  <2>6. b \in Doing /\ b.at = "touch" /\ b.key = d.key /\ b.time = d.time
    BY <1>2, <2>5 DEF Doing
  <2>7. /\ Goes(o, b) /\ file' = [file EXCEPT ![d.key] = f]
        /\ UNCHANGED <<freshness, lruOrder>>
    BY <1>1, <1>3, <2>2, <2>3, <2>5 DEF Cache!Rename, Cache!Goto, Goes
  <2>8. /\ file' \in [Keys -> Entry \cup {None}] /\ file'[d.key] = f
        /\ \A k \in Keys : k # d.key => file'[k] = file[k]
    BY <1>2, <2>1, <2>4, <2>7
  <2>9. Recent'
    BY <2>4, <2>7, <2>8 DEF CacheInv, Recent, Goes
  <2>10. FilesAge /\ NoneSettles(o, b) /\ OrderKept(b)
    BY <1>1, <1>2, <2>1, <2>4, <2>6, <2>7, <2>8 DEF FilesAge, NoneSettles, OrderKept
  <2>11. Sound(b)'
    BY <2>1, <2>4, <2>6, <2>7, <2>8 DEF Sound, Keyed, Goes
  <2>12. ~ Evicts(ops[o])
    BY <1>1, <2>1 DEF Evicts
  <2> QED
    BY <2>6, <2>7, <2>9, <2>10, <2>11, <2>12, Moves
<1>4. CASE Cache!RemoveFile(o)
  <2>1. d.at = "remove" /\ d.key \in Keys /\ d.then \in {"idle", "miss", "evict"}
        /\ d.flight \in Keys \cup {None}
    BY <1>1, <1>2, <1>4 DEF Cache!RemoveFile, Cache!At, Sound, Keyed, Doing
  <2>2. PICK b : b = IF d.then = "idle" THEN Cache!Idle
                     ELSE [Cache!Idle EXCEPT !.at = d.then, !.key = d.key, !.flight = d.flight]
    OBVIOUS
  <2>3. b \in Doing /\ b.at = d.then /\ b.time = 0 /\ (b.at # "idle" => b.key = d.key)
    <3>1. CASE d.then = "idle"
      BY <2>2, <3>1, Resting
    <3>2. CASE d.then # "idle"
      BY <2>1, <2>2, <3>2, Resting DEF Doing
    <3> QED
      BY <3>1, <3>2
  <2>4. /\ Goes(o, b) /\ file' = [file EXCEPT ![d.key] = None]
        /\ UNCHANGED <<freshness, lruOrder>>
    BY <1>1, <1>4, <2>2 DEF Cache!RemoveFile, Cache!Finish, Cache!Goto, Goes
  <2>5. /\ file' \in [Keys -> Entry \cup {None}] /\ file'[d.key] = None
        /\ \A k \in Keys : k # d.key => file'[k] = file[k]
    BY <1>2, <2>1, <2>4
  <2>6. Recent'
    BY <2>4, <2>5 DEF CacheInv, Recent, Goes
  <2>7. FilesAge /\ NoneSettles(o, b) /\ OrderKept(b)
    BY <1>1, <2>1, <2>4, <2>5 DEF FilesAge, NoneSettles, OrderKept
  <2>8. Sound(b)'
    BY <1>2, <2>1, <2>3, <2>4 DEF Sound, Keyed, Goes
  <2>9. Evicts(ops[o]) => Evicts(b)
    BY <1>1, <2>1, <2>3 DEF Evicts
  <2> QED
    BY <2>3, <2>4, <2>6, <2>7, <2>8, <2>9, Moves
<1> QED
  BY <1>3, <1>4

\* Memory follows a file: one more is settled, and there may be too many.
LEMMA TouchKeeps ==
  ASSUME Cache!CacheAssumption, CacheInv, NEW o \in Ops, Cache!Touch(o)
  PROVE  CacheInv'
<1>1. PICK d : d = ops[o]
  OBVIOUS
<1>2. /\ d \in Doing /\ Sound(d) /\ now \in Int /\ now >= 0 /\ Ttl \in Nat \ {0}
      /\ file \in [Keys -> Entry \cup {None}] /\ lruOrder \in Seq(Keys)
  BY <1>1 DEF CacheInv, Sound, Recent, Cache!CacheAssumption
<1>3. PICK k : k = d.key
  OBVIOUS
<1>4. /\ d.at = "touch" /\ k \in Keys /\ d.time \in Int /\ d.flight \in Keys \cup {None}
      /\ file[k] \in Entry /\ d.time <= file[k].stored /\ file[k] # None
  BY <1>1, <1>2, <1>3 DEF Cache!Touch, Cache!At, Sound, Keyed, Doing
<1>5. PICK b : b = [Cache!Idle EXCEPT !.at = "evict", !.flight = d.flight]
  OBVIOUS
<1>6. b \in Doing /\ b.at = "evict" /\ b.time = 0
  BY <1>4, <1>5, Resting DEF Doing
<1>7. PICK f : f = [file[k] EXCEPT !.mtime = d.time]
  OBVIOUS
<1>8. f \in Entry /\ f.stored = file[k].stored /\ f.mtime = d.time
  BY <1>4, <1>7 DEF Entry
<1>9. PICK c : c = IF d.kind = "negative" THEN None
                   ELSE [stored |-> d.time, expiresAt |-> d.time + Ttl]
  OBVIOUS
<1>10. c \in Remembered \cup {None} /\ (c # None => c.expiresAt <= c.stored + 2 * Ttl)
  BY <1>2, <1>4, <1>9 DEF Remembered
<1>11. /\ Goes(o, b) /\ file' = [file EXCEPT ![k] = f] /\ freshness' = [freshness EXCEPT ![k] = c]
       /\ lruOrder' = Append(Cache!Without(k), k)
  BY <1>1, <1>2, <1>3, <1>4, <1>5, <1>7, <1>9 DEF Cache!Touch, Cache!Goto, Cache!TouchLru, Goes
<1>12. /\ file' \in [Keys -> Entry \cup {None}] /\ file'[k] = f
       /\ \A q \in Keys : q # k => file'[q] = file[q]
  BY <1>2, <1>4, <1>8, <1>11
<1>13. lruOrder' \in Seq(Keys) /\ Cache!ToSet(lruOrder) \cup {k} \subseteq Cache!ToSet(lruOrder')
  BY <1>2, <1>4, <1>11, Order
<1>14. Recent'
  <2>1. /\ freshness' \in [Keys -> Remembered \cup {None}]
        /\ \A q \in Keys : freshness'[q] # None =>
             freshness'[q].expiresAt <= freshness'[q].stored + 2 * Ttl
    BY <1>4, <1>10, <1>11 DEF CacheInv, Recent
  <2>2. \A q \in Keys : file'[q] # None => file'[q].mtime <= file'[q].stored
    BY <1>4, <1>8, <1>12 DEF CacheInv, Recent
  <2> QED
    BY <1>11, <1>12, <1>13, <2>1, <2>2 DEF CacheInv, Recent, Goes
<1>15. FilesAge /\ Sound(b)'
  BY <1>2, <1>4, <1>6, <1>8, <1>11, <1>12 DEF FilesAge, Sound, Keyed, Goes
<1>16. ops' \in [Ops -> Doing] /\ \A p \in Ops : Sound(ops[p])'
  BY <1>6, <1>11, <1>14, <1>15, SoundOn
<1>17. Evicting'
  <2>1. ops'[o].at = "evict"
    BY <1>6, <1>11 DEF Goes, CacheInv
  <2> QED
    BY <2>1 DEF Evicting
<1>18. ASSUME ~ inherited' PROVE Settled' \subseteq Cache!ToSet(lruOrder')
  <2> SUFFICES ASSUME NEW q \in Keys, file'[q] # None, q \notin Removing', q \notin Touching', q # k
               PROVE  q \in Settled
    BY <1>11, <1>13, <1>18 DEF Settled, CacheInv, Bounded, Goes
  <2>1. ops'[o] = b /\ \A p \in Ops : p # o => ops'[p] = ops[p]
    BY <1>11 DEF Goes, CacheInv
  <2>2. \A p \in Ops : ops'[p].at \in {"remove", "touch"} => ops'[p].key # q
    BY DEF Removing, Touching
  <2>3. \A p \in Ops : ops[p].at \in {"remove", "touch"} => ops[p].key # q
    BY <1>1, <1>3, <2>1, <2>2
  <2> QED
    BY <1>12, <2>3 DEF Settled, Removing, Touching
<1> QED
  BY <1>14, <1>16, <1>17, <1>18 DEF CacheInv, Bounded

\* The oldest key goes, or there are not too many.
LEMMA EvictKeeps ==
  ASSUME Cache!CacheAssumption, CacheInv, NEW o \in Ops, Cache!Evict(o)
  PROVE  CacheInv'
<1>1. PICK d : d = ops[o]
  OBVIOUS
<1>2. /\ d \in Doing /\ Sound(d) /\ d.at = "evict" /\ lruOrder \in Seq(Keys)
      /\ MaxEntries \in Nat /\ Len(lruOrder) \in Nat
  BY <1>1 DEF CacheInv, Recent, Cache!CacheAssumption, Cache!Evict, Cache!At
<1>3. CASE Len(lruOrder) > MaxEntries
  <2>1. PICK k : k = Head(lruOrder)
    OBVIOUS
  <2>2. k \in Keys
    BY <1>2, <1>3, <2>1
  <2>3. PICK b : b = [d EXCEPT !.at = "remove", !.key = k, !.then = "evict"]
    OBVIOUS
  <2>4. b \in Doing /\ b.at = "remove" /\ b.key = k /\ b.time = d.time /\ b.then = "evict"
    BY <1>2, <2>2, <2>3 DEF Doing
  <2>5. /\ Goes(o, b) /\ freshness' = [freshness EXCEPT ![k] = None] /\ UNCHANGED file
        /\ lruOrder' = Cache!Without(k)
    BY <1>1, <1>2, <1>3, <2>1, <2>3
       DEF Cache!Evict, Cache!Discard, Cache!Forget, Cache!Goto, Goes
  <2>6. lruOrder' \in Seq(Keys) /\ OrderKept(b)
    BY <1>2, <2>2, <2>4, <2>5, Order DEF OrderKept
  <2>7. Recent'
    BY <2>5, <2>6 DEF CacheInv, Recent, Goes
  <2>8. FilesAge /\ NoneSettles(o, b) /\ Sound(b)' /\ Evicts(b)
    BY <1>1, <1>2, <2>2, <2>4, <2>5 DEF FilesAge, NoneSettles, Sound, Goes, Keyed, Evicts
  <2> QED
    BY <2>4, <2>5, <2>6, <2>7, <2>8, Moves
<1>4. CASE Len(lruOrder) <= MaxEntries
  <2>1. Goes(o, Cache!Idle) /\ UNCHANGED <<file, freshness, lruOrder>>
    BY <1>2, <1>4 DEF Cache!Evict, Cache!Finish, Cache!Goto, Goes
  <2>2. Recent' /\ FilesAge /\ NoneSettles(o, Cache!Idle) /\ Sound(Cache!Idle)'
    BY <1>1, <1>2, <2>1, Resting
       DEF CacheInv, Recent, FilesAge, NoneSettles, Sound, Goes, Keyed
  <2>3. ops' \in [Ops -> Doing] /\ \A p \in Ops : Sound(ops[p])'
    BY <2>1, <2>2, Resting, SoundOn
  <2>4. Settled' \subseteq Settled
    BY <2>1, <2>2, Resting, SettledShrinks DEF CacheInv
  <2>5. ASSUME ~ inherited'
        PROVE  /\ Settled' \subseteq Cache!ToSet(lruOrder')
               /\ IsFiniteSet(Settled') /\ Cardinality(Settled') <= MaxEntries
    <3>1. Settled' \subseteq Cache!ToSet(lruOrder)
      BY <2>1, <2>4, <2>5 DEF CacheInv, Bounded, Goes
    <3>2. PICK S : S = Settled'
      OBVIOUS
    <3>3. IsFiniteSet(S) /\ Cardinality(S) <= Len(lruOrder)
      BY <1>2, <3>1, <3>2, OrderCounts
    <3>4. Cardinality(S) \in Nat
      BY <3>3, FS_CardinalityType
    <3> QED
      BY <1>2, <1>4, <2>1, <3>1, <3>2, <3>3, <3>4
  <2> QED
    BY <2>2, <2>3, <2>5 DEF CacheInv, Bounded
<1> QED
  BY <1>2, <1>3, <1>4

\* A restart forgets what was under way, and time goes on.
LEMMA OutsideKeeps ==
  ASSUME Cache!CacheAssumption, CacheInv, Cache!Restart \/ Cache!Tick
  PROVE  CacheInv'
<1>1. CASE Cache!Restart
  <2>1. /\ ops' = [o \in Ops |-> Cache!Idle] /\ inherited' = TRUE /\ UNCHANGED <<file, now>>
        /\ freshness' = [k \in Keys |-> None] /\ lruOrder' = <<>>
    BY <1>1 DEF Cache!Restart
  <2>2. Recent'
    BY <2>1 DEF CacheInv, Recent
  <2>3. PICK b : b = Cache!Idle
    OBVIOUS
  <2>4. Sound(b)'
    BY <2>1, <2>3, Resting DEF Sound, Keyed, CacheInv, Recent
  <2>5. ops' \in [Ops -> Doing] /\ \A o \in Ops : Sound(ops[o])'
    <3>1. \A o \in Ops : ops'[o] = b
      BY <2>1, <2>3
    <3>2. ops' \in [Ops -> Doing]
      BY <2>1, Resting
    <3> QED
      BY <2>4, <3>1, <3>2 DEF Sound
  <2> QED
    BY <2>1, <2>2, <2>5 DEF CacheInv, Bounded
<1>2. CASE Cache!Tick
  <2>1. now' = now + 1 /\ UNCHANGED <<file, freshness, lruOrder, ops, inherited>>
    BY <1>2 DEF Cache!Tick
  <2>2. Recent' /\ now <= now' /\ FilesAge
    BY <2>1 DEF CacheInv, Recent, FilesAge
  <2>3. ASSUME NEW o \in Ops, NEW d, d = ops[o] PROVE Sound(d)'
    BY <2>2, <2>3, StaysSound DEF CacheInv, Sound, FilesAge
  <2>4. \A o \in Ops : Sound(ops[o])'
    BY <2>1, <2>3 DEF Sound
  <2>5. Bounded'
    BY <2>1 DEF CacheInv, Bounded, Settled, Removing, Touching, Evicting
  <2> QED
    BY <2>1, <2>2, <2>4, <2>5 DEF CacheInv
<1> QED
  BY <1>1, <1>2

LEMMA CacheStart ==
  ASSUME Cache!CacheAssumption, Cache!Init PROVE CacheInv
<1>1. PICK b : b = Cache!Idle
  OBVIOUS
<1>2. Sound(b)
  BY <1>1, Resting DEF Sound, Keyed, Cache!Init
<1>3. ops \in [Ops -> Doing] /\ \A o \in Ops : Sound(ops[o])
  <2>1. \A o \in Ops : ops[o] = b
    BY <1>1 DEF Cache!Init
  <2> QED
    BY <1>1, <1>2, <2>1, Resting DEF Cache!Init, Sound
<1>4. Recent
  <2>1. \A kind \in Cache!Kinds :
          [kind |-> kind, checked |-> 0, stored |-> 0, mtime |-> 0] \in Entry
    BY DEF Entry
  <2>2. file \in [Keys -> Entry \cup {None}]
    BY <2>1 DEF Cache!Init
  <2>3. \A k \in Keys : file[k] # None => file[k].mtime <= file[k].stored
    BY DEF Cache!Init
  <2> QED
    BY <2>2, <2>3 DEF Cache!Init, Recent
<1>5. Bounded
  <2> SUFFICES ASSUME ~ inherited PROVE Settled = {}
    BY FS_EmptySet DEF Bounded, Cache!CacheAssumption
  <2> QED
    BY DEF Settled, Cache!Init
<1> QED
  BY <1>3, <1>4, <1>5 DEF CacheInv

LEMMA CacheStep ==
  Cache!CacheAssumption /\ CacheInv /\ [Cache!Next]_Cache!cacheVars => CacheInv'
<1> SUFFICES ASSUME Cache!CacheAssumption, CacheInv, [Cache!Next]_Cache!cacheVars PROVE CacheInv'
  OBVIOUS
<1>1. CASE UNCHANGED Cache!cacheVars
  BY <1>1 DEF Cache!cacheVars, CacheInv, Recent, Sound, Bounded, Settled, Removing, Touching, Evicting
<1>2. CASE \E o \in Ops :
         \/ Cache!GetFile(o) \/ Cache!Read(o) \/ Cache!BeginWrite(o) \/ Cache!OrSet(o)
         \/ Cache!FactoryEnds(o) \/ Cache!WriteFails(o) \/ Cache!TouchFails(o)
         \/ Cache!BeginPurge(o) \/ Cache!Purge(o)
  BY <1>2, CalmSteps
<1>3. CASE \E o \in Ops :
         Cache!GetFresh(o) \/ Cache!Stat(o) \/ Cache!Decide(o) \/ Cache!Delete(o)
  BY <1>3, ReadSteps
<1>4. CASE \E o \in Ops : Cache!Rename(o) \/ Cache!RemoveFile(o)
  BY <1>4, FileSteps
<1>5. CASE \E o \in Ops : Cache!Touch(o) \/ Cache!Evict(o)
  BY <1>5, TouchKeeps, EvictKeeps
<1>6. CASE Cache!Restart \/ Cache!Tick
  BY <1>6, OutsideKeeps
<1> QED
  BY <1>1, <1>2, <1>3, <1>4, <1>5, <1>6 DEF Cache!Next

(***************************************************************************)
(* However operations on a cache over files overlap, what a get answers    *)
(* was stored less than twice the time to live before it began, and when   *)
(* nothing is under way there are at most maxEntries files (file-cache.ts). *)
(***************************************************************************)
THEOREM CacheLimits ==
  ASSUME Cache!CacheAssumption
  PROVE  Cache!Spec => []LimitsKept
<1>1. CacheInv => LimitsKept
  <2> SUFFICES ASSUME CacheInv PROVE LimitsKept
    OBVIOUS
  <2>1. Cache!ServedInTime
    BY DEF CacheInv, Sound, Cache!ServedInTime, Cache!At
  <2>2. ASSUME \A o \in Ops : Cache!Ready(o), ~ inherited
        PROVE  Cache!Cardinality({k \in Keys : file[k] # None}) <= MaxEntries
    <3>1. ~ Evicting /\ Settled = {k \in Keys : file[k] # None}
      BY <2>2 DEF Cache!Ready, Evicting, Settled, Removing, Touching
    <3>2. Cardinality(Settled) <= MaxEntries
      BY <2>2, <3>1 DEF CacheInv, Bounded
    <3> QED
      BY <3>1, <3>2, CacheCounts
  <2>3. Cache!EntriesBounded
    BY <2>2 DEF Cache!EntriesBounded
  <2> QED
    BY <2>1, <2>3 DEF LimitsKept, Cache!LimitsKept
<1> QED
  BY <1>1, CacheStart, CacheStep, PTL DEF Cache!Spec

-----------------------------------------------------------------------------
(***************************************************************************)
(* Projections.                                                            *)
(***************************************************************************)

\* The instance counts as FiniteSets does.
LEMMA PageCounts == \A S : Worker!Cardinality(S) = Cardinality(S)
BY DEF Worker!Cardinality, Cardinality, Worker!IsFiniteSet, IsFiniteSet

\* The lesser of two numbers.
LEMMA LesserOf ==
  ASSUME NEW a \in Nat, NEW b \in Nat
  PROVE  Worker!Min({a, b}) = IF a <= b THEN a ELSE b
<1>1. \E x \in {a, b} : \A y \in {a, b} : x <= y
  OBVIOUS
<1> QED
  BY <1>1 DEF Worker!Min

\* Finitely many numbers can be put in order.
LEMMA InOrder ==
  ASSUME NEW S \in SUBSET Nat, IsFiniteSet(S)
  PROVE  \E q \in [1..Cardinality(S) -> S] : \A i, j \in DOMAIN q : i < j => q[i] < q[j]
<1> DEFINE Ordered(T) ==
             \E q \in [1..Cardinality(T) -> T] : \A i, j \in DOMAIN q : i < j => q[i] < q[j]
           Bad == {T \in SUBSET S : ~ Ordered(T)}
<1>1. SUFFICES ASSUME Bad # {} PROVE FALSE
  OBVIOUS
<1>2. Bad \in SUBSET SUBSET S
  OBVIOUS
<1>3. PICK T \in Bad : \A x \in T : T \ {x} \notin Bad
  <2> HIDE DEF Bad
  <2> QED
    BY <1>1, <1>2, LeastSubset
<1>4. T \in SUBSET S /\ ~ Ordered(T) /\ \A x \in T : Ordered(T \ {x})
  BY <1>3
<1>5. IsFiniteSet(T) /\ Cardinality(T) \in Nat /\ T \subseteq Nat
  BY <1>4, FS_Subset, FS_CardinalityType
<1>6. CASE T = {}
  <2>1. Cardinality(T) = 0
    BY <1>6, FS_EmptySet
  <2>2. PICK q : q = [i \in 1..0 |-> 0]
    OBVIOUS
  <2>3. q \in [1..Cardinality(T) -> T] /\ DOMAIN q = {}
    BY <2>1, <2>2
  <2> QED
    BY <1>4, <2>3
<1>7. CASE T # {}
  <2>1. PICK m \in T : \A x \in T : x <= m
    <3>1. PICK minus : minus = [x \in T |-> 0 - x]
      OBVIOUS
    <3>2. \A x \in T : minus[x] \in Int
      BY <1>5, <3>1
    <3>3. PICK m \in T : \A x \in T : minus[m] <= minus[x]
      BY <1>5, <1>7, <3>2, LeastValue
    <3> QED
      BY <1>5, <3>1, <3>3
  <2>2. PICK n \in Nat : n = Cardinality(T \ {m}) /\ Cardinality(T) = n + 1
    <3>1. IsFiniteSet(T \ {m}) /\ Cardinality(T \ {m}) = Cardinality(T) - 1
      BY <1>5, <2>1, FS_RemoveElement
    <3>2. Cardinality(T \ {m}) \in Nat
      BY <3>1, FS_CardinalityType
    <3> QED
      BY <1>5, <3>1, <3>2
  <2>3. PICK q \in [1..n -> T \ {m}] : \A i, j \in 1..n : i < j => q[i] < q[j]
    BY <1>4, <2>1, <2>2
  <2>4. PICK r : r = [i \in 1..(n + 1) |-> IF i = n + 1 THEN m ELSE q[i]]
    OBVIOUS
  <2>5. \A i \in 1..(n + 1) : i # n + 1 => i \in 1..n
    BY <2>2
  <2>6. \A i \in 1..n : q[i] \in Nat /\ q[i] < m
    <3> SUFFICES ASSUME NEW i \in 1..n PROVE q[i] \in Nat /\ q[i] < m
      OBVIOUS
    <3>1. q[i] \in T /\ q[i] # m
      BY <2>3
    <3>2. q[i] \in Nat /\ m \in Nat /\ q[i] <= m
      BY <1>5, <2>1, <3>1
    <3> QED
      BY <3>1, <3>2
  <2>7. r \in [1..Cardinality(T) -> T] /\ DOMAIN r = 1..(n + 1)
    BY <2>1, <2>2, <2>3, <2>4, <2>5
  <2>8. ASSUME NEW i \in 1..(n + 1), NEW j \in 1..(n + 1), i < j PROVE r[i] < r[j]
    <3>1. i \in 1..n /\ r[i] = q[i]
      BY <2>2, <2>4, <2>8
    <3>2. CASE j = n + 1
      BY <2>4, <2>6, <3>1, <3>2
    <3>3. CASE j # n + 1
      BY <2>3, <2>4, <2>5, <2>8, <3>1, <3>3
    <3> QED
      BY <3>2, <3>3
  <2> QED
    BY <1>4, <2>7, <2>8
<1> QED
  BY <1>6, <1>7

\* The functions that EventsOf may be, up to N.
UpTo(f, s, seq, N) ==
  f = [n \in 0..N |-> IF n = 0 THEN <<>>
                      ELSE IF StreamOf[seq[n]] = s THEN Append(f[n - 1], seq[n])
                      ELSE f[n - 1]]

\* There is one.
LEMMA UpToExists ==
  ASSUME NEW s, NEW seq, NEW N \in Nat PROVE \E f : UpTo(f, s, seq, N)
<1> DEFINE Bad == {n \in Nat : ~ \E f : UpTo(f, s, seq, n)}
<1>1. SUFFICES ASSUME Bad # {} PROVE FALSE
  OBVIOUS
<1>2. PICK n \in Bad : \A m \in Bad : n <= m
  <2>1. Bad \in SUBSET Nat
    OBVIOUS
  <2> HIDE DEF Bad
  <2> QED
    BY <1>1, <2>1, NatLeast
<1>3. CASE n = 0
  <2>1. PICK f : f = [k \in 0..0 |-> <<>>]
    OBVIOUS
  <2>2. UpTo(f, s, seq, 0)
    BY <2>1 DEF UpTo
  <2> QED
    BY <1>2, <1>3, <2>2
<1>4. CASE n # 0
  <2>1. n \in Nat /\ n - 1 \in Nat /\ n - 1 \notin Bad
    BY <1>2, <1>4
  <2>2. PICK f : UpTo(f, s, seq, n - 1)
    BY <2>1
  <2>3. PICK last : last = IF StreamOf[seq[n]] = s THEN Append(f[n - 1], seq[n]) ELSE f[n - 1]
    OBVIOUS
  <2>4. PICK g : g = [k \in 0..n |-> IF k = n THEN last ELSE f[k]]
    OBVIOUS
  <2>5. ASSUME NEW k \in 0..n
        PROVE  g[k] = IF k = 0 THEN <<>>
                      ELSE IF StreamOf[seq[k]] = s THEN Append(g[k - 1], seq[k])
                      ELSE g[k - 1]
    <3>1. CASE k = n
      <4>1. n - 1 \in 0..n /\ n - 1 # n /\ g[n - 1] = f[n - 1]
        BY <2>1, <2>4
      <4> QED
        BY <1>4, <2>3, <2>4, <3>1, <4>1
    <3>2. CASE k # n
      <4>1. k \in 0..(n - 1) /\ g[k] = f[k] /\ (k # 0 => k - 1 \in 0..(n - 1) /\ g[k - 1] = f[k - 1])
        BY <2>1, <2>4, <3>2
      <4>2. f[k] = IF k = 0 THEN <<>>
                   ELSE IF StreamOf[seq[k]] = s THEN Append(f[k - 1], seq[k])
                   ELSE f[k - 1]
        BY <2>2, <4>1 DEF UpTo
      <4> QED
        BY <4>1, <4>2
    <3> QED
      BY <3>1, <3>2
  <2>6. UpTo(g, s, seq, n)
    BY <2>4, <2>5 DEF UpTo
  <2> QED
    BY <1>2, <2>6
<1> QED
  BY <1>3, <1>4

\* And it depends on the events up to there.
LEMMA UpToUnique ==
  ASSUME NEW s, NEW N \in Nat, NEW M \in Nat, NEW p, NEW q, \A i \in 1..N : p[i] = q[i],
         NEW f, UpTo(f, s, p, N), NEW g, UpTo(g, s, q, M), N <= M
  PROVE  f[N] = g[N]
<1> DEFINE Bad == {n \in 0..N : f[n] # g[n]}
<1>1. SUFFICES ASSUME Bad # {} PROVE FALSE
  OBVIOUS
<1>2. PICK n \in Bad : \A m \in Bad : n <= m
  <2>1. Bad \in SUBSET Nat
    OBVIOUS
  <2> HIDE DEF Bad
  <2> QED
    BY <1>1, <2>1, NatLeast
<1>3. /\ n \in 0..N /\ n \in 0..M /\ f[n] # g[n]
      /\ n # 0 => n - 1 \in 0..N /\ n - 1 \in 0..M /\ f[n - 1] = g[n - 1] /\ p[n] = q[n]
  BY <1>2
<1>4. f[n] = IF n = 0 THEN <<>>
             ELSE IF StreamOf[p[n]] = s THEN Append(f[n - 1], p[n]) ELSE f[n - 1]
  BY <1>3 DEF UpTo
<1>5. g[n] = IF n = 0 THEN <<>>
             ELSE IF StreamOf[q[n]] = s THEN Append(g[n - 1], q[n]) ELSE g[n - 1]
  BY <1>3 DEF UpTo
<1> QED
  BY <1>3, <1>4, <1>5

\* EventsOf is what every such function says.
LEMMA EventsOfIs ==
  ASSUME NEW s, NEW seq, Len(seq) \in Nat, NEW f, UpTo(f, s, seq, Len(seq))
  PROVE  Worker!EventsOf(s, seq) = f[Len(seq)]
<1> DEFINE upTo == CHOOSE g : g = [n \in 0..Len(seq) |->
                     IF n = 0 THEN <<>>
                     ELSE IF StreamOf[seq[n]] = s THEN Append(g[n - 1], seq[n])
                     ELSE g[n - 1]]
<1>1. UpTo(upTo, s, seq, Len(seq))
  BY DEF UpTo
<1>2. Worker!EventsOf(s, seq) = upTo[Len(seq)]
  BY DEF Worker!EventsOf
<1> HIDE DEF upTo
<1> QED
  BY <1>1, <1>2, UpToUnique

\* Of no events there are none.
LEMMA EventsOfNone == ASSUME NEW s PROVE Worker!EventsOf(s, <<>>) = <<>>
<1>1. Len(<<>>) = 0
  OBVIOUS
<1>2. PICK f : UpTo(f, s, <<>>, 0)
  BY UpToExists
<1>3. Worker!EventsOf(s, <<>>) = f[0]
  BY <1>1, <1>2, EventsOfIs
<1> QED
  BY <1>2, <1>3 DEF UpTo

\* One more event is one more of its own stream.
LEMMA EventsOfMore ==
  ASSUME NEW s, NEW S, NEW seq \in Seq(S), NEW e \in S
  PROVE  Worker!EventsOf(s, Append(seq, e)) =
           IF StreamOf[e] = s THEN Append(Worker!EventsOf(s, seq), e) ELSE Worker!EventsOf(s, seq)
<1>1. PICK n \in Nat : n = Len(seq)
  OBVIOUS
<1>2. PICK more : more = Append(seq, e)
  OBVIOUS
<1>3. Len(more) = n + 1 /\ more[n + 1] = e /\ \A i \in 1..n : seq[i] = more[i]
  BY <1>1, <1>2
<1>4. PICK f : UpTo(f, s, seq, n)
  BY UpToExists
<1>5. n + 1 \in Nat
  OBVIOUS
<1>6. PICK g : UpTo(g, s, more, n + 1)
  BY <1>5, UpToExists
<1>7. Worker!EventsOf(s, seq) = f[n] /\ Worker!EventsOf(s, more) = g[n + 1]
  BY <1>1, <1>3, <1>4, <1>5, <1>6, EventsOfIs
<1>8. f[n] = g[n]
  BY <1>3, <1>4, <1>5, <1>6, UpToUnique
<1>9. g[n + 1] = IF StreamOf[more[n + 1]] = s THEN Append(g[n], more[n + 1]) ELSE g[n]
  <2>1. n + 1 \in 0..(n + 1) /\ n + 1 # 0 /\ (n + 1) - 1 = n
    OBVIOUS
  <2> QED
    BY <1>6, <2>1 DEF UpTo
<1> QED
  BY <1>2, <1>3, <1>7, <1>8, <1>9

\* Some events in order.
SortOf(S) == CHOOSE q \in [1..Worker!Cardinality(S) -> S] :
               \A i, j \in DOMAIN q : i < j => q[i] < q[j]

\* It is a sequence of all of them.
LEMMA SortOfIs ==
  ASSUME Worker!ProjectionAssumption, NEW S \in SUBSET Events
  PROVE  /\ SortOf(S) \in Seq(Events) /\ Len(SortOf(S)) = Cardinality(S)
         /\ IsFiniteSet(S) /\ Cardinality(S) \in Nat
<1>1. Events \subseteq Nat /\ IsFiniteSet(Events)
  <2>1. Worker!IsFiniteSet(Events) => IsFiniteSet(Events)
    BY DEF Worker!IsFiniteSet, IsFiniteSet
  <2> QED
    BY <2>1 DEF Worker!ProjectionAssumption, Worker!StoreAssumption
<1>2. IsFiniteSet(S) /\ Cardinality(S) \in Nat /\ S \in SUBSET Nat
  BY <1>1, FS_Subset, FS_CardinalityType
<1>3. PICK n \in Nat : n = Cardinality(S) /\ n = Worker!Cardinality(S)
  BY <1>2, PageCounts
<1>4. \E q \in [1..n -> S] : \A i, j \in DOMAIN q : i < j => q[i] < q[j]
  BY <1>2, <1>3, InOrder
<1>5. SortOf(S) \in [1..n -> S]
  BY <1>3, <1>4 DEF SortOf
<1>6. SortOf(S) \in Seq(Events) /\ Len(SortOf(S)) = n
  BY <1>5
<1> QED
  BY <1>2, <1>3, <1>6

\* The files hold lines, and whoever appends has lines to append.
StoreTyped == /\ stored \in [Streams -> Seq(Worker!Line)]
              /\ writers \in [Appenders -> Worker!Appends \cup {Worker!Free}]

\* search finds events.
LEMMA StoredAre == StoreTyped => Worker!StoredEvents \in SUBSET Events
<1> SUFFICES ASSUME StoreTyped, NEW e \in Worker!StoredEvents PROVE e \in Events
  OBVIOUS
<1>1. PICK s \in Streams : \E i \in DOMAIN stored[s] : e = stored[s][i].event
  BY DEF Worker!StoredEvents
<1>2. PICK q : q = stored[s] /\ q \in Seq(Worker!Line)
  BY DEF StoreTyped
<1>3. PICK i \in DOMAIN q : e = q[i].event
  BY <1>1, <1>2
<1>4. q[i] \in Worker!Line
  BY <1>2, <1>3
<1> QED
  BY <1>3, <1>4 DEF Worker!Line

\* In order.
LEMMA SortedIs ==
  ASSUME Worker!ProjectionAssumption, StoreTyped
  PROVE  /\ Worker!Sorted \in Seq(Events)
         /\ Len(Worker!Sorted) \in Nat
         /\ Len(Worker!Sorted) = Cardinality(Worker!StoredEvents)
<1>1. Worker!Sorted = SortOf(Worker!StoredEvents)
  BY DEF Worker!Sorted, SortOf
<1>2. Worker!StoredEvents \in SUBSET Events
  BY StoredAre
<1> QED
  BY <1>1, <1>2, SortOfIs

\* And in the next state.
LEMMA SortedIsNext ==
  ASSUME Worker!ProjectionAssumption, StoreTyped'
  PROVE  /\ Worker!Sorted' \in Seq(Events)
         /\ Len(Worker!Sorted') \in Nat
         /\ Len(Worker!Sorted') = Cardinality(Worker!StoredEvents')
<1>1. Worker!Sorted' = SortOf(Worker!StoredEvents')
  BY DEF Worker!Sorted, SortOf
<1>2. (StoreTyped => Worker!StoredEvents \in SUBSET Events)'
  BY StoredAre, PTL
<1>3. Worker!StoredEvents' \in SUBSET Events
  BY <1>2
<1> QED
  BY <1>1, <1>3, SortOfIs

\* Nothing changes while nothing is appended.
LEMMA SortedSame == ASSUME stored' = stored PROVE Worker!Sorted' = Worker!Sorted
<1>1. Worker!Sorted' = SortOf(Worker!StoredEvents') /\ Worker!Sorted = SortOf(Worker!StoredEvents)
  BY DEF Worker!Sorted, SortOf
<1>2. Worker!StoredEvents' = Worker!StoredEvents
  BY DEF Worker!StoredEvents
<1> QED
  BY <1>1, <1>2

\* A batch is a sequence of events.
LEMMA BatchTyped ==
  ASSUME Worker!ProjectionAssumption,
         NEW T \in SUBSET Events, NEW batch \in Worker!SetToAllKPermutations(T)
  PROVE  batch \in Seq(Events)
<1>1. PICK S \in SUBSET T : batch \in [1..Worker!Cardinality(S) -> S]
  BY DEF Worker!SetToAllKPermutations, Worker!SetToSeqs
<1>2. Worker!Cardinality(S) \in Nat
  BY PageCounts, SortOfIs
<1> QED
  BY <1>1, <1>2

\* A file that grows keeps its lines.
LEMMA FilesGrow ==
  ASSUME StoreTyped, NEW s \in Streams, NEW batch \in Seq(Worker!Line),
         stored' = [stored EXCEPT ![s] = @ \o batch]
  PROVE  /\ stored' \in [Streams -> Seq(Worker!Line)]
         /\ Worker!StoredEvents \subseteq Worker!StoredEvents'
<1>1. stored \in [Streams -> Seq(Worker!Line)]
  BY DEF StoreTyped
<1>2. PICK q \in Seq(Worker!Line) : q = stored[s]
  BY <1>1
<1>3. PICK p : p = q \o batch
  OBVIOUS
<1>4. p \in Seq(Worker!Line) /\ \A i \in DOMAIN q : i \in DOMAIN p /\ p[i] = q[i]
  <2>1. /\ p \in Seq(Worker!Line) /\ Len(p) = Len(q) + Len(batch)
        /\ \A i \in 1..Len(q) : p[i] = q[i]
    BY <1>3, Concatenated
  <2>2. DOMAIN q = 1..Len(q) /\ DOMAIN p = 1..Len(p) /\ Len(q) \in Nat /\ Len(batch) \in Nat
    BY <1>2, <2>1
  <2> QED
    BY <2>1, <2>2
<1>5. stored' = [stored EXCEPT ![s] = p]
  BY <1>2, <1>3
<1>6. stored' \in [Streams -> Seq(Worker!Line)]
  BY <1>1, <1>4, <1>5
<1>7. ASSUME NEW t \in Streams, NEW i \in DOMAIN stored[t]
      PROVE  i \in DOMAIN stored'[t] /\ stored'[t][i] = stored[t][i]
  <2>1. CASE t = s
    <3>1. stored'[t] = p /\ stored[t] = q
      BY <1>1, <1>2, <1>5, <2>1
    <3> QED
      BY <1>4, <1>7, <3>1
  <2>2. CASE t # s
    <3>1. stored'[t] = stored[t]
      BY <1>1, <1>5, <2>2
    <3> QED
      BY <1>7, <3>1
  <2> QED
    BY <2>1, <2>2
<1>8. ASSUME NEW e \in Worker!StoredEvents PROVE e \in Worker!StoredEvents'
  <2>1. PICK t \in Streams : \E i \in DOMAIN stored[t] : e = stored[t][i].event
    BY DEF Worker!StoredEvents
  <2>2. PICK i \in DOMAIN stored[t] : e = stored[t][i].event
    BY <2>1
  <2>3. i \in DOMAIN stored'[t] /\ e = stored'[t][i].event
    BY <1>7, <2>2
  <2>4. e \in {stored'[t][j].event : j \in DOMAIN stored'[t]}
    BY <2>3
  <2> QED
    BY <2>4 DEF Worker!StoredEvents
<1> QED
  BY <1>6, <1>8

\* A writer begins.
LEMMA AppenderBegins ==
  ASSUME Worker!ProjectionAssumption, StoreTyped, NEW w \in Appenders, Worker!Begin(w)
  PROVE  StoreTyped' /\ stored' = stored
<1>1. PICK s \in Streams, batch \in Seq(Events), expected \in AppenderExpectations :
        /\ writers' = [writers EXCEPT ![w] =
             [stream |-> s, expected |-> expected,
              lines |-> Worker!Numbered(batch, Len(stored[s]))]]
        /\ stored' = stored
  <2>1. PICK s \in Streams :
          \E batch \in Worker!SetToAllKPermutations(
               {e \in Events \ Worker!Taken : StreamOf[e] = s}) :
          \E expected \in AppenderExpectations :
        /\ writers' = [writers EXCEPT ![w] =
             [stream |-> s, expected |-> expected,
              lines |-> Worker!Numbered(batch, Len(stored[s]))]]
        /\ stored' = stored
    BY DEF Worker!Begin
  <2>2. {e \in Events \ Worker!Taken : StreamOf[e] = s} \in SUBSET Events
    OBVIOUS
  <2> QED
    BY <2>1, <2>2, BatchTyped
<1>2. PICK lines : lines = Worker!Numbered(batch, Len(stored[s]))
  OBVIOUS
<1>3. PICK m \in Nat : m = Len(stored[s])
  BY DEF StoreTyped
<1>4. lines \in Seq(Worker!Line)
  <2>1. PICK n \in Nat : batch \in [1..n -> Events] /\ DOMAIN batch = 1..n
    OBVIOUS
  <2>2. lines = [i \in 1..n |-> [event |-> batch[i], revision |-> m + i - 1]]
    BY <1>2, <1>3, <2>1 DEF Worker!Numbered
  <2>3. \A i \in 1..n : [event |-> batch[i], revision |-> m + i - 1] \in Worker!Line
    BY <1>3, <2>1 DEF Worker!Line
  <2>4. lines \in [1..n -> Worker!Line]
    BY <2>2, <2>3
  <2> QED
    BY <2>4
<1>5. PICK a : a = [stream |-> s, expected |-> expected, lines |-> lines]
  OBVIOUS
<1>6. a \in Worker!Appends
  BY <1>4, <1>5 DEF Worker!Appends
<1>7. writers' = [writers EXCEPT ![w] = a] /\ stored' = stored
  BY <1>1, <1>2, <1>5
<1> QED
  BY <1>6, <1>7 DEF StoreTyped

\* Appends only add to what search finds.
LEMMA StoreGrows ==
  ASSUME Worker!ProjectionAssumption, StoreTyped, Worker!StoreNext
  PROVE  StoreTyped' /\ Worker!StoredEvents \subseteq Worker!StoredEvents'
<1>1. PICK w \in Appenders : Worker!Begin(w) \/ Worker!AppendFile(w) \/ Worker!Crash(w)
  BY DEF Worker!StoreNext
<1>2. CASE Worker!Begin(w)
  BY <1>2, AppenderBegins DEF Worker!StoredEvents
<1> DEFINE a == writers[w]
<1>3. writers[w] # Worker!Free => a.stream \in Streams /\ a.lines \in Seq(Worker!Line)
  <2>1. writers[w] \in Worker!Appends \cup {Worker!Free}
    BY DEF StoreTyped
  <2> QED
    BY <2>1 DEF Worker!Appends
<1>4. CASE Worker!AppendFile(w)
  <2>1. /\ writers[w] # Worker!Free
        /\ stored' = [stored EXCEPT ![a.stream] = @ \o a.lines]
        /\ writers' = [writers EXCEPT ![w] = Worker!Free]
    BY <1>4 DEF Worker!AppendFile
  <2>2. /\ stored' \in [Streams -> Seq(Worker!Line)]
        /\ Worker!StoredEvents \subseteq Worker!StoredEvents'
    BY <1>3, <2>1, FilesGrow
  <2> QED
    BY <2>1, <2>2 DEF StoreTyped
<1>5. CASE Worker!Crash(w)
  <2>1. PICK n \in 0..Len(a.lines) :
          /\ writers[w] # Worker!Free
          /\ stored' = [stored EXCEPT ![a.stream] = @ \o SubSeq(a.lines, 1, n)]
          /\ writers' = [writers EXCEPT ![w] = Worker!Free]
    BY <1>5 DEF Worker!Crash
  <2>2. SubSeq(a.lines, 1, n) \in Seq(Worker!Line)
    BY <1>3, <2>1
  <2>3. /\ stored' \in [Streams -> Seq(Worker!Line)]
        /\ Worker!StoredEvents \subseteq Worker!StoredEvents'
    BY <1>3, <2>1, <2>2, FilesGrow
  <2> QED
    BY <2>1, <2>3 DEF StoreTyped
<1> QED
  BY <1>1, <1>2, <1>4, <1>5

\* So that there are as many pages as before, or more.
LEMMA SortedGrows ==
  ASSUME Worker!ProjectionAssumption, StoreTyped, Worker!StoreNext
  PROVE  Len(Worker!Sorted) <= Len(Worker!Sorted')
<1>1. StoreTyped' /\ Worker!StoredEvents \subseteq Worker!StoredEvents'
  BY StoreGrows
<1>2. Worker!StoredEvents' \in SUBSET Events
  <2>1. (StoreTyped => Worker!StoredEvents \in SUBSET Events)'
    BY StoredAre, PTL
  <2> QED
    BY <1>1, <2>1
<1>3. IsFiniteSet(Worker!StoredEvents')
  BY <1>2, SortOfIs
<1>4. Cardinality(Worker!StoredEvents) <= Cardinality(Worker!StoredEvents')
  BY <1>1, <1>3, FS_Subset
<1> QED
  BY <1>1, <1>4, SortedIs, SortedIsNext

\* A page follows those before it.
LEMMA PageFollows ==
  ASSUME NEW S, NEW q \in Seq(S), NEW m \in Nat, NEW n \in Nat, m <= n, n <= Len(q)
  PROVE  /\ SubSeq(q, 1, m) \in Seq(S) /\ Len(SubSeq(q, 1, m)) = m
         /\ SubSeq(q, m + 1, n) \in Seq(S) /\ Len(SubSeq(q, m + 1, n)) = n - m
         /\ SubSeq(q, 1, m) \o SubSeq(q, m + 1, n) = SubSeq(q, 1, n)
<1>1. PICK a : a = SubSeq(q, 1, m)
  OBVIOUS
<1>2. PICK b : b = SubSeq(q, m + 1, n)
  OBVIOUS
<1>3. PICK c : c = SubSeq(q, 1, n)
  OBVIOUS
<1>4. a \in Seq(S) /\ Len(a) = m /\ \A i \in 1..m : a[i] = q[i]
  BY <1>1
<1>5. c \in Seq(S) /\ Len(c) = n /\ \A i \in 1..n : c[i] = q[i]
  BY <1>3
<1>6. b \in Seq(S) /\ Len(b) = n - m /\ \A i \in 1..n - m : b[i] = q[m + i]
  <2>1. \A i \in (m + 1)..n : q[i] \in S
    OBVIOUS
  <2>2. b = [i \in 1..n - m |-> q[m + i]]
    BY <1>2
  <2>3. n - m \in Nat /\ \A i \in 1..n - m : m + i \in (m + 1)..n
    OBVIOUS
  <2>4. b \in [1..n - m -> S]
    BY <2>1, <2>2, <2>3
  <2>5. b \in Seq(S) /\ Len(b) = n - m
    BY <2>3, <2>4
  <2> QED
    BY <2>2, <2>5
<1>7. a \o b \in Seq(S) /\ Len(a \o b) = n /\ \A i \in 1..n : (a \o b)[i] = c[i]
  <2>1. /\ a \o b \in Seq(S) /\ Len(a \o b) = m + (n - m)
        /\ \A i \in 1..m : (a \o b)[i] = a[i]
        /\ \A i \in 1..n - m : (a \o b)[m + i] = b[i]
    <3>1. a \in Seq(S) /\ b \in Seq(S)
      BY <1>4, <1>6
    <3>2. /\ a \o b \in Seq(S) /\ Len(a \o b) = Len(a) + Len(b)
          /\ \A i \in 1..Len(a) : (a \o b)[i] = a[i]
          /\ \A i \in 1..Len(b) : (a \o b)[Len(a) + i] = b[i]
      BY ONLY <3>1, Concatenated
    <3> QED
      BY ONLY <1>4, <1>6, <3>2
  <2>2. ASSUME NEW i \in 1..n PROVE (a \o b)[i] = c[i]
    <3>1. CASE i <= m
      BY <1>4, <1>5, <2>1, <3>1
    <3>2. CASE ~ (i <= m)
      <4>1. i - m \in 1..n - m /\ m + (i - m) = i
        BY <3>2
      <4> QED
        BY <1>5, <1>6, <2>1, <4>1
    <3> QED
      BY <3>1, <3>2
  <2> QED
    BY <2>1, <2>2
<1>8. a \o b = c
  <2>1. PICK d \in Seq(S) : d = a \o b
    BY <1>7
  <2> QED
    BY <1>5, <1>7, <2>1
<1> QED
  BY <1>1, <1>2, <1>3, <1>4, <1>6, <1>8

\* An event of a page is read.
LEMMA EventRead ==
  ASSUME NEW S, NEW d \in Seq(S), NEW page \in Seq(S), page # <<>>
  PROVE  /\ Head(page) \in S /\ Tail(page) \in Seq(S) /\ Len(Tail(page)) = Len(page) - 1
         /\ Append(d, Head(page)) \in Seq(S) /\ Len(Append(d, Head(page))) = Len(d) + 1
         /\ Append(d, Head(page)) \o Tail(page) = d \o page
<1>1. PICK e : e = Head(page)
  OBVIOUS
<1>2. PICK t : t = Tail(page)
  OBVIOUS
<1>3. PICK n \in Nat : n = Len(page) /\ n >= 1
  OBVIOUS
<1>4. PICK m \in Nat : m = Len(d)
  OBVIOUS
<1>5. e \in S /\ e = page[1] /\ t \in Seq(S) /\ Len(t) = n - 1 /\ \A i \in 1..n - 1 : t[i] = page[i + 1]
  BY <1>1, <1>2, <1>3
<1>6. PICK a : a = Append(d, e)
  OBVIOUS
<1>7. a \in Seq(S) /\ Len(a) = m + 1 /\ a[m + 1] = e /\ \A i \in 1..m : a[i] = d[i]
  BY <1>4, <1>5, <1>6
<1>8. PICK x : x = a \o t
  OBVIOUS
<1>9. PICK y : y = d \o page
  OBVIOUS
<1>10. /\ x \in Seq(S) /\ Len(x) = m + n
       /\ \A i \in 1..m + 1 : x[i] = a[i]
       /\ \A i \in 1..n - 1 : x[m + 1 + i] = t[i]
  <2>1. /\ x \in Seq(S) /\ Len(x) = Len(a) + Len(t)
        /\ \A i \in 1..Len(a) : x[i] = a[i]
        /\ \A i \in 1..Len(t) : x[Len(a) + i] = t[i]
    <3>1. a \in Seq(S) /\ t \in Seq(S)
      BY <1>5, <1>7
    <3> QED
      BY ONLY <1>8, <3>1, Concatenated
  <2> QED
    BY <1>3, <1>5, <1>7, <2>1
<1>11. /\ y \in Seq(S) /\ Len(y) = m + n
       /\ \A i \in 1..m : y[i] = d[i]
       /\ \A i \in 1..n : y[m + i] = page[i]
  BY <1>3, <1>4, <1>9, Concatenated
<1>12. ASSUME NEW i \in 1..m + n PROVE x[i] = y[i]
  <2>1. CASE i <= m
    <3>1. i \in 1..m /\ i \in 1..m + 1
      BY <2>1
    <3> QED
      BY <1>7, <1>10, <1>11, <3>1
  <2>2. CASE i = m + 1
    <3>1. i \in 1..m + 1 /\ 1 \in 1..n /\ i = m + 1
      BY <1>3, <2>2
    <3>2. x[i] = e /\ y[i] = page[1]
      BY <1>7, <1>10, <1>11, <3>1
    <3> QED
      BY <1>5, <3>2
  <2>3. CASE i > m + 1
    <3>1. PICK j \in 1..n - 1 : i = m + 1 + j /\ j + 1 \in 1..n /\ i = m + (j + 1)
      <4>1. i - (m + 1) \in 1..n - 1
        BY <2>3
      <4> QED
        BY <4>1
    <3>2. x[i] = t[j] /\ y[i] = page[j + 1]
      BY <1>10, <1>11, <3>1
    <3> QED
      BY <1>5, <3>1, <3>2
  <2> QED
    BY <2>1, <2>2, <2>3
<1>13. x = y
  BY <1>10, <1>11, <1>12
<1> QED
  BY <1>1, <1>2, <1>3, <1>4, <1>5, <1>6, <1>7, <1>8, <1>9, <1>13

\* The first of the events.
LEMMA FirstOfIs ==
  ASSUME Worker!ProjectionAssumption, StoreTyped, NEW n \in Nat, n <= Len(Worker!Sorted)
  PROVE  Worker!FirstOf(n) = SubSeq(Worker!Sorted, 1, n)
<1>1. Worker!Min({n, Len(Worker!Sorted)}) = n
  BY SortedIs, LesserOf
<1> QED
  BY <1>1 DEF Worker!FirstOf

\* The first none of them.
LEMMA FirstOfNone ==
  ASSUME Worker!ProjectionAssumption, StoreTyped
  PROVE  Worker!FirstOf(0) = <<>>
<1>1. Worker!FirstOf(0) = SubSeq(Worker!Sorted, 1, 0)
  BY SortedIs, FirstOfIs
<1>2. PICK q \in Seq(Events) : q = Worker!Sorted
  BY SortedIs
<1>3. SubSeq(q, 1, 0) = <<>>
  OBVIOUS
<1> QED
  BY <1>1, <1>2, <1>3

\* A call that folds an event has a page that begins with it, and there are events.
Filled(b) == /\ b \in Worker!Rebuild
             /\ b.at \in {"read", "save", "checkpoint"} => b.page # <<>>
             /\ b.page # <<>> => Len(Worker!Sorted) > 0

\* Of the events that are there, d and the page are the first ones.
Paged(b, d) ==
  /\ d \in Seq(Events) /\ d \o b.page = Worker!FirstOf(b.offset)
  /\ Len(d) = b.processed /\ b.processed + Len(b.page) = b.offset
  /\ b.offset <= Len(Worker!Sorted) /\ b.atStart <= Len(Worker!Sorted)
  /\ b.at = "clear" => b.offset = 0
  /\ b.at \in {"page", "done"} => b.page = <<>>
  /\ b.at \in {"read", "save", "checkpoint"} => b.atStart <= b.total
  /\ b.at = "done" => b.atStart <= b.offset

\* And d is what has been folded into the records.
Folded(b, d) ==
  /\ b.at = "clear" => \A s \in Streams : records[s] # None => s \in b.clears
  /\ b.at \in {"page", "read", "save", "done"} =>
       \A s \in Streams : Worker!ValueOf(s) = Worker!EventsOf(s, d)
  /\ b.at = "save" =>
       b.value = Append(Worker!EventsOf(StreamOf[Head(b.page)], d), Head(b.page))
  /\ b.at = "checkpoint" =>
       \A s \in Streams : Worker!ValueOf(s) = Worker!EventsOf(s, Append(d, Head(b.page)))
  /\ b.processed > 0 => checkpoint = b.processed
  /\ b.at = "done" /\ b.processed = 0 => checkpoint = None

\* Nobody else rebuilds.
Alone(r) == \A q \in Rebuilds \ {r} : ~ Worker!Running(q)

\* Its records say something.
Working(b) == b.at \notin {"idle", "failed"}

\* The types of the records and of the calls.
RecordsTyped == /\ records \in [Streams -> Worker!Records \cup {None}]
                /\ checkpoint \in Nat \cup {None}
                /\ disturbed \subseteq Rebuilds
                /\ rebuilds \in [Rebuilds -> Worker!Rebuild]

\* An undisturbed call is alone, and has folded the first of the events, and once each.
RebuildInv ==
  /\ StoreTyped
  /\ RecordsTyped
  /\ checkpoint # None => Len(Worker!Sorted) > 0
  /\ \A r \in Rebuilds : Filled(rebuilds[r])
  /\ \A r \in Rebuilds \ disturbed : rebuilds[r].at # "idle" => Alone(r)
  /\ \A r \in Rebuilds \ disturbed :
       Working(rebuilds[r]) => \E d : Paged(rebuilds[r], d) /\ Folded(rebuilds[r], d)

\* It holds before any call.
LEMMA RebuildStart == Worker!ProjectionAssumption /\ Worker!Init => RebuildInv
<1> SUFFICES ASSUME Worker!ProjectionAssumption, Worker!Init PROVE RebuildInv
  OBVIOUS
<1>1. StoreTyped
  BY DEF Worker!Init, Worker!StoreInit, StoreTyped
<1>2. RecordsTyped
  BY DEF Worker!Init, Worker!RebuildInit, RecordsTyped, Worker!Rebuild, Worker!Idle
<1>3. /\ checkpoint = None
      /\ \A r \in Rebuilds : rebuilds[r].at = "idle" /\ rebuilds[r].page = <<>>
  BY DEF Worker!Init, Worker!RebuildInit, Worker!Idle
<1>4. \A r \in Rebuilds : Filled(rebuilds[r])
  BY <1>2, <1>3 DEF Filled, RecordsTyped
<1> QED
  BY <1>1, <1>2, <1>3, <1>4 DEF RebuildInv, Working

\* The invariant says what an undisturbed call has made of the records.
LEMMA FaithfulThen ==
  ASSUME Worker!ProjectionAssumption, RebuildInv
  PROVE  RebuiltFaithful
<1> SUFFICES ASSUME NEW r \in Rebuilds \ disturbed, rebuilds[r].at = "done",
                    NEW seq, seq = Worker!FirstOf(rebuilds[r].offset)
             PROVE  /\ Len(seq) >= rebuilds[r].atStart
                    /\ \A s \in Streams : Worker!ValueOf(s) = Worker!EventsOf(s, seq)
                    /\ checkpoint = (IF seq = <<>> THEN None ELSE Len(seq))
  BY DEF RebuiltFaithful, Worker!RebuiltFaithful
<1>1. PICK b : b = rebuilds[r] /\ b \in Worker!Rebuild /\ b.at = "done" /\ Working(b)
  BY DEF RebuildInv, RecordsTyped, Working
<1>2. PICK d : Paged(b, d) /\ Folded(b, d)
  BY <1>1 DEF RebuildInv
<1>3. d \in Seq(Events) /\ b.page = <<>> /\ d \o b.page = seq /\ Len(d) = b.processed
      /\ b.processed + Len(b.page) = b.offset /\ b.atStart <= b.offset
  BY <1>1, <1>2 DEF Paged
<1>4. b.processed \in Nat /\ b.offset \in Nat /\ b.atStart \in Nat
  BY <1>1 DEF Worker!Rebuild
<1>5. d = seq /\ b.processed = b.offset
  <2>1. d \o <<>> = d /\ Len(<<>>) = 0
    BY <1>3
  <2> QED
    BY <1>3, <1>4, <2>1
<1>6. \A s \in Streams : Worker!ValueOf(s) = Worker!EventsOf(s, seq)
  BY <1>1, <1>2, <1>5 DEF Folded
<1>7. checkpoint = (IF seq = <<>> THEN None ELSE Len(seq))
  <2>1. CASE b.processed = 0
    <3>1. seq = <<>>
      BY <1>3, <1>5, <2>1
    <3> QED
      BY <1>1, <1>2, <2>1, <3>1 DEF Folded
  <2>2. CASE b.processed # 0
    <3>1. seq # <<>> /\ b.processed > 0
      BY <1>3, <1>4, <1>5, <2>2
    <3> QED
      BY <1>2, <1>3, <1>5, <3>1 DEF Folded
  <2> QED
    BY <2>1, <2>2
<1> QED
  BY <1>1, <1>3, <1>4, <1>5, <1>6, <1>7

\* A call that runs is alone, or disturbed; and whoever else is not idle is disturbed.
LEMMA RunningAlone ==
  ASSUME RebuildInv, NEW r \in Rebuilds, Worker!Running(r)
  PROVE  /\ r \notin disturbed => Alone(r)
         /\ \A q \in Rebuilds \ {r} : rebuilds[q].at # "idle" => q \in disturbed
<1>1. rebuilds[r].at # "idle"
  BY DEF Worker!Running
<1> QED
  BY <1>1 DEF RebuildInv, Alone

\* What a step of one call has to show.
LEMMA OneStep ==
  ASSUME Worker!ProjectionAssumption, RebuildInv, NEW r \in Rebuilds, NEW c,
         stored' = stored, writers' = writers,
         rebuilds' = [rebuilds EXCEPT ![r] = c], Filled(c),
         records' \in [Streams -> Worker!Records \cup {None}],
         checkpoint' \in Nat \cup {None}, checkpoint' # None => Len(Worker!Sorted) > 0,
         disturbed \subseteq disturbed', disturbed' \subseteq Rebuilds,
         r \notin disturbed' => Alone(r),
         \A q \in Rebuilds \ {r} : rebuilds[q].at # "idle" => q \in disturbed',
         r \notin disturbed' /\ Working(c) => \E d : Paged(c, d) /\ Folded(c, d)'
  PROVE  RebuildInv'
<1>1. Worker!Sorted' = Worker!Sorted
  BY SortedSame
<1>2. \A n : Worker!FirstOf(n)' = Worker!FirstOf(n)
  BY <1>1 DEF Worker!FirstOf
<1>3. rebuilds \in [Rebuilds -> Worker!Rebuild] /\ \A q \in Rebuilds : Filled(rebuilds[q])
  BY DEF RebuildInv, RecordsTyped
<1>4. \A q \in Rebuilds : rebuilds'[q] = IF q = r THEN c ELSE rebuilds[q]
  BY <1>3
<1>5. \A b : Filled(b) => Filled(b)'
  BY <1>1 DEF Filled
<1>6. \A b, d : Paged(b, d) => Paged(b, d)'
  BY <1>1, <1>2 DEF Paged
<1>7. StoreTyped'
  BY DEF RebuildInv, StoreTyped
<1>8. RecordsTyped'
  BY <1>3 DEF RecordsTyped, Filled
<1>9. (checkpoint # None => Len(Worker!Sorted) > 0)'
  BY <1>1
<1>10. (\A q \in Rebuilds : Filled(rebuilds[q]))'
  <2> SUFFICES ASSUME NEW q \in Rebuilds PROVE Filled(rebuilds[q])'
    OBVIOUS
  <2>1. PICK b : b = rebuilds'[q] /\ Filled(b)
    BY <1>3, <1>4
  <2>2. Filled(b)'
    BY <1>5, <2>1
  <2> QED
    BY <2>1, <2>2 DEF Filled
<1>11. (\A q \in Rebuilds \ disturbed : rebuilds[q].at # "idle" => Alone(q))'
  <2> SUFFICES ASSUME NEW q \in Rebuilds \ disturbed', rebuilds'[q].at # "idle",
                      NEW p \in Rebuilds \ {q}
               PROVE  ~ Worker!Running(p)'
    BY DEF Alone
  <2>1. q = r
    BY <1>4
  <2>2. ~ Worker!Running(p) /\ rebuilds'[p] = rebuilds[p]
    BY <1>4, <2>1 DEF Alone
  <2> QED
    BY <2>2 DEF Worker!Running
<1>12. (\A q \in Rebuilds \ disturbed :
          Working(rebuilds[q]) => \E d : Paged(rebuilds[q], d) /\ Folded(rebuilds[q], d))'
  <2> SUFFICES ASSUME NEW q \in Rebuilds \ disturbed', Working(rebuilds[q])'
               PROVE  \E d : Paged(rebuilds[q], d)' /\ Folded(rebuilds[q], d)'
    OBVIOUS
  <2>1. rebuilds'[q].at # "idle"
    BY DEF Working
  <2>2. q = r /\ rebuilds'[q] = c
    BY <1>4, <2>1
  <2>3. Working(c)
    BY <2>2 DEF Working
  <2>4. PICK d : Paged(c, d)' /\ Folded(c, d)'
    BY <1>6, <2>2, <2>3
  <2> QED
    BY <2>2, <2>4 DEF Paged, Folded
<1> QED
  BY <1>7, <1>8, <1>9, <1>10, <1>11, <1>12 DEF RebuildInv

\* Nothing is folded into no record.
LEMMA NoneFolded ==
  ASSUME RebuildInv, \A s \in Streams : records'[s] = None
  PROVE  \A s \in Streams : Worker!ValueOf(s)' = Worker!EventsOf(s, <<>>)
BY EventsOfNone DEF Worker!ValueOf

\* What a call has at first.
LEMMA IdleIs ==
  /\ Worker!Idle \in Worker!Rebuild /\ Worker!Idle.page = <<>> /\ Worker!Idle.offset = 0
  /\ Worker!Idle.processed = 0
<1>1. ASSUME NEW S PROVE <<>> \in Seq(S)
  OBVIOUS
<1>2. <<>> \in Seq(Events)
  BY ONLY <1>1
<1> QED
  BY <1>2 DEF Worker!Idle, Worker!Rebuild

\* A call starts: it is alone, or everyone is disturbed.
LEMMA StartKeeps ==
  ASSUME Worker!ProjectionAssumption, RebuildInv, NEW r \in Rebuilds, Worker!Start(r),
         stored' = stored, writers' = writers
  PROVE  RebuildInv'
<1>1. /\ rebuilds[r].at = "idle" /\ records' = records /\ checkpoint' = checkpoint
      /\ disturbed' = disturbed \cup {q \in Rebuilds \ {r} : rebuilds[q].at # "idle"}
                          \cup {q \in {r} : \E p \in Rebuilds : Worker!Running(p)}
  BY DEF Worker!Start
<1>2. PICK n \in Nat : n = Len(Worker!Sorted)
  BY SortedIs DEF RebuildInv
<1>3. PICK c : /\ rebuilds' = [rebuilds EXCEPT ![r] = c]
               /\ c.at \in {"clear", "page"} /\ c.page = <<>> /\ c.offset = 0
               /\ c.processed = 0 /\ c.atStart = n /\ c \in Worker!Rebuild
               /\ c.at = "clear" => \A s \in Streams : records[s] # None => s \in c.clears
               /\ c.at = "page" => \A s \in Streams : records[s] = None
  <2>1. PICK i : i = Worker!Idle
    OBVIOUS
  <2>2. i \in Worker!Rebuild /\ i.page = <<>> /\ i.offset = 0 /\ i.processed = 0
    BY <2>1, IdleIs
  <2>3. CASE rebuilds' = [rebuilds EXCEPT ![r] =
               [Worker!Idle EXCEPT !.at = "clear", !.atStart = Len(Worker!Sorted),
                                   !.clears = {s \in Streams : records[s] # None}]]
    <3>1. PICK c : c = [i EXCEPT !.at = "clear", !.atStart = n,
                                   !.clears = {s \in Streams : records[s] # None}]
      OBVIOUS
    <3>2. /\ c.at = "clear" /\ c.page = <<>> /\ c.offset = 0 /\ c.processed = 0
          /\ c.atStart = n /\ c \in Worker!Rebuild
          /\ c.clears = {s \in Streams : records[s] # None}
      BY <1>2, <2>2, <3>1 DEF Worker!Rebuild
    <3>3. rebuilds' = [rebuilds EXCEPT ![r] = c]
      BY <1>2, <2>3, <2>1, <3>1
    <3> QED
      BY <3>2, <3>3
  <2>4. CASE /\ \A s \in Streams : records[s] = None
             /\ rebuilds' = [rebuilds EXCEPT ![r] =
                  [Worker!Idle EXCEPT !.at = "page", !.atStart = Len(Worker!Sorted)]]
    <3>1. PICK c : c = [i EXCEPT !.at = "page", !.atStart = n]
      OBVIOUS
    <3>2. /\ c.at = "page" /\ c.page = <<>> /\ c.offset = 0 /\ c.processed = 0
          /\ c.atStart = n /\ c \in Worker!Rebuild
      BY <1>2, <2>2, <3>1 DEF Worker!Rebuild
    <3>3. rebuilds' = [rebuilds EXCEPT ![r] = c]
      BY <1>2, <2>4, <2>1, <3>1
    <3> QED
      BY <2>4, <3>2, <3>3
  <2> QED
    BY <2>3, <2>4 DEF Worker!Start, Worker!Goto
<1>4. Filled(c)
  BY <1>3 DEF Filled
<1>5. Paged(c, <<>>)
  <2>1. Worker!FirstOf(0) = <<>>
    BY FirstOfNone DEF RebuildInv
  <2>2. <<>> \in Seq(Events) /\ <<>> \o <<>> = <<>> /\ Len(<<>>) = 0
    <3>1. ASSUME NEW S PROVE <<>> \in Seq(S) /\ <<>> \o <<>> = <<>> /\ Len(<<>>) = 0
      OBVIOUS
    <3> QED
      BY ONLY <3>1
  <2> QED
    BY <1>2, <1>3, <2>1, <2>2 DEF Paged
<1>6. Folded(c, <<>>)'
  <2>1. c.at = "page" => \A s \in Streams : Worker!ValueOf(s)' = Worker!EventsOf(s, <<>>)
    BY <1>1, <1>3, NoneFolded
  <2> QED
    BY <1>1, <1>3, <2>1 DEF Folded
<1>7. /\ records' \in [Streams -> Worker!Records \cup {None}] /\ checkpoint' \in Nat \cup {None}
      /\ checkpoint' # None => Len(Worker!Sorted) > 0
      /\ disturbed \subseteq disturbed' /\ disturbed' \subseteq Rebuilds
  BY <1>1 DEF RebuildInv, RecordsTyped
<1>8. r \notin disturbed' => Alone(r)
  BY <1>1 DEF Alone
<1>9. \A q \in Rebuilds \ {r} : rebuilds[q].at # "idle" => q \in disturbed'
  BY <1>1
<1> QED
  BY <1>3, <1>4, <1>5, <1>6, <1>7, <1>8, <1>9, OneStep

\* A call ends as failed.
LEMMA FailKeeps ==
  ASSUME Worker!ProjectionAssumption, RebuildInv, NEW r \in Rebuilds, Worker!Running(r),
         rebuilds' = [rebuilds EXCEPT ![r] = [Worker!Idle EXCEPT !.at = "failed"]],
         UNCHANGED <<records, checkpoint, disturbed>>, stored' = stored, writers' = writers
  PROVE  RebuildInv'
<1>1. PICK i : i = Worker!Idle /\ i \in Worker!Rebuild /\ i.page = <<>>
  BY IdleIs
<1>2. PICK c : c = [i EXCEPT !.at = "failed"]
  OBVIOUS
<1>3. Filled(c) /\ ~ Working(c)
  <2>1. c.at = "failed" /\ c.page = <<>> /\ c \in Worker!Rebuild
    BY <1>2, <1>1 DEF Worker!Rebuild
  <2> QED
    BY <2>1 DEF Filled, Working
<1>4. rebuilds' = [rebuilds EXCEPT ![r] = c]
  BY <1>2, <1>1
<1>5. /\ records' \in [Streams -> Worker!Records \cup {None}] /\ checkpoint' \in Nat \cup {None}
      /\ checkpoint' # None => Len(Worker!Sorted) > 0
      /\ disturbed \subseteq disturbed' /\ disturbed' \subseteq Rebuilds
  BY DEF RebuildInv, RecordsTyped
<1>6. /\ r \notin disturbed' => Alone(r)
      /\ \A q \in Rebuilds \ {r} : rebuilds[q].at # "idle" => q \in disturbed'
  BY RunningAlone
<1> QED
  BY <1>3, <1>4, <1>5, <1>6, OneStep

\* A step of a call that runs and goes on.
LEMMA RunningStep ==
  ASSUME Worker!ProjectionAssumption, RebuildInv, NEW r \in Rebuilds, Worker!Running(r),
         stored' = stored, writers' = writers, NEW c,
         rebuilds' = [rebuilds EXCEPT ![r] = c], Filled(c), disturbed' = disturbed,
         records' \in [Streams -> Worker!Records \cup {None}],
         checkpoint' \in Nat \cup {None}, checkpoint' # None => Len(Worker!Sorted) > 0,
         \A d : /\ Paged(rebuilds[r], d) /\ Folded(rebuilds[r], d) /\ r \notin disturbed
                => \E e : Paged(c, e) /\ Folded(c, e)'
  PROVE  RebuildInv'
<1>1. /\ r \notin disturbed' => Alone(r)
      /\ \A q \in Rebuilds \ {r} : rebuilds[q].at # "idle" => q \in disturbed'
  BY RunningAlone
<1>2. Working(rebuilds[r])
  BY DEF Worker!Running, Working
<1>3. r \notin disturbed' => \E e : Paged(c, e) /\ Folded(c, e)'
  BY <1>2 DEF RebuildInv
<1>4. disturbed \subseteq disturbed' /\ disturbed' \subseteq Rebuilds
  BY DEF RebuildInv, RecordsTyped
<1> QED
  BY <1>1, <1>3, <1>4, OneStep

\* The records that were listed are removed.
LEMMA ClearKeeps ==
  ASSUME Worker!ProjectionAssumption, RebuildInv, NEW r \in Rebuilds, Worker!Clear(r),
         stored' = stored, writers' = writers
  PROVE  RebuildInv'
<1>1. PICK b : b = rebuilds[r] /\ b \in Worker!Rebuild /\ Filled(b) /\ b.at = "clear"
  BY DEF RebuildInv, RecordsTyped, Worker!Clear
<1>2. PICK c : c = [b EXCEPT !.at = "page", !.clears = {}]
  OBVIOUS
<1>3. /\ c \in Worker!Rebuild /\ c.at = "page" /\ c.page = b.page /\ c.offset = b.offset
      /\ c.processed = b.processed /\ c.atStart = b.atStart
  BY <1>1, <1>2 DEF Worker!Rebuild
<1>4. /\ rebuilds' = [rebuilds EXCEPT ![r] = c] /\ disturbed' = disturbed /\ checkpoint' = None
      /\ records' = [s \in Streams |-> IF s \in b.clears THEN None ELSE records[s]]
  BY <1>1, <1>2 DEF Worker!Clear, Worker!Goto
<1>5. Worker!Running(r)
  BY <1>1 DEF Worker!Running
<1>6. Filled(c)
  BY <1>1, <1>3 DEF Filled
<1>7. records' \in [Streams -> Worker!Records \cup {None}]
  BY <1>4 DEF RebuildInv, RecordsTyped
<1>8. ASSUME NEW d, Paged(b, d), Folded(b, d)
      PROVE  Paged(c, d) /\ Folded(c, d)'
  <2>1. b.offset = 0 /\ b.processed \in Nat /\ Len(b.page) \in Nat /\ b.page \in Seq(Events)
    BY <1>1, <1>8 DEF Paged, Worker!Rebuild
  <2>2. b.processed = 0 /\ b.page = <<>> /\ d = <<>>
    <3>1. b.processed + Len(b.page) = 0 /\ d \in Seq(Events) /\ Len(d) = b.processed
      BY <1>8, <2>1 DEF Paged
    <3> QED
      BY <2>1, <3>1
  <2>3. \A s \in Streams : records'[s] = None
    BY <1>1, <1>4, <1>8 DEF Folded
  <2>4. \A s \in Streams : Worker!ValueOf(s)' = Worker!EventsOf(s, d)
    BY <2>2, <2>3, NoneFolded
  <2>5. Paged(c, d)
    BY <1>1, <1>3, <1>8, <2>2 DEF Paged
  <2>6. Folded(c, d)'
    BY <1>3, <2>2, <2>4 DEF Folded
  <2> QED
    BY <2>5, <2>6
<1> QED
  BY <1>1, <1>4, <1>5, <1>6, <1>7, <1>8, RunningStep

\* A page of events.
LEMMA SliceIs ==
  ASSUME Worker!ProjectionAssumption, StoreTyped, NEW n \in Nat
  PROVE  /\ Worker!Slice(n) \in Seq(Events)
         /\ Worker!Slice(n) # <<>> => Len(Worker!Sorted) > 0
         /\ n <= Len(Worker!Sorted) =>
              /\ Worker!FirstOf(n) \in Seq(Events)
              /\ Worker!FirstOf(n) \o Worker!Slice(n) = Worker!FirstOf(n + Len(Worker!Slice(n)))
              /\ n + Len(Worker!Slice(n)) <= Len(Worker!Sorted)
              /\ Worker!Slice(n) = <<>> => n = Len(Worker!Sorted)
<1>1. PICK q \in Seq(Events) : q = Worker!Sorted
  BY SortedIs
<1>2. PICK m \in Nat : m = Len(q)
  OBVIOUS
<1>3. PICK k \in Nat : k = n + BatchSize /\ k > n
  BY DEF Worker!ProjectionAssumption
<1>4. PICK h : h = IF k <= m THEN k ELSE m
  OBVIOUS
<1>5. h \in Nat /\ h <= m
  BY <1>4
<1>6. Worker!Slice(n) = SubSeq(q, n + 1, h)
  <2>1. Worker!Min({k, m}) = h
    BY <1>4, LesserOf
  <2> QED
    BY <1>1, <1>2, <1>3, <2>1 DEF Worker!Slice
<1>7. CASE n > m
  <2>1. h < n + 1
    BY <1>5, <1>7
  <2>2. SubSeq(q, n + 1, h) = <<>>
    BY <1>5, <2>1
  <2>3. <<>> \in Seq(Events)
    <3>1. ASSUME NEW S PROVE <<>> \in Seq(S)
      OBVIOUS
    <3> QED
      BY ONLY <3>1
  <2>4. Worker!Slice(n) = <<>> /\ Worker!Slice(n) \in Seq(Events)
    BY <1>6, <2>2, <2>3
  <2>5. ~ (n <= Len(Worker!Sorted))
    BY <1>1, <1>2, <1>7
  <2> QED
    BY ONLY <2>4, <2>5
<1>8. CASE n <= m
  <2>1. n <= h
    BY <1>3, <1>4, <1>8
  <2>2. /\ SubSeq(q, 1, n) \in Seq(Events)
        /\ SubSeq(q, n + 1, h) \in Seq(Events) /\ Len(SubSeq(q, n + 1, h)) = h - n
        /\ SubSeq(q, 1, n) \o SubSeq(q, n + 1, h) = SubSeq(q, 1, h)
    BY <1>2, <1>5, <2>1, PageFollows
  <2>3. n + Len(Worker!Slice(n)) = h
    BY <1>5, <1>6, <2>1, <2>2
  <2>4. Worker!FirstOf(n) = SubSeq(q, 1, n) /\ Worker!FirstOf(h) = SubSeq(q, 1, h)
    BY <1>1, <1>2, <1>5, <1>8, FirstOfIs
  <2>5. Worker!Slice(n) = <<>> => n = m
    <3> SUFFICES ASSUME Worker!Slice(n) = <<>> PROVE n = m
      OBVIOUS
    <3>1. Len(Worker!Slice(n)) = 0
      OBVIOUS
    <3> QED
      BY <1>3, <1>4, <1>5, <1>8, <2>3, <3>1
  <2>6. Worker!Slice(n) # <<>> => m > 0
    <3> SUFFICES ASSUME m = 0 PROVE Worker!Slice(n) = <<>>
      BY <1>2
    <3>1. h - n = 0
      BY <1>5, <1>8, <2>1
    <3> QED
      BY <1>6, <2>2, <3>1
  <2> QED
    BY <1>1, <1>2, <1>5, <1>6, <2>2, <2>3, <2>4, <2>5, <2>6
<1> QED
  BY <1>2, <1>7, <1>8

\* The next page is read, or there is none.
LEMMA PageKeeps ==
  ASSUME Worker!ProjectionAssumption, RebuildInv, NEW r \in Rebuilds, Worker!ReadPage(r),
         stored' = stored, writers' = writers
  PROVE  RebuildInv'
<1>1. PICK b : b = rebuilds[r] /\ b \in Worker!Rebuild /\ Filled(b) /\ b.at = "page"
  BY DEF RebuildInv, RecordsTyped, Worker!ReadPage
<1>2. PICK n \in Nat : n = b.offset
  BY <1>1 DEF Worker!Rebuild
<1>3. PICK page : page = Worker!Slice(n)
  OBVIOUS
<1>4. PICK total \in Nat : total = Len(Worker!Sorted)
  BY SortedIs DEF RebuildInv
<1>5. PICK first : first = Worker!FirstOf(n)
  OBVIOUS
<1>6. /\ page \in Seq(Events)
      /\ page # <<>> => total > 0
      /\ n <= total => /\ first \o page = Worker!FirstOf(n + Len(page))
                       /\ n + Len(page) <= total
                       /\ page = <<>> => n = total
  BY <1>3, <1>4, <1>5, SliceIs DEF RebuildInv
<1>7. PICK c : c = IF page = <<>>
                   THEN [b EXCEPT !.at = "done"]
                   ELSE [b EXCEPT !.at = "read", !.page = page, !.total = total,
                                  !.offset = n + Len(page)]
  OBVIOUS
<1>8. /\ rebuilds' = [rebuilds EXCEPT ![r] = c] /\ disturbed' = disturbed
      /\ records' = records /\ checkpoint' = checkpoint
  BY <1>1, <1>2, <1>3, <1>4, <1>7 DEF Worker!ReadPage, Worker!Goto
<1>9. Worker!Running(r)
  BY <1>1 DEF Worker!Running
<1>10. PICK m \in Nat : m = n + Len(page)
  BY <1>6
<1>11. /\ c \in Worker!Rebuild /\ c.processed = b.processed /\ c.atStart = b.atStart
       /\ page = <<>> => c.at = "done" /\ c.page = b.page /\ c.offset = n
       /\ page # <<>> => /\ c.at = "read" /\ c.page = page /\ c.offset = m
                         /\ c.total = total
  <2>1. CASE page = <<>>
    <3>1. c = [b EXCEPT !.at = "done"]
      BY <1>7, <2>1
    <3> QED
      BY <1>1, <1>2, <2>1, <3>1 DEF Worker!Rebuild
  <2>2. CASE page # <<>>
    <3>1. c = [b EXCEPT !.at = "read", !.page = page, !.total = total, !.offset = m]
      BY <1>7, <1>10, <2>2
    <3> QED
      BY <1>1, <1>6, <2>2, <3>1 DEF Worker!Rebuild
  <2> QED
    BY <2>1, <2>2
<1>12. Filled(c)
  BY <1>1, <1>4, <1>6, <1>11 DEF Filled
<1>13. ASSUME NEW d, Paged(b, d), Folded(b, d)
       PROVE  Paged(c, d) /\ Folded(c, d)'
  <2>1. /\ d \in Seq(Events) /\ b.page = <<>> /\ d \o b.page = first
        /\ Len(d) = b.processed /\ b.processed + Len(b.page) = n /\ n <= total
        /\ b.atStart <= total
    BY <1>1, <1>2, <1>4, <1>5, <1>13 DEF Paged
  <2>2. Len(b.page) = 0 /\ d \o b.page = d /\ b.processed \in Nat /\ b.atStart \in Nat
    <3>1. Len(<<>>) = 0 /\ d \o <<>> = d
      BY <2>1
    <3>2. b.processed \in Nat /\ b.atStart \in Nat
      BY <1>1 DEF Worker!Rebuild
    <3> QED
      BY <2>1, <3>1, <3>2
  <2>3. d = first /\ b.processed = n
    BY <2>1, <2>2
  <2>4. Paged(c, d)
    <3>1. CASE page = <<>>
      <4>1. c.at = "done" /\ c.page = <<>> /\ c.offset = n /\ n = total
        BY <1>6, <1>11, <2>1, <3>1
      <4>2. d \o c.page = Worker!FirstOf(c.offset)
        BY <1>5, <2>1, <4>1
      <4> QED
        BY <1>4, <1>11, <2>1, <4>1, <4>2 DEF Paged
    <3>2. CASE page # <<>>
      <4>1. c.at = "read" /\ c.page = page /\ c.offset = m /\ c.total = total /\ m <= total
        BY <1>6, <1>10, <1>11, <2>1, <3>2
      <4>2. d \o c.page = Worker!FirstOf(c.offset) /\ c.processed + Len(c.page) = c.offset
        BY <1>6, <1>10, <1>11, <2>1, <2>3, <4>1
      <4> QED
        BY <1>4, <1>11, <2>1, <4>1, <4>2 DEF Paged
    <3> QED
      BY <3>1, <3>2
  <2>5. \A s \in Streams : Worker!ValueOf(s)' = Worker!EventsOf(s, d)
    BY <1>1, <1>8, <1>13 DEF Folded, Worker!ValueOf
  <2>6. b.processed > 0 => checkpoint' = b.processed
    BY <1>8, <1>13 DEF Folded
  <2>7. c.at = "done" /\ c.processed = 0 => checkpoint' = None
    <3> SUFFICES ASSUME c.at = "done", c.processed = 0 PROVE checkpoint' = None
      OBVIOUS
    <3>1. page = <<>> /\ n = 0
      BY <1>11, <2>3
    <3>2. total = 0
      BY <1>6, <2>1, <3>1
    <3> QED
      BY <1>4, <1>8, <3>2 DEF RebuildInv
  <2>8. c.at \in {"done", "read"} /\ c.processed = b.processed
    BY <1>11
  <2>9. Folded(c, d)'
    BY <2>5, <2>6, <2>7, <2>8 DEF Folded
  <2> QED
    BY <2>4, <2>9
<1>14. /\ records' \in [Streams -> Worker!Records \cup {None}] /\ checkpoint' \in Nat \cup {None}
       /\ checkpoint' # None => Len(Worker!Sorted) > 0
  BY <1>8 DEF RebuildInv, RecordsTyped
<1> QED
  BY <1>1, <1>8, <1>9, <1>12, <1>13, <1>14, RunningStep

\* The value a record has is a sequence of events.
LEMMA ValueTyped ==
  ASSUME RecordsTyped, NEW s \in Streams PROVE Worker!ValueOf(s) \in Seq(Events)
<1>1. <<>> \in Seq(Events)
  <2>1. ASSUME NEW S PROVE <<>> \in Seq(S)
    OBVIOUS
  <2> QED
    BY ONLY <2>1
<1>2. records[s] \in Worker!Records \cup {None}
  BY DEF RecordsTyped
<1> QED
  BY <1>1, <1>2 DEF Worker!ValueOf, Worker!Records

\* The record of the next event is read.
LEMMA ReadKeeps ==
  ASSUME Worker!ProjectionAssumption, RebuildInv, NEW r \in Rebuilds, Worker!ReadRecord(r),
         stored' = stored, writers' = writers
  PROVE  RebuildInv'
<1>1. PICK b : b = rebuilds[r] /\ b \in Worker!Rebuild /\ Filled(b) /\ b.at = "read"
  BY DEF RebuildInv, RecordsTyped, Worker!ReadRecord
<1>2. b.page \in Seq(Events) /\ b.page # <<>>
  BY <1>1 DEF Filled, Worker!Rebuild
<1>3. PICK e \in Events : e = Head(b.page)
  BY <1>2
<1>4. PICK s \in Streams : s = StreamOf[e]
  BY DEF Worker!ProjectionAssumption, Worker!StoreAssumption
<1>5. PICK value : value = Append(Worker!ValueOf(s), e)
  OBVIOUS
<1>6. value \in Seq(Events)
  BY <1>5, ValueTyped DEF RebuildInv
<1>7. PICK c : c = [b EXCEPT !.at = "save", !.value = value]
  OBVIOUS
<1>8. /\ rebuilds' = [rebuilds EXCEPT ![r] = c] /\ disturbed' = disturbed
      /\ records' = records /\ checkpoint' = checkpoint
  BY <1>1, <1>3, <1>4, <1>5, <1>7 DEF Worker!ReadRecord, Worker!Goto
<1>9. Worker!Running(r)
  BY <1>1 DEF Worker!Running
<1>10. /\ c \in Worker!Rebuild /\ c.at = "save" /\ c.value = value /\ c.page = b.page
       /\ c.offset = b.offset /\ c.processed = b.processed /\ c.atStart = b.atStart
       /\ c.total = b.total
  BY <1>1, <1>6, <1>7 DEF Worker!Rebuild
<1>11. Filled(c)
  BY <1>1, <1>10 DEF Filled
<1>12. ASSUME NEW d, Paged(b, d), Folded(b, d)
       PROVE  Paged(c, d) /\ Folded(c, d)'
  <2>1. Paged(c, d)
    BY <1>1, <1>10, <1>12 DEF Paged
  <2>2. \A t \in Streams : Worker!ValueOf(t) = Worker!EventsOf(t, d)
    BY <1>1, <1>12 DEF Folded
  <2>3. \A t \in Streams : Worker!ValueOf(t)' = Worker!EventsOf(t, d)
    BY <1>8, <2>2 DEF Worker!ValueOf
  <2>4. c.value = Append(Worker!EventsOf(StreamOf[Head(c.page)], d), Head(c.page))
    BY <1>3, <1>4, <1>5, <1>10, <2>2
  <2>5. b.processed > 0 => checkpoint' = b.processed
    BY <1>8, <1>12 DEF Folded
  <2> QED
    BY <1>10, <2>1, <2>3, <2>4, <2>5 DEF Folded
<1>13. /\ records' \in [Streams -> Worker!Records \cup {None}] /\ checkpoint' \in Nat \cup {None}
       /\ checkpoint' # None => Len(Worker!Sorted) > 0
  BY <1>8 DEF RebuildInv, RecordsTyped
<1> QED
  BY <1>1, <1>8, <1>9, <1>11, <1>12, <1>13, RunningStep

\* The record is saved with the event.
LEMMA RecordKeeps ==
  ASSUME Worker!ProjectionAssumption, RebuildInv, NEW r \in Rebuilds, Worker!SaveRecord(r),
         stored' = stored, writers' = writers
  PROVE  RebuildInv'
<1>1. PICK b : b = rebuilds[r] /\ b \in Worker!Rebuild /\ Filled(b) /\ b.at = "save"
  BY DEF RebuildInv, RecordsTyped, Worker!SaveRecord
<1>2. b.page \in Seq(Events) /\ b.page # <<>> /\ b.value \in Seq(Events)
  BY <1>1 DEF Filled, Worker!Rebuild
<1>3. PICK e \in Events : e = Head(b.page)
  BY <1>2
<1>4. PICK s \in Streams : s = StreamOf[e]
  BY DEF Worker!ProjectionAssumption, Worker!StoreAssumption
<1>5. PICK version : version = IF records[s] = None THEN 1 ELSE records[s].version + 1
  OBVIOUS
<1>6. version \in Nat \ {0}
  <2>1. records[s] \in Worker!Records \cup {None}
    BY DEF RebuildInv, RecordsTyped
  <2>2. records[s] # None => records[s].version \in Nat
    BY <2>1 DEF Worker!Records
  <2> QED
    BY <1>5, <2>2
<1>7. PICK rec : rec = [value |-> b.value, version |-> version]
  OBVIOUS
<1>8. rec \in Worker!Records /\ rec # None /\ rec.value = b.value
  <2>1. rec \in Worker!Records /\ rec.value = b.value
    BY <1>2, <1>6, <1>7 DEF Worker!Records
  <2> QED
    BY <2>1 DEF Worker!ProjectionAssumption
<1>9. PICK none : none = <<>>
  OBVIOUS
<1>10. PICK c : c = [b EXCEPT !.at = "checkpoint", !.value = none]
  OBVIOUS
<1>11. /\ rebuilds' = [rebuilds EXCEPT ![r] = c] /\ disturbed' = disturbed
       /\ records' = [records EXCEPT ![s] = rec] /\ checkpoint' = checkpoint
  BY <1>1, <1>3, <1>4, <1>5, <1>7, <1>9, <1>10 DEF Worker!SaveRecord, Worker!Goto
<1>12. Worker!Running(r)
  BY <1>1 DEF Worker!Running
<1>13. /\ c \in Worker!Rebuild /\ c.at = "checkpoint" /\ c.page = b.page
       /\ c.offset = b.offset /\ c.processed = b.processed /\ c.atStart = b.atStart
       /\ c.total = b.total
  <2>1. none \in Seq(Events)
    <3>1. ASSUME NEW S PROVE <<>> \in Seq(S)
      OBVIOUS
    <3> QED
      BY ONLY <1>9, <3>1
  <2> QED
    BY <1>1, <1>10, <2>1 DEF Worker!Rebuild
<1>14. Filled(c)
  BY <1>1, <1>13 DEF Filled
<1>15. records \in [Streams -> Worker!Records \cup {None}]
  BY DEF RebuildInv, RecordsTyped
<1>16. ASSUME NEW d, Paged(b, d), Folded(b, d)
       PROVE  Paged(c, d) /\ Folded(c, d)'
  <2>1. Paged(c, d)
    BY <1>1, <1>13, <1>16 DEF Paged
  <2>2. d \in Seq(Events)
    BY <1>16 DEF Paged
  <2>3. /\ \A t \in Streams : Worker!ValueOf(t) = Worker!EventsOf(t, d)
        /\ b.value = Append(Worker!EventsOf(s, d), e)
    BY <1>1, <1>3, <1>4, <1>16 DEF Folded
  <2>4. ASSUME NEW t \in Streams
        PROVE  Worker!ValueOf(t)' = Worker!EventsOf(t, Append(d, e))
    <3>1. Worker!EventsOf(t, Append(d, e)) =
            IF s = t THEN Append(Worker!EventsOf(t, d), e) ELSE Worker!EventsOf(t, d)
      BY <1>4, <2>2, EventsOfMore
    <3>2. CASE t = s
      <4>1. records'[t] = rec
        BY <1>11, <1>15, <3>2
      <4>2. Worker!ValueOf(t)' = b.value
        BY <1>8, <4>1 DEF Worker!ValueOf
      <4> QED
        BY <2>3, <3>1, <3>2, <4>2
    <3>3. CASE t # s
      <4>1. records'[t] = records[t]
        BY <1>11, <1>15, <3>3
      <4>2. Worker!ValueOf(t)' = Worker!ValueOf(t)
        BY <4>1 DEF Worker!ValueOf
      <4> QED
        BY <2>3, <3>1, <3>3, <4>2
    <3> QED
      BY <3>2, <3>3
  <2>5. b.processed > 0 => checkpoint' = b.processed
    BY <1>11, <1>16 DEF Folded
  <2> QED
    BY <1>3, <1>13, <2>1, <2>4, <2>5 DEF Folded
<1>17. /\ records' \in [Streams -> Worker!Records \cup {None}] /\ checkpoint' \in Nat \cup {None}
       /\ checkpoint' # None => Len(Worker!Sorted) > 0
  BY <1>8, <1>11, <1>15 DEF RebuildInv, RecordsTyped
<1> QED
  BY <1>1, <1>11, <1>12, <1>14, <1>16, <1>17, RunningStep

\* The checkpoint is saved.
LEMMA CheckpointKeeps ==
  ASSUME Worker!ProjectionAssumption, RebuildInv, NEW r \in Rebuilds, Worker!SaveCheckpoint(r),
         stored' = stored, writers' = writers
  PROVE  RebuildInv'
<1>1. PICK b : b = rebuilds[r] /\ b \in Worker!Rebuild /\ Filled(b) /\ b.at = "checkpoint"
  BY DEF RebuildInv, RecordsTyped, Worker!SaveCheckpoint
<1>2. b.page \in Seq(Events) /\ b.page # <<>> /\ Len(Worker!Sorted) > 0
  BY <1>1 DEF Filled, Worker!Rebuild
<1>3. PICK e : e = Head(b.page)
  OBVIOUS
<1>4. PICK t : t = Tail(b.page)
  OBVIOUS
<1>5. PICK k \in Nat : k = Len(b.page) /\ k > 0
  BY <1>2
<1>6. PICK n \in Nat : n = b.processed + 1 /\ n > 0
  BY <1>1 DEF Worker!Rebuild
<1>7. b.offset \in Nat /\ b.total \in Nat /\ b.atStart \in Nat /\ b.processed \in Nat
  BY <1>1 DEF Worker!Rebuild
<1>8. t \in Seq(Events) /\ Len(t) = k - 1
  BY <1>2, <1>4, <1>5
<1>9. PICK at : at = IF k > 1 THEN "read" ELSE IF b.offset >= b.total THEN "done" ELSE "page"
  OBVIOUS
<1>10. PICK c : c = [b EXCEPT !.page = t, !.processed = n, !.at = at]
  OBVIOUS
<1>11. /\ rebuilds' = [rebuilds EXCEPT ![r] = c] /\ disturbed' = disturbed
       /\ records' = records /\ checkpoint' = n
  BY <1>1, <1>4, <1>5, <1>6, <1>9, <1>10 DEF Worker!SaveCheckpoint, Worker!Goto
<1>12. Worker!Running(r)
  BY <1>1 DEF Worker!Running
<1>13. /\ c \in Worker!Rebuild /\ c.at = at /\ c.page = t
       /\ c.offset = b.offset /\ c.processed = n /\ c.atStart = b.atStart
       /\ c.total = b.total
  <2>1. at \in {"read", "done", "page"}
    BY <1>9
  <2> QED
    BY <1>1, <1>8, <1>10, <2>1 DEF Worker!Rebuild
<1>14. k > 1 => t # <<>>
  <2> SUFFICES ASSUME t = <<>> PROVE ~ (k > 1)
    OBVIOUS
  <2>1. Len(t) = 0
    OBVIOUS
  <2> QED
    BY <1>8, <2>1
<1>15. Filled(c)
  <2>1. c.at \in {"read", "save", "checkpoint"} => c.page # <<>>
    BY <1>9, <1>13, <1>14
  <2> QED
    BY <1>2, <1>13, <2>1 DEF Filled
<1>16. ASSUME NEW d, Paged(b, d), Folded(b, d)
       PROVE  \E f : Paged(c, f) /\ Folded(c, f)'
  <2>1. /\ d \in Seq(Events) /\ d \o b.page = Worker!FirstOf(b.offset)
        /\ Len(d) = b.processed /\ b.processed + k = b.offset
        /\ b.offset <= Len(Worker!Sorted) /\ b.atStart <= Len(Worker!Sorted)
        /\ b.atStart <= b.total
    BY <1>1, <1>5, <1>16 DEF Paged
  <2>2. PICK f : f = Append(d, e)
    OBVIOUS
  <2>3. f \in Seq(Events) /\ Len(f) = Len(d) + 1 /\ f \o t = d \o b.page
    <3>1. PICK page \in Seq(Events) : page = b.page /\ page # <<>>
      BY <1>2
    <3>2. /\ Append(d, Head(page)) \in Seq(Events)
          /\ Len(Append(d, Head(page))) = Len(d) + 1
          /\ Append(d, Head(page)) \o Tail(page) = d \o page
      <4>1. d \in Seq(Events) /\ page \in Seq(Events) /\ page # <<>>
        BY <2>1, <3>1
      <4> QED
        BY ONLY <4>1, EventRead
    <3> QED
      BY ONLY <1>3, <1>4, <2>2, <3>1, <3>2
  <2>4. c.processed + Len(c.page) = c.offset /\ Len(f) = c.processed
    <3>1. n + (k - 1) = b.processed + k
      BY <1>6, <1>7
    <3>2. Len(f) = n
      BY <1>6, <2>1, <2>3
    <3> QED
      BY <1>8, <1>13, <2>1, <3>1, <3>2
  <2>5. c.at \in {"page", "done"} => c.page = <<>>
    <3> SUFFICES ASSUME c.at \in {"page", "done"} PROVE t = <<>>
      BY <1>13
    <3>1. ~ (k > 1)
      BY <1>9, <1>13
    <3>2. Len(t) = 0
      <4>1. k \in Nat /\ k > 0
        BY <1>5
      <4>2. k - 1 = 0
        BY ONLY <3>1, <4>1
      <4> QED
        BY ONLY <1>8, <4>2
    <3> QED
      BY <1>8, <3>2
  <2>6. c.at = "done" => c.atStart <= c.offset
    <3> SUFFICES ASSUME at = "done" PROVE b.atStart <= b.offset
      BY <1>13
    <3>1. b.offset >= b.total
      BY <1>9
    <3> QED
      BY <1>7, <2>1, <3>1
  <2>7. c.at # "clear"
    BY <1>9, <1>13
  <2>8. f \o c.page = Worker!FirstOf(c.offset) /\ c.offset <= Len(Worker!Sorted)
        /\ c.atStart <= Len(Worker!Sorted) /\ c.atStart <= c.total
    BY <1>13, <2>1, <2>3
  <2>9. Paged(c, f)
    BY <2>3, <2>4, <2>5, <2>6, <2>7, <2>8 DEF Paged
  <2>10. \A s \in Streams : Worker!ValueOf(s) = Worker!EventsOf(s, f)
    BY <1>1, <1>3, <1>16, <2>2 DEF Folded
  <2>11. \A s \in Streams : Worker!ValueOf(s)' = Worker!EventsOf(s, f)
    BY <1>11, <2>10 DEF Worker!ValueOf
  <2>12. checkpoint' = c.processed /\ c.processed # 0
    BY <1>6, <1>11, <1>13
  <2>13. c.at \notin {"clear", "save", "checkpoint"}
    BY <1>9, <1>13
  <2>14. Folded(c, f)'
    BY <2>11, <2>12, <2>13 DEF Folded
  <2> QED
    BY <2>9, <2>14
<1>17. /\ records' \in [Streams -> Worker!Records \cup {None}] /\ checkpoint' \in Nat \cup {None}
       /\ checkpoint' # None => Len(Worker!Sorted) > 0
  BY <1>2, <1>11 DEF RebuildInv, RecordsTyped
<1> QED
  BY <1>1, <1>11, <1>12, <1>15, <1>16, <1>17, RunningStep

\* An append disturbs the calls whose pages it shifts.
LEMMA StoreKeeps ==
  ASSUME Worker!ProjectionAssumption, RebuildInv, Worker!Store
  PROVE  RebuildInv'
<1>1. /\ Worker!StoreNext /\ records' = records /\ checkpoint' = checkpoint
      /\ rebuilds' = rebuilds /\ disturbed' = disturbed \cup Worker!Shifted
  BY DEF Worker!Store
<1>2. StoreTyped /\ RecordsTyped
  BY DEF RebuildInv
<1>3. StoreTyped' /\ Len(Worker!Sorted) <= Len(Worker!Sorted')
  BY <1>1, <1>2, StoreGrows, SortedGrows
<1>4. PICK m \in Nat, n \in Nat : m = Len(Worker!Sorted) /\ n = Len(Worker!Sorted') /\ m <= n
  BY <1>2, <1>3, SortedIs, SortedIsNext
<1>5. Worker!Shifted \subseteq Rebuilds
  BY DEF Worker!Shifted
<1>6. RecordsTyped'
  BY <1>1, <1>2, <1>5 DEF RecordsTyped
<1>7. (checkpoint # None => Len(Worker!Sorted) > 0)'
  BY <1>1, <1>4 DEF RebuildInv
<1>8. (\A r \in Rebuilds : Filled(rebuilds[r]))'
  <2> SUFFICES ASSUME NEW r \in Rebuilds PROVE Filled(rebuilds[r])'
    OBVIOUS
  <2>1. Filled(rebuilds[r])
    BY DEF RebuildInv
  <2> QED
    BY <1>1, <1>4, <2>1 DEF Filled
<1>9. (\A r \in Rebuilds \ disturbed : rebuilds[r].at # "idle" => Alone(r))'
  BY <1>1 DEF RebuildInv, Alone, Worker!Running
<1>10. ASSUME NEW r \in Rebuilds \ disturbed', Working(rebuilds[r])
       PROVE  \E d : Paged(rebuilds[r], d)' /\ Folded(rebuilds[r], d)'
  <2>1. r \in Rebuilds \ disturbed /\ r \notin Worker!Shifted
    BY <1>1
  <2>2. PICK b : b = rebuilds[r] /\ b \in Worker!Rebuild
    BY <1>2, <2>1 DEF RecordsTyped
  <2>3. PICK d : Paged(b, d) /\ Folded(b, d)
    BY <1>10, <2>1, <2>2 DEF RebuildInv
  <2>4. Worker!FirstOf(b.offset)' = Worker!FirstOf(b.offset)
    BY <1>1, <2>1, <2>2 DEF Worker!Shifted
  <2>5. b.offset <= n /\ b.atStart <= n
    <3>1. b.offset <= m /\ b.atStart <= m /\ b.offset \in Nat /\ b.atStart \in Nat
      BY <1>4, <2>2, <2>3 DEF Paged, Worker!Rebuild
    <3> QED
      BY <1>4, <3>1
  <2>6. Paged(b, d)'
    BY <1>4, <2>3, <2>4, <2>5 DEF Paged
  <2>7. Folded(b, d)'
    BY <1>1, <2>3 DEF Folded, Worker!ValueOf
  <2> QED
    BY <2>2, <2>6, <2>7, <1>1 DEF Paged, Folded
<1>11. (\A r \in Rebuilds \ disturbed :
          Working(rebuilds[r]) => \E d : Paged(rebuilds[r], d) /\ Folded(rebuilds[r], d))'
  BY <1>1, <1>10 DEF Working
<1> QED
  BY <1>3, <1>6, <1>7, <1>8, <1>9, <1>11 DEF RebuildInv

\* Whatever happens.
LEMMA RebuildStep ==
  ASSUME Worker!ProjectionAssumption, RebuildInv,
         [Worker!Next]_<<eventVars, workerVars>>
  PROVE  RebuildInv'
<1>1. CASE Worker!Store
  BY <1>1, StoreKeeps
<1>2. ASSUME NEW r \in Rebuilds, Worker!Rebuilding(r) PROVE RebuildInv'
  <2>1. stored' = stored /\ writers' = writers
    BY <1>2 DEF Worker!Rebuilding, Worker!storeVars
  <2>2. CASE Worker!Start(r)
    BY <2>1, <2>2, StartKeeps
  <2>3. CASE Worker!Clear(r)
    BY <2>1, <2>3, ClearKeeps
  <2>4. CASE Worker!ReadPage(r)
    BY <2>1, <2>4, PageKeeps
  <2>5. CASE Worker!ReadFails(r)
    <3>1. /\ Worker!Running(r) /\ UNCHANGED <<records, checkpoint, disturbed>>
          /\ rebuilds' = [rebuilds EXCEPT ![r] = [Worker!Idle EXCEPT !.at = "failed"]]
      BY <2>5 DEF Worker!ReadFails, Worker!Goto, Worker!Running
    <3> QED
      BY <2>1, <3>1, FailKeeps
  <2>6. CASE Worker!ReadRecord(r)
    BY <2>1, <2>6, ReadKeeps
  <2>7. CASE Worker!SaveRecord(r)
    BY <2>1, <2>7, RecordKeeps
  <2>8. CASE Worker!SaveCheckpoint(r)
    BY <2>1, <2>8, CheckpointKeeps
  <2>9. CASE Worker!Die(r)
    <3>1. /\ Worker!Running(r) /\ UNCHANGED <<records, checkpoint, disturbed>>
          /\ rebuilds' = [rebuilds EXCEPT ![r] = [Worker!Idle EXCEPT !.at = "failed"]]
      BY <2>9 DEF Worker!Die, Worker!Goto
    <3> QED
      BY <2>1, <3>1, FailKeeps
  <2> QED
    BY <1>2, <2>2, <2>3, <2>4, <2>5, <2>6, <2>7, <2>8, <2>9 DEF Worker!Rebuilding
<1>3. CASE UNCHANGED <<eventVars, workerVars>>
  <2>1. Worker!Sorted' = Worker!Sorted
    BY <1>3, SortedSame DEF eventVars
  <2>2. \A n : Worker!FirstOf(n)' = Worker!FirstOf(n)
    BY <2>1 DEF Worker!FirstOf
  <2>3. \A s : Worker!ValueOf(s)' = Worker!ValueOf(s)
    BY <1>3 DEF workerVars, Worker!ValueOf
  <2>4. \A r : Alone(r) => Alone(r)'
    BY <1>3 DEF workerVars, Alone, Worker!Running
  <2>5. \A b, d : Paged(b, d) /\ Folded(b, d) => Paged(b, d)' /\ Folded(b, d)'
    BY <1>3, <2>1, <2>2, <2>3 DEF workerVars, Paged, Folded
  <2>6. \A b : Filled(b) => Filled(b)'
    BY <2>1 DEF Filled
  <2>7. rebuilds' = rebuilds /\ disturbed' = disturbed /\ checkpoint' = checkpoint
    BY <1>3 DEF workerVars
  <2>8. StoreTyped' /\ RecordsTyped'
    BY <1>3 DEF eventVars, workerVars, RebuildInv, StoreTyped, RecordsTyped
  <2>9. (\A r \in Rebuilds : Filled(rebuilds[r]))'
    BY <2>6, <2>7 DEF RebuildInv, Filled
  <2>10. (\A r \in Rebuilds \ disturbed :
            Working(rebuilds[r]) => \E d : Paged(rebuilds[r], d) /\ Folded(rebuilds[r], d))'
    <3> SUFFICES ASSUME NEW r \in Rebuilds \ disturbed, Working(rebuilds[r])
                 PROVE  \E d : Paged(rebuilds[r], d)' /\ Folded(rebuilds[r], d)'
      BY <2>7 DEF Working
    <3>1. PICK d : Paged(rebuilds[r], d) /\ Folded(rebuilds[r], d)
      BY DEF RebuildInv
    <3>2. PICK b : b = rebuilds[r] /\ b = rebuilds'[r]
      BY <2>7
    <3>3. Paged(b, d)' /\ Folded(b, d)'
      BY <2>5, <3>1, <3>2
    <3> QED
      BY <3>2, <3>3 DEF Paged, Folded
  <2> QED
    BY <2>1, <2>4, <2>7, <2>8, <2>9, <2>10 DEF RebuildInv
<1> QED
  BY <1>1, <1>2, <1>3 DEF Worker!Next

\* When a rebuild ends that no other rebuild has overlapped and whose pages have not
\* shifted, the records are the folds of the events it has read, which are at least
\* those there were when it began (rebuildProjection in
\* src/application/projection-worker.ts), for any number of events, rebuilds and writers.
THEOREM RebuildsFaithful ==
  ASSUME Worker!ProjectionAssumption
  PROVE  Worker!Spec => []RebuiltFaithful
<1>1. Worker!Init => RebuildInv
  BY RebuildStart
<1>2. RebuildInv /\ [Worker!Next]_<<eventVars, workerVars>> => RebuildInv'
  BY RebuildStep
<1>3. RebuildInv => RebuiltFaithful
  BY FaithfulThen
<1>4. Worker!Spec => Worker!Init /\ [][Worker!Next]_<<eventVars, workerVars>>
  BY DEF Worker!Spec, Worker!storeVars, Worker!projectionVars, eventVars, workerVars
<1> QED
  BY <1>1, <1>2, <1>3, <1>4, PTL
=============================================================================
