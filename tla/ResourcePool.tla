---------------------------- MODULE ResourcePool ----------------------------
(***************************************************************************)
(* The ResourcePool of src/primitives/resource-pool.ts: several resources, *)
(* each of which serves a number of callers at once.  A caller gets the    *)
(* least loaded resource that has room, or waits; a release lets the caller *)
(* that has waited longest choose again.  The pool is shown to admit callers *)
(* exactly as a Semaphore of the total room does.                          *)
(***************************************************************************)
EXTENDS Naturals, Sequences, FiniteSets, SequencesExt

CONSTANTS Callers,       \* the calls of withResource
          Signals,       \* abort signals
          MaxConcurrent, \* a sequence: how many callers each resource serves
          None           \* no resource

\* The constructor refuses anything else.
PoolAssumption == /\ MaxConcurrent \in Seq(Nat \ {0}) /\ MaxConcurrent # <<>>
                  /\ None \notin DOMAIN MaxConcurrent

VARIABLES inFlight,    \* callers each resource serves
          waitQueue,   \* the callers that wait
          state,       \* where each call is
          held,        \* the resource each call was given
          signalOf,
          aborted

poolVars == <<inFlight, waitQueue, state, held, signalOf, aborted>>

Resources == DOMAIN MaxConcurrent

TypeOK == /\ inFlight \in [Resources -> Nat]
          /\ waitQueue \in Seq(Callers)
          /\ state \in [Callers -> {"new", "waiting", "granted", "inside", "done", "rejected"}]
          /\ held \in [Callers -> Resources \cup {None}]
          /\ signalOf \in [Callers -> Signals]
          /\ aborted \subseteq Signals

Total(f) == SumFunction(f)

Init == /\ inFlight = [r \in Resources |-> 0]
        /\ waitQueue = <<>>
        /\ state = [c \in Callers |-> "new"]
        /\ held = [c \in Callers |-> None]
        /\ signalOf \in [Callers -> Signals]
        /\ aborted = {}

\* Mutant of Room: a resource is taken for available until it is over its bound.
RoomLate(load) == {r \in Resources : load[r] <= MaxConcurrent[r]}

Room(load) == {r \in Resources : load[r] < MaxConcurrent[r]}

\* findAvailable: the first of the resources with the lowest load.
FindAvailable(load) ==
  CHOOSE r \in Room(load) : \A q \in Room(load) :
    load[r] < load[q] \/ (load[r] = load[q] /\ r <= q)

Reject(c) == /\ state[c] = "new"
             /\ signalOf[c] \in aborted
             /\ state' = [state EXCEPT ![c] = "rejected"]
             /\ UNCHANGED <<inFlight, waitQueue, held, signalOf, aborted>>

\* acquire when a resource has room.
Acquire(c) == /\ state[c] = "new"
              /\ signalOf[c] \notin aborted
              /\ Room(inFlight) # {}
              /\ LET r == FindAvailable(inFlight)
                 IN  /\ inFlight' = [inFlight EXCEPT ![r] = @ + 1]
                     /\ held' = [held EXCEPT ![c] = r]
              /\ state' = [state EXCEPT ![c] = "granted"]
              /\ UNCHANGED <<waitQueue, signalOf, aborted>>

\* acquire when every resource is full.
Queue(c) == /\ state[c] = "new"
            /\ signalOf[c] \notin aborted
            /\ Room(inFlight) = {}
            /\ waitQueue' = Append(waitQueue, c)
            /\ state' = [state EXCEPT ![c] = "waiting"]
            /\ UNCHANGED <<inFlight, held, signalOf, aborted>>

Enter(c) == /\ state[c] = "granted"
            /\ state' = [state EXCEPT ![c] = "inside"]
            /\ UNCHANGED <<inFlight, waitQueue, held, signalOf, aborted>>

\* release: the waiter is shifted from the queue before it is known whether a
\* resource is available for it.
Release(c) ==
  /\ state[c] = "inside"
  /\ LET freed == [inFlight EXCEPT ![held[c]] = @ - 1]
     IN  \/ /\ waitQueue = <<>>
            /\ inFlight' = freed
            /\ state' = [state EXCEPT ![c] = "done"]
            /\ held' = [held EXCEPT ![c] = None]
            /\ UNCHANGED waitQueue
         \/ /\ waitQueue # <<>>
            /\ waitQueue' = Tail(waitQueue)
            /\ IF Room(freed) = {}
               THEN /\ inFlight' = freed
                    /\ state' = [state EXCEPT ![c] = "done"]
                    /\ held' = [held EXCEPT ![c] = None]
               ELSE LET r == FindAvailable(freed)
                    IN  /\ inFlight' = [freed EXCEPT ![r] = @ + 1]
                        /\ state' = [state EXCEPT ![c] = "done", ![Head(waitQueue)] = "granted"]
                        /\ held' = [held EXCEPT ![c] = None, ![Head(waitQueue)] = r]
  /\ UNCHANGED <<signalOf, aborted>>

\* The waiters of a queue that were not given a signal.
Others(queue, s) ==
  LET upTo[n \in 0..Len(queue)] ==
        IF n = 0 THEN <<>>
        ELSE IF signalOf[queue[n]] = s THEN upTo[n - 1]
        ELSE Append(upTo[n - 1], queue[n])
  IN  upTo[Len(queue)]

\* Mutant of Abort: a waiter that is rejected stays in the queue.
AbortStays(s) ==
  /\ s \notin aborted
  /\ aborted' = aborted \cup {s}
  /\ state' = [c \in Callers |->
                 IF state[c] = "waiting" /\ signalOf[c] = s THEN "rejected" ELSE state[c]]
  /\ UNCHANGED <<inFlight, waitQueue, held, signalOf>>

Abort(s) ==
  /\ s \notin aborted
  /\ aborted' = aborted \cup {s}
  /\ waitQueue' = Others(waitQueue, s)
  /\ state' = [c \in Callers |->
                 IF state[c] = "waiting" /\ signalOf[c] = s THEN "rejected" ELSE state[c]]
  /\ UNCHANGED <<inFlight, held, signalOf>>

\* What a call does once it waits for nobody.
Advance(c) == Enter(c) \/ Release(c)

Next == \/ \E c \in Callers : Reject(c) \/ Acquire(c) \/ Queue(c) \/ Advance(c)
        \/ \E s \in Signals : Abort(s)

\* The event loop runs every resolved promise, and every callback ends.
Fairness == \A c \in Callers : WF_poolVars(Advance(c))

Spec == Init /\ [][Next]_poolVars /\ Fairness

(***************************************************************************)
(* The load of a resource is the number of callers that hold it and never  *)
(* more than it serves; nobody waits while some resource has room.         *)
(***************************************************************************)
LoadAccounted ==
  /\ \A r \in Resources :
       /\ inFlight[r] = Cardinality({c \in Callers : held[c] = r})
       /\ inFlight[r] <= MaxConcurrent[r]
  /\ waitQueue # <<>> => Room(inFlight) = {}

\* A pool admits, queues, hands over and rejects as a semaphore of its total room.
Gate == INSTANCE Semaphore WITH Limit <- Total(MaxConcurrent), running <- Total(inFlight),
                                waiting <- waitQueue
SemaphoreSpec == Gate!Spec

\* Every caller that waits is served or rejected in the end.
EveryWaiterServed == \A c \in Callers : state[c] = "waiting" ~> state[c] \in {"done", "rejected"}
=============================================================================
