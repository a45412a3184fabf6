------------------------------- MODULE MCCalls -------------------------------
(***************************************************************************)
(* Four components whose calls overlap in one process or over one store,   *)
(* checked side by side: of the four specifications the one in focus takes *)
(* steps, the others stay in their initial states.                         *)
(***************************************************************************)
EXTENDS Naturals, Sequences, FiniteSets

LOCAL INSTANCE SequencesExt

CONSTANTS None
CONSTANTS Calls, Keys, Hashes, MaxFaults, MaxMarks
CONSTANTS Callers, Signals, MaxConcurrent
CONSTANTS Guarded, Threshold, Recovery, MaxTime, MaxFailures
CONSTANTS Users, MaxInits

VARIABLES focus
VARIABLES attempts, pc, request, returned, faults, marks
VARIABLES inFlight, waitQueue, state, held, signalOf, aborted
VARIABLES currentState, consecutiveFailures, lastFailureTime, now, calling, failures
VARIABLES value, initialized, disposed, initPromise, disposal, users, inits, live

Runner == INSTANCE Integrations
Pool == INSTANCE ResourcePool
Breaker == INSTANCE CircuitBreaker WITH Calls <- Guarded
Handle == INSTANCE ManagedResource

\* A pool of two resources, the first for two calls at a time.
TwoAndOne == <<2, 1>>

ASSUME CallsAssumption == /\ Runner!IntegrationsAssumption
                          /\ Pool!PoolAssumption
                          /\ Breaker!BreakerAssumption
                          /\ Handle!ResourceAssumption

runnerVars == <<attempts, pc, request, returned, faults, marks>>
poolVars == <<inFlight, waitQueue, state, held, signalOf, aborted>>
breakerVars == <<currentState, consecutiveFailures, lastFailureTime, now, calling, failures>>
handleVars == <<value, initialized, disposed, initPromise, disposal, users, inits, live>>

vars == <<focus, runnerVars, poolVars, breakerVars, handleVars>>

(***************************************************************************)
(* Callers, signals and calls have nothing but their names to tell them    *)
(* apart, and no property of the runner or of the pool names one: what     *)
(* holds of a behaviour holds of every renaming of it.  So it is enough to *)
(* take one way to give out the signals for each number of callers that    *)
(* share the first of them, and the calls of the runner in the order of    *)
(* what they ask for, which never changes once a call has begun.           *)
(***************************************************************************)
Shared == CHOOSE s \in Signals : TRUE

Sharing == {CHOOSE f \in [Callers -> Signals] : Cardinality({c \in Callers : f[c] = Shared}) = n :
              n \in 0..Cardinality(Callers)}

Order == SetToSeq(Calls)
Kinds == SetToSeq(Runner!Requests)

Kind(c) == CHOOSE n \in DOMAIN Kinds : Kinds[n] = request[c]

InOrder == \A i, j \in DOMAIN Order :
  i < j /\ None \notin {request[Order[i]], request[Order[j]]} => Kind(Order[i]) <= Kind(Order[j])

Init == /\ focus \in {"runner", "pool", "breaker", "handle"}
        /\ Runner!Init /\ Breaker!Init /\ Handle!Init
        /\ Pool!Init
        /\ signalOf \in Sharing
        /\ focus # "pool" => signalOf = [c \in Callers |-> Shared]

Next ==
  \/ /\ focus = "runner"
     /\ Runner!Next
     /\ InOrder'
     /\ UNCHANGED <<focus, poolVars, breakerVars, handleVars>>
  \/ /\ focus = "pool"
     /\ Pool!Next
     /\ UNCHANGED <<focus, runnerVars, breakerVars, handleVars>>
  \/ /\ focus = "breaker"
     /\ Breaker!Next
     /\ UNCHANGED <<focus, runnerVars, poolVars, handleVars>>
  \/ /\ focus = "handle"
     /\ Handle!Next
     /\ UNCHANGED <<focus, runnerVars, poolVars, breakerVars>>

\* Of a component that is not in focus no fair action is ever enabled.
Spec == Init /\ [][Next]_vars /\ Runner!Fairness /\ Pool!Fairness

\* The properties of the four, each stated in its module.
ExecutedOnce == Runner!ExecutedOnce
SemaphoreSpec == Pool!SemaphoreSpec
TrippedHolds == Breaker!TrippedHolds
OneInstance == Handle!OneInstance

(***************************************************************************)
(* Nothing is lost of the room of a pool: the load of a resource is the    *)
(* number of callers that hold it, never more than it serves; all of them  *)
(* together are those the semaphore has let in, and nobody is in the queue *)
(* twice, or without waiting, or while some resource has room, also when a *)
(* signal is aborted in the turn in which a place is given back.           *)
(***************************************************************************)
RoomAccounted == Pool!LoadAccounted /\ Pool!Gate!SlotsAccounted

(***************************************************************************)
(* No call is left behind: every run of an integration ends, and then its  *)
(* attempt is pending, and in the way of later runs, only by a fault; and  *)
(* every caller that waits for a resource is served or rejected.           *)
(***************************************************************************)
NobodyLeftBehind == Runner!EndsUnblocked /\ Pool!EveryWaiterServed
=============================================================================
