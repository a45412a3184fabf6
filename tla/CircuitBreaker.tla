--------------------------- MODULE CircuitBreaker ---------------------------
(***************************************************************************)
(* The CircuitBreaker of src/primitives/circuit-breaker.ts, shared by calls *)
(* that overlap.  A call is judged when it begins and reports when it ends; *)
(* in between the breaker may have opened, half-opened, closed or been     *)
(* reset by the others.  Reading the state changes it: an open breaker     *)
(* whose recovery time is over becomes half-open when it is looked at.     *)
(***************************************************************************)
EXTENDS Integers, Sequences, FiniteSets

CONSTANTS Calls,        \* calls of execute; a call that has ended may be made again
          Threshold,    \* failureThreshold
          Recovery,     \* recoveryTimeoutMs
          MaxTime,      \* bound of the clock
          MaxFailures   \* bound: failures in a row, those under way included

BreakerAssumption == /\ Threshold \in Nat \ {0}
                     /\ Recovery \in Nat
                     /\ MaxTime \in Nat
                     /\ MaxFailures \in Nat

VARIABLES currentState,         \* "closed", "open" or "half-open"
          consecutiveFailures,
          lastFailureTime,
          now,                  \* the clock
          calling,              \* the calls whose function is running
          failures              \* history: the failures since the last success or
                                \* reset, each with its time and whether its code
                                \* is one of immediateOpenCodes

breakerVars == <<currentState, consecutiveFailures, lastFailureTime, now, calling, failures>>

TypeOK == /\ currentState \in {"closed", "open", "half-open"}
          /\ consecutiveFailures \in Nat
          /\ lastFailureTime \in Nat
          /\ now \in 0..MaxTime
          /\ calling \subseteq Calls
          /\ failures \in Seq([time : 0..MaxTime, fatal : BOOLEAN])

Init == /\ currentState = "closed"
        /\ consecutiveFailures = 0
        /\ lastFailureTime = 0
        /\ now = 0
        /\ calling = {}
        /\ failures = <<>>

\* Mutant of Looked: the recovery time is over one tick early.
LookedEarly == IF currentState = "open" /\ now - lastFailureTime + 1 >= Recovery
               THEN "half-open" ELSE currentState

\* The getter state: what the breaker is once it has been looked at.
Looked == IF currentState = "open" /\ now - lastFailureTime >= Recovery
          THEN "half-open" ELSE currentState

Look == /\ currentState' = Looked
        /\ UNCHANGED <<consecutiveFailures, lastFailureTime, now, calling, failures>>

\* execute lets the call through: also every call that comes while half-open.
Start(c) == /\ c \notin calling
            /\ Len(failures) + Cardinality(calling) < MaxFailures
            /\ currentState' = Looked
            /\ Looked # "open"
            /\ calling' = calling \cup {c}
            /\ UNCHANGED <<consecutiveFailures, lastFailureTime, now, failures>>

\* execute refuses the call with CircuitBreakerOpenError.
Refuse(c) == /\ c \notin calling
             /\ Looked = "open"
             /\ UNCHANGED breakerVars

\* onSuccess, whatever has happened since the call began.
Succeed(c) == /\ c \in calling
              /\ calling' = calling \ {c}
              /\ currentState' = "closed"
              /\ consecutiveFailures' = 0
              /\ failures' = <<>>
              /\ UNCHANGED <<lastFailureTime, now>>

\* onFailure.
Fail(c) ==
  \E fatal \in BOOLEAN :
    LET opens == fatal \/ consecutiveFailures + 1 >= Threshold \/ currentState = "half-open"
    IN  /\ c \in calling
        /\ calling' = calling \ {c}
        /\ consecutiveFailures' = consecutiveFailures + 1
        /\ lastFailureTime' = now
        /\ currentState' = IF opens THEN "open" ELSE currentState
        /\ failures' = Append(failures, [time |-> now, fatal |-> fatal])
        /\ UNCHANGED now

\* The function throws instead of returning an error: nothing is recorded.
Throw(c) == /\ c \in calling
            /\ calling' = calling \ {c}
            /\ UNCHANGED <<currentState, consecutiveFailures, lastFailureTime, now, failures>>

Reset == /\ currentState' = "closed"
         /\ consecutiveFailures' = 0
         /\ lastFailureTime' = 0
         /\ failures' = <<>>
         /\ UNCHANGED <<now, calling>>

Tick == /\ now < MaxTime
        /\ now' = now + 1
        /\ UNCHANGED <<currentState, consecutiveFailures, lastFailureTime, calling, failures>>

Next == \/ \E c \in Calls : Start(c) \/ Refuse(c) \/ Succeed(c) \/ Fail(c) \/ Throw(c)
        \/ Look \/ Reset \/ Tick

Spec == Init /\ [][Next]_breakerVars

\* The failures alone say that the breaker has to be open: enough of them in a
\* row, or a last one with a code that opens it at once.
Tripped == failures # <<>> /\ (Len(failures) >= Threshold \/ failures[Len(failures)].fatal)

\* The time of the latest failure.
Latest == failures[Len(failures)].time

(***************************************************************************)
(* Action property.  While the failures since the last success ask for an  *)
(* open breaker, a call is let through only once the recovery time has     *)
(* passed since the latest of them, also the ones that calls begun earlier *)
(* have reported meanwhile; and a breaker that becomes closed has just had *)
(* a success or a reset.                                                   *)
(***************************************************************************)
TrippedHolds ==
  [][/\ Tripped /\ calling' \ calling # {} => now - Latest >= Recovery
     /\ currentState # "closed" /\ currentState' = "closed" => failures' = <<>>]_breakerVars
=============================================================================
