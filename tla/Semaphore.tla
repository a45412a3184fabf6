------------------------------ MODULE Semaphore ------------------------------
(***************************************************************************)
(* The Semaphore of src/primitives/concurrency.ts.  A caller that finds no *)
(* free slot waits in a queue; a release hands the slot to the caller that *)
(* has waited longest, and an abort signal takes a waiter out of the queue. *)
(* A turn of the event loop is one step: between the turn in which a slot  *)
(* is handed to a waiter and the turn in which the waiter goes on, other   *)
(* calls, releases and aborts happen.                                      *)
(***************************************************************************)
EXTENDS Naturals, Sequences, FiniteSets, SequencesExt

CONSTANTS Callers,    \* the calls of run
          Signals,    \* abort signals; several calls may share one
          Limit       \* the limit of the semaphore

LimitAssumption == Limit \in Nat \ {0}

VARIABLES running,    \* the counter of taken slots
          waiting,    \* the queue of waiters
          state,      \* where each call is
          signalOf,   \* the signal each call was given
          aborted     \* the signals that are aborted

semaphoreVars == <<running, waiting, state, signalOf, aborted>>

\* "granted": acquire has resolved, the callback has not begun yet.
States == {"new", "waiting", "granted", "inside", "done", "rejected"}

\* The calls that own a slot.
Owners == {c \in Callers : state[c] \in {"granted", "inside"}}

TypeOK == /\ running \in Nat
          /\ waiting \in Seq(Callers)
          /\ state \in [Callers -> States]
          /\ signalOf \in [Callers -> Signals]
          /\ aborted \subseteq Signals

Init == /\ running = 0
        /\ waiting = <<>>
        /\ state = [c \in Callers |-> "new"]
        /\ signalOf \in [Callers -> Signals]
        /\ aborted = {}

Goto(c, s) == state' = [state EXCEPT ![c] = s]

\* acquire with a signal that is aborted already.
Reject(c) == /\ state[c] = "new"
             /\ signalOf[c] \in aborted
             /\ Goto(c, "rejected")
             /\ UNCHANGED <<running, waiting, signalOf, aborted>>

\* acquire when a slot is free.
Acquire(c) == /\ state[c] = "new"
              /\ signalOf[c] \notin aborted
              /\ running < Limit
              /\ running' = running + 1
              /\ Goto(c, "granted")
              /\ UNCHANGED <<waiting, signalOf, aborted>>

\* acquire when every slot is taken.
Queue(c) == /\ state[c] = "new"
            /\ signalOf[c] \notin aborted
            /\ running >= Limit
            /\ waiting' = Append(waiting, c)
            /\ Goto(c, "waiting")
            /\ UNCHANGED <<running, signalOf, aborted>>

\* The turn after acquire resolved: the callback begins.
Enter(c) == /\ state[c] = "granted"
            /\ Goto(c, "inside")
            /\ UNCHANGED <<running, waiting, signalOf, aborted>>

\* The callback has ended, well or not: release, which hands the slot on.
Release(c) ==
  /\ state[c] = "inside"
  /\ IF waiting = <<>>
     THEN /\ running' = running - 1
          /\ Goto(c, "done")
          /\ UNCHANGED waiting
     ELSE /\ running' = (running - 1) + 1
          /\ state' = [state EXCEPT ![c] = "done", ![Head(waiting)] = "granted"]
          /\ waiting' = Tail(waiting)
  /\ UNCHANGED <<signalOf, aborted>>

\* The waiters of a queue that were not given a signal.
Others(queue, s) ==
  LET upTo[n \in 0..Len(queue)] ==
        IF n = 0 THEN <<>>
        ELSE IF signalOf[queue[n]] = s THEN upTo[n - 1]
        ELSE Append(upTo[n - 1], queue[n])
  IN  upTo[Len(queue)]

\* The listeners of an aborted signal: its waiters leave the queue and are
\* rejected; a call that has its slot has no listener any more.
Abort(s) ==
  /\ s \notin aborted
  /\ aborted' = aborted \cup {s}
  /\ waiting' = Others(waiting, s)
  /\ state' = [c \in Callers |->
                 IF state[c] = "waiting" /\ signalOf[c] = s THEN "rejected" ELSE state[c]]
  /\ UNCHANGED <<running, signalOf>>

Next == \/ \E c \in Callers : \/ Reject(c) \/ Acquire(c) \/ Queue(c)
                              \/ Enter(c) \/ Release(c)
        \/ \E s \in Signals : Abort(s)

Spec == Init /\ [][Next]_semaphoreVars

(***************************************************************************)
(* The counter is the number of calls that own a slot, it never passes the *)
(* limit, and nobody waits while a slot is free: a slot given back in the  *)
(* turn in which a waiter is aborted is neither lost nor given away twice. *)
(***************************************************************************)
SlotsAccounted == /\ running = Cardinality(Owners)
                  /\ running <= Limit
                  /\ waiting # <<>> => running = Limit
                  /\ ToSet(waiting) = {c \in Callers : state[c] = "waiting"}
                  /\ IsInjective(waiting)
=============================================================================
