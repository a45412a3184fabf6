---------------------------- MODULE SlidingWindow ----------------------------
(***************************************************************************)
(* SlidingWindow (primitives/sliding-window.ts): at most maxEvents events  *)
(* in any windowMs.                                                        *)
(*                                                                         *)
(* The timestamps are sorted, so they are a bag: how many there are of     *)
(* each time.  An event may be recorded with another time than that of the *)
(* clock, and a window restored from a state that was saved earlier, under *)
(* a larger maxEvents perhaps.                                             *)
(***************************************************************************)
EXTENDS Integers, FiniteSetsExt, Functions

CONSTANTS windowMs, maxEvents, MaxTime

WindowAssumption ==
  windowMs \in Nat \ {0} /\ maxEvents \in Nat \ {0} /\ MaxTime \in Nat

VARIABLES
  timestamps,
  saved,     \* a state that toState has returned
  clock,
  accepted,  \* the events that were recorded, as a bag, as long as they are regular
  regular    \* always at the time of the clock, and with no reset or restoration

windowVars == <<timestamps, saved, clock, accepted, regular>>

Times == 0..MaxTime
NoEvents == [t \in Times |-> 0]
Bags == [Times -> 0..(maxEvents + 1)]

TypeOK ==
  /\ timestamps \in Bags /\ saved \in Bags /\ clock \in Times
  /\ accepted \in [Times -> Nat] /\ regular \in BOOLEAN

Init ==
  /\ timestamps = NoEvents /\ clock = 0 /\ accepted = NoEvents /\ regular = TRUE
  /\ saved \in {NoEvents, [NoEvents EXCEPT ![0] = maxEvents + 1]}

\* prune, at some time of the clock.
Pruned(bag, time) == [t \in Times |-> IF t > time - windowMs THEN bag[t] ELSE 0]

\* canRecord
Available(bag, time) == SumFunction(Pruned(bag, time)) < maxEvents

\* msUntilAvailable
Wait ==
  LET kept == Pruned(timestamps, clock)
      oldest == Min({t \in Times : kept[t] > 0})
  IN  IF Available(timestamps, clock) THEN 0 ELSE Max({0, oldest + windowMs - clock})

\* record; when it returns false it has only pruned.
Record(t) ==
  /\ Available(timestamps, clock)
  /\ timestamps' = [Pruned(timestamps, clock) EXCEPT ![t] = @ + 1]
  /\ regular' = (regular /\ t = clock)
  /\ accepted' = IF regular' THEN [accepted EXCEPT ![t] = @ + 1] ELSE NoEvents
  /\ UNCHANGED <<saved, clock>>

\* toState
Save ==
  /\ saved' = Pruned(timestamps, clock)
  /\ timestamps' = saved'
  /\ UNCHANGED <<clock, accepted, regular>>

\* fromState
Restore ==
  /\ timestamps' = Pruned(saved, clock)
  /\ regular' = FALSE /\ accepted' = NoEvents
  /\ UNCHANGED <<saved, clock>>

Reset ==
  /\ timestamps' = NoEvents
  /\ regular' = FALSE /\ accepted' = NoEvents
  /\ UNCHANGED <<saved, clock>>

Tick ==
  /\ clock < MaxTime
  /\ clock' = clock + 1
  /\ UNCHANGED <<timestamps, saved, accepted, regular>>

Next == Save \/ Restore \/ Reset \/ Tick \/ \E t \in Times : Record(t)

Spec == Init /\ [][Next]_windowVars

-----------------------------------------------------------------------------
(***************************************************************************)
(* No window of windowMs holds more than maxEvents events, if they are     *)
(* recorded as they happen.  And msUntilAvailable is exact: then there is  *)
(* room, and not before, unless more has been restored than fits.          *)
(***************************************************************************)
WindowKept ==
  /\ regular => \A t \in Times :
       SumFunctionOnSet(accepted, {s \in Times : s > t - windowMs /\ s <= t}) <= maxEvents
  /\ SumFunction(Pruned(timestamps, clock)) <= maxEvents =>
       /\ Available(timestamps, clock + Wait)
       /\ \A sooner \in 0..(Wait - 1) : ~Available(timestamps, clock + sooner)
=============================================================================
