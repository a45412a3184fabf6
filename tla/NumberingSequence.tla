-------------------------- MODULE NumberingSequence --------------------------
(***************************************************************************)
(* NumberingSequence (primitives/sequence.ts).  The formatted value has    *)
(* the number's sign and digits between a fixed prefix and suffix, and is  *)
(* left out.                                                               *)
(***************************************************************************)
EXTENDS Integers, Sequences, Functions

CONSTANTS Configs,  \* records: start, increment, min, max, cycle
          Numbers,  \* the numbers that setCurrent and a saved state may give
          None

\* The constructor refuses an increment of 0; that min is below max is up to the caller.
SequenceAssumption ==
  /\ \A c \in Configs : /\ c.start \in Int /\ c.increment \in Int \ {0} /\ c.cycle \in BOOLEAN
                        /\ c.min \in Int \cup {None} /\ c.max \in Int \cup {None}
                        /\ c.min # None /\ c.max # None => c.min <= c.max
  /\ Numbers \subseteq Int /\ None \notin Int

VARIABLES
  config, current,
  issued  \* what next has returned since the sequence was set or began a new cycle

sequenceVars == <<config, current, issued>>

TypeOK == config \in Configs /\ current \in Int \cup {None} /\ issued \in Seq(Int)

\* With no state, or one that was saved, under an earlier configuration perhaps.
Init == config \in Configs /\ current \in Numbers \cup {None} /\ issued = <<>>

Candidate == IF current = None THEN config.start ELSE current + config.increment

TooLarge(n) == config.max # None /\ n > config.max
TooSmall(n) == config.min # None /\ n < config.min

\* applyBounds; None is an exhausted sequence.
Bounded(n) ==
  IF TooLarge(n) THEN (IF config.cycle THEN config.min ELSE None)
  ELSE IF TooSmall(n) THEN (IF config.cycle THEN config.max ELSE None)
  ELSE n

\* next; peek computes the same and puts the old number back.
NextNumber ==
  /\ Bounded(Candidate) # None
  /\ current' = Bounded(Candidate)
  /\ issued' = (IF current' = Candidate THEN issued ELSE <<>>) \o <<current'>>
  /\ UNCHANGED config

SetCurrent(n) ==
  /\ current' = n
  /\ issued' = <<>>
  /\ UNCHANGED config

Next == NextNumber \/ \E n \in Numbers : SetCurrent(n)

Spec == Init /\ [][Next]_sequenceVars

-----------------------------------------------------------------------------
(***************************************************************************)
(* Whatever the sequence was set to, what it issues is within its bounds,  *)
(* and no number is issued twice in a cycle.                               *)
(***************************************************************************)
NumbersKept ==
  /\ \A n \in Range(issued) : ~TooLarge(n) /\ ~TooSmall(n)
  /\ IsInjective(issued)
=============================================================================
