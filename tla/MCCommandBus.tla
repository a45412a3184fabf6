---------------------------- MODULE MCCommandBus ----------------------------
(***************************************************************************)
(* CommandBus for TLC: interchangeable calls and fingerprints, one key or  *)
(* two (the records of different keys share nothing but the pruner).       *)
(***************************************************************************)
EXTENDS CommandBus, TLC

CONSTANTS c1, c2, c3, k1, k2, f1, f2

MCCalls == {c1, c2, c3}

MCOneKey == {k1}

MCTwoKeys == {k1, k2}

MCFingerprints == {f1, f2}

Symmetry ==
  Permutations(Calls) \cup Permutations(Keys) \cup Permutations(Fingerprints)
=============================================================================
