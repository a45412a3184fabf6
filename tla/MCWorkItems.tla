---------------------------- MODULE MCWorkItems ----------------------------
(***************************************************************************)
(* WorkItems for TLC: a workflow of three states, one of them closed.      *)
(***************************************************************************)
EXTENDS WorkItems, TLC

CONSTANTS c1, c2, c3, open, review, closed

MCCalls == {c1, c2, c3}

MCStates == {open, review, closed}

MCClosedStates == {closed}

MCTransitions == {<<open, review>>, <<review, closed>>, <<review, open>>, <<open, closed>>}

Symmetry == Permutations(Calls) \cup Permutations(Items)
=============================================================================
