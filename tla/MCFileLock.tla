----------------------------- MODULE MCFileLock -----------------------------
(***************************************************************************)
(* FileLock for TLC: two callers, or three.                                *)
(***************************************************************************)
EXTENDS FileLock, TLC

CONSTANTS p1, p2, p3

MCProcs == {p1, p2, p3}

MCTwoProcs == {p1, p2}
=============================================================================
