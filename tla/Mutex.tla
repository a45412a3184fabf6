------------------------------- MODULE Mutex -------------------------------
(***************************************************************************)
(* What a lock promises: at any time at most one process is inside the     *)
(* section the lock guards.  A process that is inside leaves it by         *)
(* finishing, by failing or by dying; the three look the same from here.   *)
(* FileLock, the lock of the filesystem adapters, is shown to implement    *)
(* this specification under the assumptions it names.                      *)
(***************************************************************************)
CONSTANTS
  Procs,  \* the callers that compete for the lock
  None    \* "nobody holds the lock"; not one of Procs

VARIABLE holder

TypeOK == holder \in Procs \cup {None}

Init == holder = None

Enter(p) ==
  /\ holder = None
  /\ holder' = p

Exit(p) ==
  /\ holder = p
  /\ holder' = None

Next == \E p \in Procs : Enter(p) \/ Exit(p)

Spec == Init /\ [][Next]_holder
=============================================================================
