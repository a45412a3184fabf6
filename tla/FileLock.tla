------------------------------ MODULE FileLock ------------------------------
(***************************************************************************)
(* The cross-process lock of the filesystem adapters, withFileLock of      *)
(* src/src/adapters/fs/fs-utils.ts.  A caller owns the lock when it has    *)
(* created `<path>.lock' with the exclusive flag; a caller that finds the  *)
(* file there waits, gives up after timeoutMs, or takes the file for a     *)
(* leftover and removes it.  Reading the file and removing it are two      *)
(* calls, creating it and filling it are two, and nothing ties the file a  *)
(* caller removes to the one it read or created.                           *)
(*                                                                         *)
(* One lock path is modelled.  Time is one clock shared by all callers     *)
(* (the adapters are for one node), it may stand still between any two     *)
(* steps, and it stops at MaxTime.                                         *)
(*                                                                         *)
(* What the environment may do is given by four constants:                 *)
(*  - HoldMs: how late a caller can be between the clock reading it stamps *)
(*    its lock file with and the removal of that file;                     *)
(*  - PromptWrites: nobody looks at a lock file between its creation and   *)
(*    the write that fills it;                                             *)
(*  - SoleRecovery: no two callers clear away a leftover at the same time; *)
(*  - MaxFaults: the number of crashes and failed file operations.         *)
(***************************************************************************)
EXTENDS Naturals, FiniteSets

CONSTANTS
  Procs,         \* calls of withFileLock that compete for the path
  NoFile,        \* the lock file does not exist
  StaleMs,       \* options.staleMs
  TimeoutMs,     \* options.timeoutMs
  HoldMs,        \* bound on how long a caller can hold or try
  MaxTime,       \* bound on the clock
  MaxFaults,     \* bound on crashes and failed file operations
  PromptWrites,
  SoleRecovery

ASSUME FileLockAssumption ==
  /\ StaleMs \in Nat \ {0}      \* positiveIntegerOption
  /\ TimeoutMs \in Nat \ {0}    \* positiveIntegerOption
  /\ HoldMs \in Nat \ {0}
  /\ MaxTime \in Nat
  /\ MaxFaults \in Nat
  /\ PromptWrites \in BOOLEAN
  /\ SoleRecovery \in BOOLEAN

VARIABLES
  now,        \* the clock
  lockFile,   \* the file at `<path>.lock', or NoFile
  pc,         \* where each caller is in withFileLock
  startedAt,  \* startedAt of each call
  acquired,   \* acquisitionTime of each call
  faults      \* faults so far

vars == <<now, lockFile, pc, startedAt, acquired, faults>>

Times == 0..MaxTime

(***************************************************************************)
(* idle: no call; open: about to create the file; write: the file is       *)
(* created and empty; contend: the creation failed with EEXIST; recover:   *)
(* the file was judged a leftover, its removal is next; sleep: between two *)
(* attempts; inside: fn runs; leave: fn has settled, the removal of the    *)
(* lock file is next.                                                      *)
(***************************************************************************)
PCs == {"idle", "open", "write", "contend", "recover", "sleep", "inside", "leave"}

(***************************************************************************)
(* owner is the caller that created the file (its inode, the code cannot   *)
(* see it), written is FALSE while the file is still empty, so does not    *)
(* parse, and staleAt is acquisitionTime + staleMs of its creator.         *)
(***************************************************************************)
LockFiles ==
  [owner : Procs, written : BOOLEAN, staleAt : StaleMs..(MaxTime + StaleMs)]

ASSUME NoFileAssumption == NoFile \notin LockFiles \cup Procs

Owning == {"write", "inside", "leave"}

Init ==
  /\ now = 0
  /\ lockFile = NoFile
  /\ pc = [p \in Procs |-> "idle"]
  /\ startedAt = [p \in Procs |-> 0]
  /\ acquired = [p \in Procs |-> 0]
  /\ faults = 0

Goto(p, label) == pc' = [pc EXCEPT ![p] = label]

\* The call is over, and its variables with it.
Return(p) ==
  /\ Goto(p, "idle")
  /\ startedAt' = [startedAt EXCEPT ![p] = 0]
  /\ acquired' = [acquired EXCEPT ![p] = 0]

Fault ==
  /\ faults < MaxFaults
  /\ faults' = faults + 1

(***************************************************************************)
(* A call begins: its two clock variables are read from the clock once.    *)
(* Only calls whose timeout is within the modelled time begin.             *)
(***************************************************************************)
Start(p) ==
  /\ pc[p] = "idle"
  /\ now + TimeoutMs <= MaxTime
  /\ Goto(p, "open")
  /\ startedAt' = [startedAt EXCEPT ![p] = now]
  /\ acquired' = [acquired EXCEPT ![p] = now]
  /\ UNCHANGED <<now, lockFile, faults>>

\* Mutant of Create: the exclusive flag is lost, a file that exists is replaced.
CreateNotExclusive(p) ==
  /\ pc[p] = "open"
  /\ lockFile' = [owner |-> p, written |-> FALSE, staleAt |-> acquired[p] + StaleMs]
  /\ Goto(p, "write")
  /\ UNCHANGED <<now, startedAt, acquired, faults>>

(***************************************************************************)
(* writeFile(lockPath, metadata, { flag: 'wx' }) creates the file and then *)
(* fills it.  The write goes to the file that was created, wherever the    *)
(* path leads by then.                                                     *)
(***************************************************************************)
Create(p) ==
  /\ pc[p] = "open"
  /\ lockFile = NoFile
  /\ lockFile' = [owner |-> p, written |-> FALSE, staleAt |-> acquired[p] + StaleMs]
  /\ Goto(p, "write")
  /\ UNCHANGED <<now, startedAt, acquired, faults>>

Fill(p, file) ==
  IF file # NoFile /\ file.owner = p THEN [file EXCEPT !.written = TRUE] ELSE file

Write(p) ==
  /\ pc[p] = "write"
  /\ lockFile' = Fill(p, lockFile)
  /\ Goto(p, "inside")
  /\ UNCHANGED <<now, startedAt, acquired, faults>>

\* The write fails (a full disk): the error is thrown, the empty file stays.
WriteFails(p) ==
  /\ pc[p] = "write"
  /\ Fault
  /\ Return(p)
  /\ UNCHANGED <<now, lockFile>>

\* The creation fails with EEXIST.
Contend(p) ==
  /\ pc[p] = "open"
  /\ lockFile # NoFile
  /\ Goto(p, "contend")
  /\ UNCHANGED <<now, lockFile, startedAt, acquired, faults>>

\* Mutant of TimedOut: measured from the latest attempt, not from the first.
TimedOutOfAttempt(p) == now - acquired[p] >= TimeoutMs

TimedOut(p) == now - startedAt[p] >= TimeoutMs

\* Mutant of Leftover: staleAt must lie before the begin of the call.
LeftoverStrictly(p, file) ==
  /\ file # NoFile
  /\ IF file.written THEN file.staleAt < startedAt[p] ELSE TimedOut(p)

(***************************************************************************)
(* removeExpiredLock judges the file it reads: a file that does not parse  *)
(* counts as a leftover for a caller that is out of time, any other when   *)
(* it went stale before the call began.  A file that has gone is none.     *)
(***************************************************************************)
Leftover(p, file) ==
  /\ file # NoFile
  /\ IF file.written THEN file.staleAt <= startedAt[p] ELSE TimedOut(p)

\* What the environment rules out when PromptWrites and SoleRecovery hold.
MayRead == PromptWrites => \A p \in Procs : pc[p] # "write"

MayRecover == SoleRecovery => \A p \in Procs : pc[p] # "recover"

JudgeLeftover(p) ==
  /\ pc[p] = "contend"
  /\ MayRead
  /\ MayRecover
  /\ Leftover(p, lockFile)
  /\ acquired' = [acquired EXCEPT ![p] = now]
  /\ Goto(p, "recover")
  /\ UNCHANGED <<now, lockFile, startedAt, faults>>

\* Not a leftover: the call throws when its time is up, else it sleeps.
GiveUp(p) ==
  /\ pc[p] = "contend"
  /\ MayRead
  /\ ~Leftover(p, lockFile)
  /\ TimedOut(p)
  /\ Return(p)
  /\ UNCHANGED <<now, lockFile, faults>>

Sleep(p) ==
  /\ pc[p] = "contend"
  /\ MayRead
  /\ ~Leftover(p, lockFile)
  /\ ~TimedOut(p)
  /\ Goto(p, "sleep")
  /\ UNCHANGED <<now, lockFile, startedAt, acquired, faults>>

\* rm(lockPath, { force: true }): whatever file is there by now.
Recover(p) ==
  /\ pc[p] = "recover"
  /\ lockFile' = NoFile
  /\ Goto(p, "open")
  /\ UNCHANGED <<now, startedAt, acquired, faults>>

\* The removal fails and counts as "not removed": the call throws or sleeps.
RecoverFails(p) ==
  /\ pc[p] = "recover"
  /\ Fault
  /\ IF acquired[p] - startedAt[p] >= TimeoutMs
       THEN Return(p)
       ELSE Goto(p, "sleep") /\ UNCHANGED <<startedAt, acquired>>
  /\ UNCHANGED <<now, lockFile>>

Wake(p) ==
  /\ pc[p] = "sleep"
  /\ acquired' = [acquired EXCEPT ![p] = now]
  /\ Goto(p, "open")
  /\ UNCHANGED <<now, lockFile, startedAt, faults>>

\* fn settles, with a result or an error.
Settle(p) ==
  /\ pc[p] = "inside"
  /\ Goto(p, "leave")
  /\ UNCHANGED <<now, lockFile, startedAt, acquired, faults>>

\* The finally block: rm(lockPath, { force: true }), whoever's file it is.
Release(p) ==
  /\ pc[p] = "leave"
  /\ lockFile' = NoFile
  /\ Return(p)
  /\ UNCHANGED <<now, faults>>

\* The removal fails and the error is swallowed: the lock file stays.
ReleaseFails(p) ==
  /\ pc[p] = "leave"
  /\ Fault
  /\ Return(p)
  /\ UNCHANGED <<now, lockFile>>

\* The process dies: its call is gone, its lock file stays.
Crash(p) ==
  /\ pc[p] # "idle"
  /\ Fault
  /\ Return(p)
  /\ UNCHANGED <<now, lockFile>>

(***************************************************************************)
(* Time passes, unless that would make a caller later than HoldMs: the     *)
(* bound runs from the reading of acquisitionTime, so it also covers the   *)
(* removal of a leftover and the creation of the file.                     *)
(***************************************************************************)
Tick ==
  /\ now < MaxTime
  /\ \A p \in Procs : pc[p] \in Owning \cup {"open", "recover"} => now < acquired[p] + HoldMs
  /\ now' = now + 1
  /\ UNCHANGED <<lockFile, pc, startedAt, acquired, faults>>

\* The steps of a call that runs without a fault.
Step(p) ==
  \/ Create(p) \/ Write(p) \/ Contend(p)
  \/ JudgeLeftover(p) \/ GiveUp(p) \/ Sleep(p) \/ Recover(p) \/ Wake(p)
  \/ Settle(p) \/ Release(p)

Failure(p) == WriteFails(p) \/ RecoverFails(p) \/ ReleaseFails(p) \/ Crash(p)

Next ==
  \/ Tick
  \/ \E p \in Procs : Start(p) \/ Step(p) \/ Failure(p)

Spec == Init /\ [][Next]_vars

(***************************************************************************)
(* Every call that has begun keeps being run by the event loop, fn settles *)
(* and the clock goes on; nobody is obliged to begin a call.               *)
(***************************************************************************)
Fairness == WF_vars(Tick) /\ \A p \in Procs : WF_vars(Step(p))

FairSpec == Spec /\ Fairness
-----------------------------------------------------------------------------
\* Every variable has its type.
TypeOK ==
  /\ now \in Times
  /\ lockFile \in LockFiles \cup {NoFile}
  /\ pc \in [Procs -> PCs]
  /\ startedAt \in [Procs -> Times]
  /\ acquired \in [Procs -> Times]
  /\ faults \in 0..MaxFaults

(***************************************************************************)
(* What every adapter that does its read-check-write in withFileLock       *)
(* relies on: two callbacks never run at the same time.                    *)
(***************************************************************************)
MutualExclusion ==
  \A p, q \in Procs : pc[p] = "inside" /\ pc[q] = "inside" => p = q

(***************************************************************************)
(* Nobody deletes the lock file of a live holder, neither a waiter that    *)
(* took it for a leftover nor an earlier holder on its way out.            *)
(***************************************************************************)
HolderKeepsFile ==
  \A p \in Procs : pc[p] = "inside" => lockFile # NoFile /\ lockFile.owner = p

(***************************************************************************)
(* A call never waits for ever: it runs its callback, times out or dies,   *)
(* whatever lock files crashed callers have left behind.                   *)
(***************************************************************************)
EveryCallEnds ==
  \A p \in Procs : pc[p] = "open" ~> pc[p] \in {"inside", "idle"}

(***************************************************************************)
(* Recovery after a crash: once a caller begins after the lock file of a   *)
(* dead one has gone stale, that file is removed.                          *)
(***************************************************************************)
Abandoned(file) == file # NoFile /\ pc[file.owner] \notin Owning

LeftoverCleared ==
  \A p \in Procs :
    /\ pc[p] = "open"
    /\ Abandoned(lockFile) /\ lockFile.written /\ lockFile.staleAt <= startedAt[p]
    /\ faults = MaxFaults
    ~> lockFile = NoFile

\* The abstract lock that is held exactly while a callback runs.
Holder == IF \E p \in Procs : pc[p] = "inside"
          THEN CHOOSE p \in Procs : pc[p] = "inside"
          ELSE NoFile

Lock == INSTANCE Mutex WITH holder <- Holder, None <- NoFile

MutexSpec == Lock!Spec
=============================================================================
