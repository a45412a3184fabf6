--------------------------- MODULE FileLockProofs ---------------------------
(***************************************************************************)
(* Theorems about FileLock, for every set of callers and every StaleMs,    *)
(* TimeoutMs, MaxTime and MaxFaults: type correctness, and, under the      *)
(* three environment assumptions that FileLock names, mutual exclusion and *)
(* the refinement of the abstract lock.                                    *)
(***************************************************************************)
EXTENDS FileLock, TLAPS

\* The initial state is well typed.
LEMMA TypeInit == Init => TypeOK
BY FileLockAssumption DEF Init, TypeOK, Times, PCs

(***************************************************************************)
(* Every step keeps the types of the variables.                            *)
(***************************************************************************)
LEMMA TypeStep == TypeOK /\ [Next]_vars => TypeOK'
<1> SUFFICES ASSUME TypeOK, [Next]_vars PROVE TypeOK'
  OBVIOUS
<1> USE FileLockAssumption
<1>1. CASE Tick
  BY <1>1 DEF Tick, TypeOK, Times
<1>2. ASSUME NEW p \in Procs, Start(p) PROVE TypeOK'
  BY <1>2 DEF Start, Goto, TypeOK, Times, PCs
<1>3. ASSUME NEW p \in Procs, Create(p) PROVE TypeOK'
  <2>1. acquired[p] + StaleMs \in StaleMs..(MaxTime + StaleMs)
    BY DEF TypeOK, Times
  <2>2. lockFile' \in LockFiles
    BY <1>3, <2>1 DEF Create, LockFiles
  <2> QED
    BY <1>3, <2>2 DEF Create, Goto, TypeOK, PCs
<1>4. ASSUME NEW p \in Procs, Write(p) PROVE TypeOK'
  <2>1. lockFile' \in LockFiles \cup {NoFile}
    BY <1>4 DEF Write, Fill, TypeOK, LockFiles
  <2> QED
    BY <1>4, <2>1 DEF Write, Goto, TypeOK, PCs
<1>5. ASSUME NEW p \in Procs,
             Contend(p) \/ Sleep(p) \/ Settle(p) \/ Recover(p)
      PROVE  TypeOK'
  BY <1>5 DEF Contend, Sleep, Settle, Recover, Goto, TypeOK, PCs
<1>6. ASSUME NEW p \in Procs, JudgeLeftover(p) \/ Wake(p) PROVE TypeOK'
  BY <1>6 DEF JudgeLeftover, Wake, Goto, TypeOK, PCs
<1>7. ASSUME NEW p \in Procs,
             GiveUp(p) \/ Release(p) \/ Failure(p)
      PROVE  TypeOK'
  <2>1. 0 \in Times
    BY DEF Times
  <2>2. faults' \in 0..MaxFaults
    BY <1>7 DEF GiveUp, Release, Failure, WriteFails, RecoverFails, ReleaseFails,
                Crash, Fault, TypeOK
  <2>3. /\ now' = now
        /\ lockFile' \in {lockFile, NoFile}
    BY <1>7 DEF GiveUp, Release, Failure, WriteFails, RecoverFails, ReleaseFails, Crash
  <2>4. /\ pc' \in [Procs -> PCs]
        /\ startedAt' \in [Procs -> Times]
        /\ acquired' \in [Procs -> Times]
    BY <1>7, <2>1 DEF GiveUp, Release, Failure, WriteFails, RecoverFails, ReleaseFails,
                      Crash, Return, Goto, TypeOK, PCs
  <2> QED
    BY <2>2, <2>3, <2>4 DEF TypeOK
<1>8. CASE UNCHANGED vars
  BY <1>8 DEF vars, TypeOK
<1> QED
  BY <1>1, <1>2, <1>3, <1>4, <1>5, <1>6, <1>7, <1>8 DEF Next, Step

(***************************************************************************)
(* The variables of the lock always have their types.                      *)
(***************************************************************************)
THEOREM TypeCorrect == Spec => []TypeOK
BY TypeInit, TypeStep, PTL DEF Spec

-----------------------------------------------------------------------------
(***************************************************************************)
(* The assumptions under which the lock excludes: no waiter looks at a     *)
(* file that is not filled, no two waiters clear away a leftover together, *)
(* and no caller is late by staleMs.                                       *)
(***************************************************************************)
SafeEnvironment == PromptWrites /\ SoleRecovery /\ HoldMs < StaleMs

\* A caller that owns the lock created the file that is there.
OwnFile ==
  \A p \in Procs : pc[p] \in Owning =>
    /\ lockFile # NoFile
    /\ lockFile.owner = p
    /\ lockFile.staleAt = acquired[p] + StaleMs
    /\ pc[p] # "write" => lockFile.written

\* Nobody is later than HoldMs.
OnTime ==
  \A p \in Procs : pc[p] \in Owning \cup {"open", "recover"} => now <= acquired[p] + HoldMs

\* The file a waiter is about to remove belongs to no live owner.
OnlyLeftovers == \A p \in Procs : pc[p] = "recover" => Abandoned(lockFile)

OneRecovers == \A p, q \in Procs : pc[p] = "recover" /\ pc[q] = "recover" => p = q

StartedBefore == \A p \in Procs : startedAt[p] <= now

(***************************************************************************)
(* The inductive invariant: mutual exclusion is not inductive by itself,   *)
(* it follows from who created the file at the path (OwnFile), which       *)
(* survives a waiter only because what the waiter removes is a leftover    *)
(* (OnlyLeftovers), which it judges right only on time (OnTime).           *)
(***************************************************************************)
IInv == TypeOK /\ OwnFile /\ OnTime /\ OnlyLeftovers /\ OneRecovers /\ StartedBefore

\* The inductive invariant holds before the first call (nobody has touched the lock).
LEMMA IInvInit == Init => IInv
<1> SUFFICES ASSUME Init PROVE IInv
  OBVIOUS
<1>1. TypeOK
  BY TypeInit
<1> QED
  BY <1>1, FileLockAssumption DEF Init, IInv, OwnFile, OnTime, OnlyLeftovers, OneRecovers,
       StartedBefore, Owning

(***************************************************************************)
(* A file that is judged a leftover has no live owner.                     *)
(***************************************************************************)
LEMMA JudgedRight ==
  ASSUME SafeEnvironment, IInv, NEW p \in Procs, JudgeLeftover(p)
  PROVE  Abandoned(lockFile)
<1> DEFINE o == lockFile.owner
<1>1. lockFile # NoFile /\ lockFile \in LockFiles /\ o \in Procs
  BY DEF JudgeLeftover, Leftover, IInv, TypeOK, LockFiles
<1>2. CASE lockFile.written
  <2> SUFFICES ASSUME pc[o] \in Owning PROVE FALSE
    BY <1>1 DEF Abandoned
  <2>1. acquired[o] + StaleMs <= startedAt[p]
    BY <1>1, <1>2 DEF JudgeLeftover, Leftover, IInv, OwnFile
  <2>2. startedAt[p] <= now /\ now <= acquired[o] + HoldMs
    BY <1>1 DEF IInv, StartedBefore, OnTime
  <2>3. /\ acquired[o] \in Nat /\ startedAt[p] \in Nat /\ now \in Nat
        /\ StaleMs \in Nat /\ HoldMs \in Nat /\ HoldMs < StaleMs
    BY <1>1, FileLockAssumption DEF IInv, TypeOK, Times, SafeEnvironment
  <2> QED
    BY <2>1, <2>2, <2>3
<1>3. CASE ~lockFile.written
  <2>1. pc[o] # "write"
    BY <1>1 DEF JudgeLeftover, MayRead, SafeEnvironment
  <2>2. pc[o] \in Owning => lockFile.written
    BY <1>1, <2>1 DEF IInv, OwnFile
  <2> QED
    BY <1>1, <1>3, <2>2 DEF Abandoned
<1> QED
  BY <1>2, <1>3

(***************************************************************************)
(* While somebody owns the lock nobody else does.                          *)
(***************************************************************************)
LEMMA OneOwner ==
  ASSUME OwnFile, NEW p \in Procs, NEW q \in Procs,
         pc[p] \in Owning, pc[q] \in Owning
  PROVE  p = q
BY DEF OwnFile

(***************************************************************************)
(* Every step keeps the invariant in a safe environment.                   *)
(***************************************************************************)
LEMMA IInvStep == SafeEnvironment /\ IInv /\ [Next]_vars => IInv'
<1> SUFFICES ASSUME SafeEnvironment, IInv, [Next]_vars PROVE IInv'
  OBVIOUS
<1>t. TypeOK /\ TypeOK'
  BY TypeStep DEF IInv
<1> USE FileLockAssumption, NoFileAssumption
<1>1. CASE Tick
  <2>1. OnTime'
    BY <1>1, <1>t DEF Tick, OnTime, TypeOK, Times
  <2>2. StartedBefore'
    BY <1>1, <1>t DEF Tick, IInv, StartedBefore, TypeOK, Times
  <2> QED
    BY <1>1, <1>t, <2>1, <2>2
       DEF Tick, IInv, OwnFile, OnlyLeftovers, Abandoned, OneRecovers
<1>2. ASSUME NEW p \in Procs, Start(p) PROVE IInv'
  <2>1. pc' = [pc EXCEPT ![p] = "open"] /\ pc[p] = "idle" /\ UNCHANGED <<now, lockFile>>
    BY <1>2 DEF Start, Goto
  <2>2. OwnFile' /\ OneRecovers'
    BY <1>2, <1>t, <2>1 DEF Start, IInv, OwnFile, OneRecovers, TypeOK, Owning
  <2>3. OnTime' /\ StartedBefore'
    BY <1>2, <1>t, <2>1 DEF Start, IInv, OnTime, StartedBefore, TypeOK, Times, Owning
  <2>4. OnlyLeftovers'
    BY <1>t, <2>1 DEF IInv, OnlyLeftovers, Abandoned, TypeOK, LockFiles, Owning
  <2> QED
    BY <1>t, <2>2, <2>3, <2>4 DEF IInv
<1>3. ASSUME NEW p \in Procs, Create(p) PROVE IInv'
  <2>1. /\ pc' = [pc EXCEPT ![p] = "write"] /\ pc[p] = "open"
        /\ lockFile = NoFile
        /\ lockFile' = [owner |-> p, written |-> FALSE, staleAt |-> acquired[p] + StaleMs]
        /\ UNCHANGED <<now, startedAt, acquired>>
    BY <1>3 DEF Create, Goto
  <2>2. \A q \in Procs : pc[q] \notin Owning /\ pc[q] # "recover"
    BY <2>1 DEF IInv, OwnFile, OnlyLeftovers, Abandoned
  <2>3. lockFile' # NoFile
    <3>1. acquired[p] + StaleMs \in StaleMs..(MaxTime + StaleMs)
      BY <1>t DEF TypeOK, Times
    <3>2. lockFile' \in LockFiles
      BY <2>1, <3>1 DEF LockFiles
    <3> QED
      BY <3>2
  <2>4. OwnFile'
    BY <1>t, <2>1, <2>2, <2>3 DEF OwnFile, TypeOK, Owning
  <2>5. OnTime' /\ StartedBefore'
    BY <1>t, <2>1 DEF IInv, OnTime, StartedBefore, TypeOK, Owning
  <2>6. OnlyLeftovers' /\ OneRecovers'
    BY <1>t, <2>1, <2>2 DEF OnlyLeftovers, OneRecovers, TypeOK
  <2> QED
    BY <1>t, <2>4, <2>5, <2>6 DEF IInv
<1>4. ASSUME NEW p \in Procs, Write(p) PROVE IInv'
  <2>1. /\ pc' = [pc EXCEPT ![p] = "inside"] /\ pc[p] = "write"
        /\ UNCHANGED <<now, startedAt, acquired>>
    BY <1>4 DEF Write, Goto
  <2>2. lockFile # NoFile /\ lockFile \in LockFiles /\ lockFile.owner = p
        /\ lockFile.staleAt = acquired[p] + StaleMs
    BY <1>t, <2>1 DEF IInv, OwnFile, Owning, TypeOK
  <2>3. lockFile' = [lockFile EXCEPT !.written = TRUE]
    BY <1>4, <2>2 DEF Write, Fill
  <2>4. /\ lockFile'.owner = p /\ lockFile'.written
        /\ lockFile'.staleAt = acquired[p] + StaleMs
        /\ lockFile' # NoFile
    BY <1>t, <2>2, <2>3 DEF LockFiles
  <2>5. \A q \in Procs : pc[q] \in Owning => q = p
    BY <2>2 DEF IInv, OwnFile
  <2>6. \A q \in Procs : pc[q] # "recover"
    BY <2>1, <2>2 DEF IInv, OnlyLeftovers, Abandoned, Owning
  <2>7. OwnFile'
    BY <1>t, <2>1, <2>4, <2>5 DEF OwnFile, TypeOK, Owning
  <2>8. OnTime' /\ StartedBefore'
    BY <1>t, <2>1 DEF IInv, OnTime, StartedBefore, TypeOK, Owning
  <2>9. OnlyLeftovers' /\ OneRecovers'
    BY <1>t, <2>1, <2>6 DEF OnlyLeftovers, OneRecovers, TypeOK
  <2> QED
    BY <1>t, <2>7, <2>8, <2>9 DEF IInv
<1>5. ASSUME NEW p \in Procs, Contend(p) \/ Sleep(p) PROVE IInv'
  <2>1. \E label \in {"contend", "sleep"} : pc' = [pc EXCEPT ![p] = label]
    BY <1>5 DEF Contend, Sleep, Goto
  <2>2. pc[p] \in {"open", "contend"} /\ UNCHANGED <<now, lockFile, startedAt, acquired>>
    BY <1>5 DEF Contend, Sleep
  <2> QED
    BY <1>t, <2>1, <2>2 DEF IInv, OwnFile, OnTime, OnlyLeftovers, Abandoned, OneRecovers,
                            StartedBefore, TypeOK, LockFiles, Owning
<1>6. ASSUME NEW p \in Procs, JudgeLeftover(p) PROVE IInv'
  <2>1. /\ pc' = [pc EXCEPT ![p] = "recover"] /\ pc[p] = "contend"
        /\ acquired' = [acquired EXCEPT ![p] = now]
        /\ UNCHANGED <<now, lockFile, startedAt>>
    BY <1>6 DEF JudgeLeftover, Goto
  <2>2. Abandoned(lockFile)
    BY <1>6, JudgedRight
  <2>3. \A q \in Procs : pc[q] # "recover"
    BY <1>6 DEF JudgeLeftover, MayRecover, SafeEnvironment
  <2>4. OwnFile' /\ OneRecovers'
    BY <1>t, <2>1, <2>3 DEF IInv, OwnFile, OneRecovers, TypeOK, Owning
  <2>5. OnTime' /\ StartedBefore'
    BY <1>t, <2>1 DEF IInv, OnTime, StartedBefore, TypeOK, Times, Owning
  <2>6. OnlyLeftovers'
    BY <1>t, <2>1, <2>2 DEF OnlyLeftovers, Abandoned, TypeOK, LockFiles, Owning
  <2> QED
    BY <1>t, <2>4, <2>5, <2>6 DEF IInv
<1>7. ASSUME NEW p \in Procs, Recover(p) PROVE IInv'
  <2>1. /\ pc' = [pc EXCEPT ![p] = "open"] /\ pc[p] = "recover"
        /\ lockFile' = NoFile
        /\ UNCHANGED <<now, startedAt, acquired>>
    BY <1>7 DEF Recover, Goto
  <2>2. \A q \in Procs : pc[q] \notin Owning
    BY <2>1 DEF IInv, OwnFile, OnlyLeftovers, Abandoned
  <2>3. OwnFile' /\ OnlyLeftovers' /\ OneRecovers'
    BY <1>t, <2>1, <2>2 DEF IInv, OwnFile, OnlyLeftovers, OneRecovers, TypeOK, Owning
  <2>4. OnTime' /\ StartedBefore'
    BY <1>t, <2>1 DEF IInv, OnTime, StartedBefore, TypeOK, Owning
  <2> QED
    BY <1>t, <2>3, <2>4 DEF IInv
<1>8. ASSUME NEW p \in Procs, Wake(p) PROVE IInv'
  <2>1. /\ pc' = [pc EXCEPT ![p] = "open"] /\ pc[p] = "sleep"
        /\ acquired' = [acquired EXCEPT ![p] = now]
        /\ UNCHANGED <<now, lockFile, startedAt>>
    BY <1>8 DEF Wake, Goto
  <2>2. OwnFile' /\ OneRecovers'
    BY <1>t, <2>1 DEF IInv, OwnFile, OneRecovers, TypeOK, Owning
  <2>3. OnTime' /\ StartedBefore'
    BY <1>t, <2>1 DEF IInv, OnTime, StartedBefore, TypeOK, Times, Owning
  <2>4. OnlyLeftovers'
    BY <1>t, <2>1 DEF IInv, OnlyLeftovers, Abandoned, TypeOK, LockFiles, Owning
  <2> QED
    BY <1>t, <2>2, <2>3, <2>4 DEF IInv
<1>9. ASSUME NEW p \in Procs, Settle(p) PROVE IInv'
  <2>1. /\ pc' = [pc EXCEPT ![p] = "leave"] /\ pc[p] = "inside"
        /\ UNCHANGED <<now, lockFile, startedAt, acquired>>
    BY <1>9 DEF Settle, Goto
  <2> QED
    BY <1>t, <2>1 DEF IInv, OwnFile, OnTime, OnlyLeftovers, Abandoned, OneRecovers,
                      StartedBefore, TypeOK, LockFiles, Owning
<1>10. ASSUME NEW p \in Procs, Release(p) PROVE IInv'
  <2>1. /\ pc' = [pc EXCEPT ![p] = "idle"] /\ pc[p] = "leave"
        /\ startedAt' = [startedAt EXCEPT ![p] = 0]
        /\ acquired' = [acquired EXCEPT ![p] = 0]
        /\ lockFile' = NoFile
        /\ now' = now
    BY <1>10 DEF Release, Return, Goto
  <2>2. /\ \A q \in Procs : pc[q] \in Owning => q = p
        /\ \A q \in Procs : pc[q] # "recover"
    BY <2>1, OneOwner DEF IInv, OwnFile, OnlyLeftovers, Abandoned, Owning
  <2>3. OwnFile' /\ OnlyLeftovers' /\ OneRecovers'
    BY <1>t, <2>1, <2>2 DEF OwnFile, OnlyLeftovers, OneRecovers, TypeOK, Owning
  <2>4. OnTime' /\ StartedBefore'
    BY <1>t, <2>1 DEF IInv, OnTime, StartedBefore, TypeOK, Times, Owning
  <2> QED
    BY <1>t, <2>3, <2>4 DEF IInv
<1>11. ASSUME NEW p \in Procs, lockFile' = lockFile, now' = now, Return(p) PROVE IInv'
  <2>1. /\ pc' = [pc EXCEPT ![p] = "idle"]
        /\ startedAt' = [startedAt EXCEPT ![p] = 0]
        /\ acquired' = [acquired EXCEPT ![p] = 0]
    BY <1>11 DEF Return, Goto
  <2>2. OwnFile' /\ OneRecovers'
    BY <1>11, <1>t, <2>1 DEF IInv, OwnFile, OneRecovers, TypeOK, Owning
  <2>3. OnTime' /\ StartedBefore'
    BY <1>11, <1>t, <2>1 DEF IInv, OnTime, StartedBefore, TypeOK, Times, Owning
  <2>4. OnlyLeftovers'
    BY <1>11, <1>t, <2>1 DEF IInv, OnlyLeftovers, Abandoned, TypeOK, LockFiles, Owning
  <2> QED
    BY <1>t, <2>2, <2>3, <2>4 DEF IInv
<1>12. ASSUME NEW p \in Procs, RecoverFails(p), Goto(p, "sleep"),
              UNCHANGED <<startedAt, acquired>>
       PROVE  IInv'
  <2>1. pc' = [pc EXCEPT ![p] = "sleep"] /\ UNCHANGED <<now, lockFile, startedAt, acquired>>
    BY <1>12 DEF RecoverFails, Goto
  <2> QED
    BY <1>t, <2>1 DEF IInv, OwnFile, OnTime, OnlyLeftovers, Abandoned, OneRecovers,
                      StartedBefore, TypeOK, LockFiles, Owning
<1>13. CASE UNCHANGED vars
  BY <1>13, <1>t DEF vars, IInv, OwnFile, OnTime, OnlyLeftovers, Abandoned, OneRecovers,
                     StartedBefore
<1>14. ASSUME NEW p \in Procs, GiveUp(p) \/ Failure(p) PROVE IInv'
  <2>1. lockFile' = lockFile /\ now' = now
    BY <1>14 DEF GiveUp, Failure, WriteFails, RecoverFails, ReleaseFails, Crash
  <2>2. \/ Return(p)
        \/ RecoverFails(p) /\ Goto(p, "sleep") /\ UNCHANGED <<startedAt, acquired>>
    BY <1>14 DEF GiveUp, Failure, WriteFails, RecoverFails, ReleaseFails, Crash
  <2> QED
    BY <2>1, <2>2, <1>11, <1>12
<1> QED
  BY <1>1, <1>2, <1>3, <1>4, <1>5, <1>6, <1>7, <1>8, <1>9, <1>10, <1>13, <1>14
     DEF Next, Step

\* In a safe environment the inductive invariant always holds.
LEMMA Invariance ==
  ASSUME SafeEnvironment
  PROVE  Spec => []IInv
<1>1. IInv /\ [Next]_vars => IInv'
  BY IInvStep
<1> QED
  BY <1>1, IInvInit, PTL DEF Spec

(***************************************************************************)
(* Two callbacks never run at the same time.                               *)
(***************************************************************************)
THEOREM Exclusion ==
  ASSUME SafeEnvironment
  PROVE  Spec => []MutualExclusion
<1>1. IInv => MutualExclusion
  BY DEF IInv, OwnFile, MutualExclusion, Owning
<1> QED
  BY <1>1, Invariance, PTL

(***************************************************************************)
(* The lock file of a running callback is never removed.                   *)
(***************************************************************************)
THEOREM FileKept ==
  ASSUME SafeEnvironment
  PROVE  Spec => []HolderKeepsFile
<1>1. IInv => HolderKeepsFile
  BY DEF IInv, OwnFile, HolderKeepsFile, Owning
<1> QED
  BY <1>1, Invariance, PTL

\* Initially the abstract mutex is free, too.
LEMMA LockInit == Init => Lock!Init
BY DEF Init, Lock!Init, Holder

(***************************************************************************)
(* Every step of the protocol enters, leaves or does not touch the         *)
(* abstract lock: a caller enters when its lock file is filled and leaves  *)
(* when its callback has settled or its process has died.                  *)
(***************************************************************************)
LEMMA LockStep ==
  SafeEnvironment /\ IInv /\ IInv' /\ [Next]_vars => [Lock!Next]_Holder
<1> SUFFICES ASSUME SafeEnvironment, IInv, IInv', [Next]_vars
             PROVE  Lock!Next \/ Holder' = Holder
  OBVIOUS
<1>t. TypeOK /\ TypeOK' /\ MutualExclusion /\ MutualExclusion'
  BY DEF IInv, OwnFile, MutualExclusion, Owning
<1>h. \A p \in Procs : (pc[p] = "inside" => Holder = p) /\ (pc'[p] = "inside" => Holder' = p)
  BY <1>t DEF Holder, MutualExclusion
<1>n. /\ (\A p \in Procs : pc[p] # "inside") => Holder = NoFile
      /\ (\A p \in Procs : pc'[p] # "inside") => Holder' = NoFile
  BY DEF Holder
<1>1. ASSUME NEW p \in Procs, Write(p) PROVE Lock!Next
  <2>1. pc[p] = "write" /\ pc'[p] = "inside"
    BY <1>1, <1>t DEF Write, Goto, TypeOK
  <2>2. \A q \in Procs : pc[q] # "inside"
    BY <2>1 DEF IInv, OwnFile, Owning
  <2> QED
    BY <1>h, <1>n, <2>1, <2>2 DEF Lock!Next, Lock!Enter
<1>2. ASSUME NEW p \in Procs, pc[p] = "inside",
             NEW label \in PCs \ {"inside"}, pc' = [pc EXCEPT ![p] = label]
      PROVE  Lock!Next
  <2>1. \A q \in Procs : pc'[q] # "inside"
    BY <1>2, <1>t DEF TypeOK, MutualExclusion
  <2> QED
    BY <1>2, <1>h, <1>n, <2>1 DEF Lock!Next, Lock!Exit
<1>3. ASSUME \A q \in Procs : pc'[q] = "inside" <=> pc[q] = "inside" PROVE Holder' = Holder
  <2>1. CASE \E p \in Procs : pc[p] = "inside"
    BY <1>3, <1>h, <2>1
  <2>2. CASE \A p \in Procs : pc[p] # "inside"
    BY <1>3, <1>n, <2>2
  <2> QED
    BY <2>1, <2>2
<1>4. ASSUME NEW p \in Procs, pc[p] # "inside",
             NEW label \in PCs \ {"inside"}, pc' = [pc EXCEPT ![p] = label]
      PROVE  Holder' = Holder
  <2>1. \A q \in Procs : pc'[q] = "inside" <=> pc[q] = "inside"
    BY <1>4, <1>t DEF TypeOK
  <2> QED
    BY <1>3, <2>1
<1>5. ASSUME NEW p \in Procs, Start(p) \/ Step(p) \/ Failure(p), ~Write(p)
      PROVE  \E label \in PCs \ {"inside"} : pc' = [pc EXCEPT ![p] = label]
  <2>1. \/ Goto(p, "open") \/ Goto(p, "write") \/ Goto(p, "contend") \/ Goto(p, "recover")
        \/ Goto(p, "idle") \/ Goto(p, "sleep") \/ Goto(p, "leave")
    BY <1>5 DEF Start, Step, Failure, Create, Contend, JudgeLeftover, GiveUp, Sleep, Recover,
                Wake, Settle, Release, WriteFails, RecoverFails, ReleaseFails, Crash, Return
  <2> QED
    BY <2>1 DEF Goto, PCs
<1>6. CASE Tick \/ UNCHANGED vars
  BY <1>3, <1>6 DEF Tick, vars
<1>7. ASSUME NEW p \in Procs, Start(p) \/ Step(p) \/ Failure(p)
      PROVE  Lock!Next \/ Holder' = Holder
  BY <1>1, <1>2, <1>4, <1>5, <1>7
<1> QED
  BY <1>6, <1>7 DEF Next

(***************************************************************************)
(* The lock protocol implements the abstract lock.                         *)
(***************************************************************************)
THEOREM Refinement ==
  ASSUME SafeEnvironment
  PROVE  Spec => MutexSpec
<1>1. IInv /\ IInv' /\ [Next]_vars => [Lock!Next]_Holder
  BY LockStep
<1> QED
  BY <1>1, LockInit, Invariance, PTL DEF Spec, MutexSpec, Lock!Spec
=============================================================================
