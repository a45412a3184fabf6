----------------------------- MODULE CallsProofs -----------------------------
(***************************************************************************)
(* Theorems about the components of MCCalls, for any number of calls,      *)
(* users and keys and any bounds: the provider of an integration works     *)
(* once for a key and once more at most for each fault; a circuit breaker  *)
(* that has to be open lets nobody through; a managed resource has one     *)
(* instance at most; a pool of resources implements a semaphore, and loses *)
(* or doubles none of its places.                                          *)
(***************************************************************************)
EXTENDS MCCalls, Integers, FiniteSetTheorems, Sums, TLAPS

\* An instance counts with its own copy of the definition.
LEMMA RunnerCounts == \A S : Runner!Cardinality(S) = Cardinality(S)
BY DEF Runner!Cardinality, Cardinality, Runner!IsFiniteSet, IsFiniteSet

-----------------------------------------------------------------------------
(***************************************************************************)
(* The runner of integrations.                                             *)
(***************************************************************************)
Working == {"execute", "mark", "markFailed"}

\* A call that has started has a request, one that works an attempt, which has its key.
Shape ==
  \A c \in Calls :
    /\ pc[c] # "new" => request[c] # None
    /\ pc[c] \in Working => attempts[c] # None
    /\ attempts[c] # None => pc[c] # "new" /\ attempts[c].key = request[c].key

Blocks(c) == attempts[c] # None /\ attempts[c].status \in {"pending", "succeeded"}

\* The attempt of a call at work still blocks its key.
WorkBlocks == \A c \in Calls : pc[c] \in Working => Blocks(c)

OneBlocks ==
  \A c, d \in Calls : Blocks(c) /\ Blocks(d) /\ attempts[c].key = attempts[d].key => c = d

\* What a provider has done for a call leaves an attempt that was not skipped.
ReturnedMade ==
  \A c \in returned : /\ pc[c] \notin {"new", "begin", "lookup", "execute"}
                      /\ attempts[c] # None /\ attempts[c].status # "skipped"

\* The calls whose provider did its work and whose attempt is marked failed nevertheless.
Spent ==
  {c \in returned : pc[c] = "markFailed" \/ (attempts[c] # None /\ attempts[c].status = "failed")}

Paid == IsFiniteSet(Spent) /\ Cardinality(Spent) <= faults

Sound == WorkBlocks /\ OneBlocks /\ ReturnedMade /\ Paid

(***************************************************************************)
(* The inductive invariant.  That the keys of two runs differ does not     *)
(* follow from their pcs: what keeps a second run out is the attempt of    *)
(* the first, as long as it blocks, and what a provider has done for an    *)
(* attempt that blocks no more was paid for by a fault.                    *)
(***************************************************************************)
RunnerInv ==
  /\ Runner!TypeOK /\ Shape
  /\ marks = 0 => Sound

\* The invariant holds of a repository without attempts.
LEMMA RunnerInit ==
  ASSUME Runner!IntegrationsAssumption
  PROVE  Runner!Init => RunnerInv
<1> SUFFICES ASSUME Runner!Init PROVE RunnerInv
  OBVIOUS
<1>1. Runner!TypeOK /\ Shape
  BY DEF Runner!Init, Runner!IntegrationsAssumption, Runner!TypeOK, Shape, Runner!PCs, Working
<1>2. WorkBlocks /\ OneBlocks /\ ReturnedMade
  BY DEF Runner!Init, WorkBlocks, OneBlocks, ReturnedMade, Blocks, Working
<1>3. Spent = {}
  BY DEF Runner!Init, Spent
<1>4. Paid
  BY <1>3, FS_EmptySet DEF Runner!Init, Paid
<1> QED
  BY <1>1, <1>2, <1>4 DEF RunnerInv, Sound

\* A marked attempt is an attempt of the same key.
LEMMA MarkedType ==
  ASSUME Runner!IntegrationsAssumption, NEW a \in Runner!Attempt, NEW x \in Calls \cup {None}
  PROVE  /\ Runner!Succeeded(a, x) \in Runner!Attempt /\ Runner!Succeeded(a, x) # None
         /\ Runner!Failed(a) \in Runner!Attempt /\ Runner!Failed(a) # None
         /\ Runner!Succeeded(a, x).key = a.key /\ Runner!Succeeded(a, x).status = "succeeded"
         /\ Runner!Failed(a).key = a.key /\ Runner!Failed(a).status = "failed"
BY DEF Runner!IntegrationsAssumption, Runner!Succeeded, Runner!Failed, Runner!Attempt,
       Runner!Statuses

(***************************************************************************)
(* A step of a call that moves its pc and writes its own attempt, of its   *)
(* own key, keeps the types and the shape.                                 *)
(***************************************************************************)
LEMMA WriteKeeps ==
  ASSUME Runner!IntegrationsAssumption, Runner!TypeOK, Shape,
         NEW c \in Calls, NEW a \in Runner!Attempt, NEW to \in Runner!PCs,
         request[c] # None, a.key = request[c].key, to # "new",
         pc' = [pc EXCEPT ![c] = to], attempts' = [attempts EXCEPT ![c] = a],
         UNCHANGED <<request, returned, marks>>, faults' \in 0..MaxFaults
  PROVE  Runner!TypeOK' /\ Shape'
<1>1. a # None
  BY DEF Runner!IntegrationsAssumption
<1>2. Runner!TypeOK'
  BY DEF Runner!TypeOK
<1>3. Shape'
  BY <1>1 DEF Runner!TypeOK, Shape
<1> QED
  BY <1>2, <1>3

\* So does a step that moves a pc only.
LEMMA MoveKeeps ==
  ASSUME Runner!IntegrationsAssumption, Runner!TypeOK, Shape,
         NEW c \in Calls, NEW to \in Runner!PCs,
         request[c] # None, to # "new", to \in Working => attempts[c] # None,
         pc' = [pc EXCEPT ![c] = to], UNCHANGED <<attempts, request, marks>>,
         returned' \subseteq Calls, faults' \in 0..MaxFaults
  PROVE  Runner!TypeOK' /\ Shape'
BY DEF Runner!TypeOK, Shape

(***************************************************************************)
(* The attempt that createPending and createSkipped save for a call.       *)
(***************************************************************************)
LEMMA NewIs ==
  ASSUME Runner!IntegrationsAssumption, Runner!TypeOK, NEW c \in Calls, request[c] # None,
         NEW status \in Runner!Statuses, NEW x \in Calls \cup {None}, Runner!New(c, status, x)
  PROVE  \E a \in Runner!Attempt : /\ attempts' = [attempts EXCEPT ![c] = a]
                            /\ a.key = request[c].key /\ a.status = status
<1>1. request[c] \in Runner!Requests
  BY DEF Runner!TypeOK
<1>2. [key |-> request[c].key, hash |-> request[c].hash, status |-> status, externalId |-> x]
        \in Runner!Attempt
  BY <1>1 DEF Runner!Requests, Runner!Attempt
<1> QED
  BY <1>2 DEF Runner!New

\* Every step keeps the types and the shape.
LEMMA RunnerTypeStep ==
  ASSUME Runner!IntegrationsAssumption
  PROVE  Runner!TypeOK /\ Shape /\ [Runner!Next]_Runner!vars => Runner!TypeOK' /\ Shape'
<1> SUFFICES ASSUME Runner!TypeOK, Shape, [Runner!Next]_Runner!vars PROVE Runner!TypeOK' /\ Shape'
  OBVIOUS
<1>f. \A c \in Calls : /\ faults \in 0..MaxFaults
                       /\ Runner!Fault => faults' \in 0..MaxFaults
  BY DEF Runner!TypeOK, Runner!Fault, Runner!IntegrationsAssumption
<1>1. ASSUME NEW c \in Calls, NEW op \in {"run", "create"}, NEW k \in Keys,
             NEW h \in Hashes \cup {None}, Runner!Start(c, op, k, h)
      PROVE  Runner!TypeOK' /\ Shape'
  <2> DEFINE r == [op |-> op, key |-> k, hash |-> h]
  <2>1. r \in Runner!Requests /\ r # None
    BY DEF Runner!Requests, Runner!IntegrationsAssumption
  <2> HIDE DEF r
  <2>2. /\ pc[c] = "new" /\ pc' = [pc EXCEPT ![c] = "begin"]
        /\ request' = [request EXCEPT ![c] = r]
        /\ UNCHANGED <<attempts, returned, faults, marks>>
    BY <1>1 DEF Runner!Start, Runner!Goto, r
  <2>3. Runner!TypeOK'
    BY <2>1, <2>2 DEF Runner!TypeOK, Runner!PCs
  <2>4. Shape'
    BY <2>1, <2>2 DEF Runner!TypeOK, Shape, Working
  <2> QED
    BY <2>3, <2>4
<1>2. ASSUME NEW c \in Calls, Runner!CreatePending(c) PROVE Runner!TypeOK' /\ Shape'
  <2>1. request[c] # None
    BY <1>2 DEF Runner!CreatePending, Shape
  <2>2. PICK a \in Runner!Attempt :
          attempts' = [attempts EXCEPT ![c] = a] /\ a.key = request[c].key
    BY <1>2, <2>1, NewIs DEF Runner!CreatePending, Runner!Statuses
  <2>3. PICK to \in {"execute", "created"} : pc' = [pc EXCEPT ![c] = to]
    BY <1>2 DEF Runner!CreatePending, Runner!Goto
  <2> QED
    BY <1>2, <1>f, <2>1, <2>2, <2>3, WriteKeeps DEF Runner!CreatePending, Runner!PCs
<1>3. ASSUME NEW c \in Calls, Runner!CreateSkipped(c) PROVE Runner!TypeOK' /\ Shape'
  <2>1. request[c] # None
    BY <1>3 DEF Runner!CreateSkipped, Runner!Goto, Shape
  <2>2. PICK d \in Runner!Blocking(request[c].key) : /\ attempts[d].status = "succeeded"
                                              /\ Runner!New(c, "skipped", attempts[d].externalId)
    BY <1>3 DEF Runner!CreateSkipped
  <2>3. d \in Calls /\ attempts[d] # None
    BY DEF Runner!Blocking, Runner!Having
  <2>4. attempts[d].externalId \in Calls \cup {None}
    BY <2>3 DEF Runner!TypeOK, Runner!Attempt
  <2>5. PICK a \in Runner!Attempt :
          attempts' = [attempts EXCEPT ![c] = a] /\ a.key = request[c].key
    BY <2>1, <2>2, <2>4, NewIs DEF Runner!Statuses
  <2> QED
    BY <1>3, <1>f, <2>1, <2>5, WriteKeeps DEF Runner!CreateSkipped, Runner!Goto, Runner!PCs
<1>4. ASSUME NEW c \in Calls, Runner!Refuse(c) \/ Runner!InProgress(c) \/ Runner!LookUp(c)
      PROVE  Runner!TypeOK' /\ Shape'
  <2>1. PICK to \in {"refused", "lookup", "in_progress"} : pc' = [pc EXCEPT ![c] = to]
    BY <1>4 DEF Runner!Refuse, Runner!InProgress, Runner!LookUp, Runner!Goto
  <2>2. pc[c] # "new" /\ UNCHANGED <<attempts, request, returned, faults, marks>>
    BY <1>4 DEF Runner!Refuse, Runner!InProgress, Runner!LookUp, Runner!Goto
  <2>3. returned' \subseteq Calls
    BY <2>2 DEF Runner!TypeOK
  <2> QED
    BY <1>f, <2>1, <2>2, <2>3, MoveKeeps DEF Shape, Runner!PCs, Working
<1>5. ASSUME NEW c \in Calls, Runner!Execute(c) PROVE Runner!TypeOK' /\ Shape'
  <2>1. PICK to \in {"mark", "markFailed"} : pc' = [pc EXCEPT ![c] = to]
    BY <1>5 DEF Runner!Execute, Runner!Goto
  <2>2. /\ pc[c] = "execute" /\ returned' \subseteq Calls
        /\ UNCHANGED <<attempts, request, faults, marks>>
    BY <1>5 DEF Runner!Execute, Runner!Goto, Runner!TypeOK
  <2> QED
    BY <1>f, <2>1, <2>2, MoveKeeps DEF Shape, Runner!PCs, Working
<1>6. ASSUME NEW c \in Calls, pc[c] \in Working, NEW to \in Runner!PCs, to # "new",
             pc' = [pc EXCEPT ![c] = to],
             \/ UNCHANGED attempts
             \/ attempts' = [attempts EXCEPT ![c] = Runner!Succeeded(@, c)]
             \/ attempts' = [attempts EXCEPT ![c] = Runner!Failed(@)],
             UNCHANGED <<request, returned, marks>>, faults' \in 0..MaxFaults
      PROVE  Runner!TypeOK' /\ Shape'
  <2>1. /\ attempts[c] \in Runner!Attempt /\ request[c] # None
        /\ attempts[c].key = request[c].key /\ attempts[c] # None
    BY <1>6 DEF Shape, Runner!TypeOK, Working
  <2>2. CASE UNCHANGED attempts
    <3>1. returned' \subseteq Calls
      BY <1>6 DEF Runner!TypeOK
    <3> QED
      BY <1>6, <2>1, <2>2, <3>1, MoveKeeps
  <2>3. CASE attempts' = [attempts EXCEPT ![c] = Runner!Succeeded(@, c)]
    <3>1. Runner!Succeeded(attempts[c], c) \in Runner!Attempt /\ Runner!Succeeded(attempts[c],
          c).key = request[c].key
      BY <2>1, MarkedType
    <3> QED
      BY <1>6, <2>1, <2>3, <3>1, WriteKeeps
  <2>4. CASE attempts' = [attempts EXCEPT ![c] = Runner!Failed(@)]
    <3>1. Runner!Failed(attempts[c]) \in Runner!Attempt
          /\ Runner!Failed(attempts[c]).key = request[c].key
      BY <2>1, MarkedType
    <3> QED
      BY <1>6, <2>1, <2>4, <3>1, WriteKeeps
  <2> QED
    BY <1>6, <2>2, <2>3, <2>4
<1>7. ASSUME NEW c \in Calls, Runner!MarkSucceeded(c) \/ Runner!MarkThrows(c)
             \/ Runner!MarkFailed(c)
      PROVE  Runner!TypeOK' /\ Shape'
  <2>1. CASE Runner!MarkSucceeded(c)
    BY <1>6, <1>f, <2>1 DEF Runner!MarkSucceeded, Runner!Goto, Runner!PCs, Working
  <2>2. CASE Runner!MarkThrows(c)
    BY <1>6, <1>f, <2>2 DEF Runner!MarkThrows, Runner!Goto, Runner!PCs, Working
  <2>3. CASE Runner!MarkFailed(c)
    BY <1>6, <1>f, <2>3 DEF Runner!MarkFailed, Runner!Goto, Runner!PCs, Working
  <2> QED
    BY <1>7, <2>1, <2>2, <2>3
<1>8. ASSUME NEW c \in Calls, Runner!Leaves(c) PROVE Runner!TypeOK' /\ Shape'
  BY <1>6, <1>8, <1>f DEF Runner!Leaves, Runner!Goto, Runner!PCs, Working
<1>9. ASSUME NEW c \in Calls, Runner!MarkByHand(c) PROVE Runner!TypeOK' /\ Shape'
  <2>1. attempts[c] \in Runner!Attempt /\ marks' \in 0..MaxMarks
    BY <1>9 DEF Runner!MarkByHand, Runner!TypeOK, Runner!IntegrationsAssumption
  <2>2. PICK a \in {Runner!Succeeded(attempts[c], None), Runner!Failed(attempts[c])} :
          attempts' = [attempts EXCEPT ![c] = a]
    BY <1>9 DEF Runner!MarkByHand
  <2>3. a \in Runner!Attempt /\ a # None /\ a.key = attempts[c].key
    BY <2>1, <2>2, MarkedType
  <2>4. attempts[c] # None /\ UNCHANGED <<pc, request, returned, faults>>
    BY <1>9 DEF Runner!MarkByHand
  <2>5. Runner!TypeOK'
    BY <2>1, <2>2, <2>3, <2>4 DEF Runner!TypeOK
  <2>6. Shape'
    BY <2>2, <2>3, <2>4 DEF Runner!TypeOK, Shape
  <2> QED
    BY <2>5, <2>6
<1>10. CASE UNCHANGED Runner!vars
  BY <1>10 DEF Runner!vars, Runner!TypeOK, Shape
<1> QED
  BY <1>1, <1>2, <1>3, <1>4, <1>5, <1>7, <1>8, <1>9, <1>10 DEF Runner!Next

-----------------------------------------------------------------------------
\* A key that nothing blocks has no attempt that is pending or has succeeded.
LEMMA NothingBlocks ==
  ASSUME NEW k, Runner!Blocking(k) = {}, NEW d \in Calls, Blocks(d)
  PROVE  attempts[d].key # k
BY DEF Runner!Blocking, Runner!Having, Blocks

\* A set that loses members, or gains one for a fault, is still paid for.
LEMMA StillPaid ==
  ASSUME Runner!IntegrationsAssumption, Runner!TypeOK, Paid, NEW c,
         \/ Spent' \subseteq Spent /\ faults' = faults
         \/ Spent' \subseteq Spent \cup {c} /\ faults' = faults + 1
  PROVE  Paid'
<1>1. IsFiniteSet(Spent) /\ Cardinality(Spent) <= faults /\ faults \in Nat
  BY DEF Paid, Runner!TypeOK, Runner!IntegrationsAssumption
<1>2. IsFiniteSet(Spent \cup {c}) /\ Cardinality(Spent \cup {c}) <= Cardinality(Spent) + 1
  <2>1. Cardinality(Spent) \in Nat
    BY <1>1, FS_CardinalityType
  <2> QED
    BY <1>1, <2>1, FS_AddElement
<1>3. CASE Spent' \subseteq Spent /\ faults' = faults
  BY <1>1, <1>3, FS_Subset, FS_CardinalityType DEF Paid
<1>4. CASE Spent' \subseteq Spent \cup {c} /\ faults' = faults + 1
  BY <1>1, <1>2, <1>4, FS_Subset, FS_CardinalityType DEF Paid
<1> QED
  BY <1>3, <1>4

(***************************************************************************)
(* A call moves its pc and leaves the repository alone.                    *)
(***************************************************************************)
LEMMA MovesSound ==
  ASSUME Runner!IntegrationsAssumption, Runner!TypeOK, Shape, Sound, NEW c \in Calls,
         NEW to \in Runner!PCs,
         pc' = [pc EXCEPT ![c] = to], UNCHANGED <<attempts, returned>>,
         to \in Working => pc[c] \in Working,
         c \in returned => to \notin {"new", "begin", "lookup", "execute"},
         faults' \in {faults, faults + 1},
         to = "markFailed" /\ c \in returned => faults' = faults + 1
  PROVE  Sound'
<1>1. \A d \in Calls : Blocks(d)' = Blocks(d)
  BY DEF Blocks
<1>2. \A d \in Calls : pc'[d] = IF d = c THEN to ELSE pc[d]
  BY DEF Runner!TypeOK
<1>3. WorkBlocks'
  BY <1>1, <1>2 DEF Sound, WorkBlocks
<1>4. OneBlocks'
  BY <1>1 DEF Sound, OneBlocks
<1>5. ReturnedMade'
  BY <1>2 DEF Sound, ReturnedMade, Runner!TypeOK
<1>6. Paid'
  <2>1. Spent' \subseteq Spent \cup {c}
    BY <1>2 DEF Spent, Runner!TypeOK
  <2>2. to # "markFailed" \/ c \notin returned => Spent' \subseteq Spent
    BY <1>2 DEF Spent, Runner!TypeOK
  <2>3. \/ Spent' \subseteq Spent /\ faults' = faults
        \/ Spent' \subseteq Spent \cup {c} /\ faults' = faults + 1
    BY <2>1, <2>2
  <2> QED
    BY <2>3, StillPaid DEF Sound
<1> QED
  BY <1>3, <1>4, <1>5, <1>6 DEF Sound

(***************************************************************************)
(* A call saves an attempt for a key that nothing blocks, or a skipped one.*)
(***************************************************************************)
LEMMA CreatesSound ==
  ASSUME Runner!IntegrationsAssumption, Runner!TypeOK, Shape, Sound, NEW c \in Calls,
         pc[c] = "begin",
         NEW a \in Runner!Attempt, attempts' = [attempts EXCEPT ![c] = a], a.key = request[c].key,
         NEW to \in Runner!PCs, pc' = [pc EXCEPT ![c] = to], to \in Working => to = "execute",
         \/ a.status = "skipped" /\ to \notin Working
         \/ a.status = "pending" /\ Runner!Blocking(request[c].key) = {},
         UNCHANGED <<returned, faults>>
  PROVE  Sound'
<1>1. a # None /\ c \notin returned
  BY DEF Runner!IntegrationsAssumption, Sound, ReturnedMade
<1>2. \A d \in Calls \ {c} : pc'[d] = pc[d] /\ attempts'[d] = attempts[d]
  BY DEF Runner!TypeOK
<1>3. pc'[c] = to /\ attempts'[c] = a
  BY DEF Runner!TypeOK
<1>4. \A d \in Calls \ {c} : Blocks(d)' = Blocks(d)
  BY <1>2 DEF Blocks
<1>5. Blocks(c)' = (a.status = "pending")
  BY <1>1, <1>3 DEF Blocks
<1>6. WorkBlocks'
  <2> SUFFICES ASSUME NEW d \in Calls, pc'[d] \in Working PROVE Blocks(d)'
    BY DEF WorkBlocks
  <2>1. CASE d = c
    BY <1>3, <1>5, <2>1
  <2>2. CASE d # c
    BY <1>2, <1>4, <2>2 DEF Sound, WorkBlocks
  <2> QED
    BY <2>1, <2>2
<1>7. OneBlocks'
  <2>1. CASE a.status = "skipped"
    BY <1>2, <1>4, <1>5, <2>1 DEF Sound, OneBlocks
  <2>2. CASE Runner!Blocking(request[c].key) = {}
    <3>1. \A d \in Calls : Blocks(d) => attempts[d].key # a.key
      BY <2>2, NothingBlocks
    <3> QED
      BY <1>2, <1>3, <1>4, <3>1 DEF Sound, OneBlocks
  <2> QED
    BY <2>1, <2>2
<1>8. ReturnedMade'
  BY <1>1, <1>2 DEF Sound, ReturnedMade, Runner!TypeOK
<1>9. Paid'
  <2>1. Spent' \subseteq Spent
    BY <1>1, <1>2 DEF Spent, Runner!TypeOK
  <2> QED
    BY <2>1, StillPaid DEF Sound
<1> QED
  BY <1>6, <1>7, <1>8, <1>9 DEF Sound

(***************************************************************************)
(* A call at work marks its own attempt.  One that goes from mark to       *)
(* markFailed takes a fault; one that marks an attempt failed comes from   *)
(* there, so that what the provider has done was paid for already.         *)
(***************************************************************************)
LEMMA MarksSound ==
  ASSUME Runner!IntegrationsAssumption, Runner!TypeOK, Shape, Sound, NEW c \in Calls,
         pc[c] \in Working,
         NEW a \in Runner!Attempt, attempts' = [attempts EXCEPT ![c] = a], a.key = attempts[c].key,
         NEW to \in Runner!PCs, pc' = [pc EXCEPT ![c] = to],
         to \notin {"new", "begin", "lookup", "execute", "mark"},
         \/ a.status = "succeeded" /\ to # "markFailed" /\ faults' = faults
         \/ a.status = "succeeded" /\ to = "markFailed" /\ faults' = faults + 1
         \/ a.status = "failed" /\ to # "markFailed" /\ pc[c] = "markFailed" /\ faults' = faults,
         UNCHANGED returned
  PROVE  Sound'
<1>1. a # None /\ Blocks(c)
  BY DEF Runner!IntegrationsAssumption, Sound, WorkBlocks
<1>2. \A d \in Calls \ {c} : pc'[d] = pc[d] /\ attempts'[d] = attempts[d]
  BY DEF Runner!TypeOK
<1>3. pc'[c] = to /\ attempts'[c] = a
  BY DEF Runner!TypeOK
<1>4. \A d \in Calls : /\ Blocks(d)' => Blocks(d)
                       /\ attempts'[d] # None => attempts'[d].key = attempts[d].key
                       /\ d # c => Blocks(d)' = Blocks(d)
  BY <1>1, <1>2, <1>3 DEF Blocks
<1>5. WorkBlocks'
  <2> SUFFICES ASSUME NEW d \in Calls, pc'[d] \in Working PROVE Blocks(d)'
    BY DEF WorkBlocks
  <2>1. CASE d = c
    BY <1>1, <1>3, <2>1 DEF Blocks, Working
  <2>2. CASE d # c
    BY <1>2, <1>4, <2>2 DEF Sound, WorkBlocks
  <2> QED
    BY <2>1, <2>2
<1>6. OneBlocks'
  BY <1>4 DEF Sound, OneBlocks, Blocks
<1>7. ReturnedMade'
  BY <1>1, <1>2, <1>3 DEF Sound, ReturnedMade, Runner!TypeOK
<1>8. Paid'
  <2>1. Spent' \subseteq Spent \cup {c}
    BY <1>2 DEF Spent, Runner!TypeOK
  <2>2. a.status = "succeeded" /\ to # "markFailed" => Spent' \subseteq Spent
    BY <1>2, <1>3 DEF Spent, Runner!TypeOK
  <2>3. pc[c] = "markFailed" => Spent' \subseteq Spent
    BY <1>2, <1>3 DEF Spent, Runner!TypeOK
  <2>4. \/ Spent' \subseteq Spent /\ faults' = faults
        \/ Spent' \subseteq Spent \cup {c} /\ faults' = faults + 1
    BY <2>1, <2>2, <2>3
  <2> QED
    BY <2>4, StillPaid DEF Sound
<1> QED
  BY <1>5, <1>6, <1>7, <1>8 DEF Sound

\* A step that is not a mark by hand keeps what holds without such marks.
LEMMA SoundStep ==
  ASSUME Runner!IntegrationsAssumption, Runner!TypeOK, Shape, Sound, [Runner!Next]_Runner!vars,
         \A c \in Calls : ~Runner!MarkByHand(c)
  PROVE  Sound'
<1>t. faults \in Nat
  BY DEF Runner!TypeOK, Runner!IntegrationsAssumption
<1>1. ASSUME NEW c \in Calls, NEW op \in {"run", "create"}, NEW k \in Keys,
             NEW h \in Hashes \cup {None}, Runner!Start(c, op, k, h)
      PROVE  Sound'
  BY <1>1, MovesSound DEF Runner!Start, Runner!Goto, Runner!PCs, Working, Sound, ReturnedMade
<1>2. ASSUME NEW c \in Calls, Runner!CreatePending(c) PROVE Sound'
  <2>1. request[c] # None
    BY <1>2 DEF Runner!CreatePending, Shape
  <2>2. PICK a \in Runner!Attempt : /\ attempts' = [attempts EXCEPT ![c] = a]
                             /\ a.key = request[c].key /\ a.status = "pending"
    BY <1>2, <2>1, NewIs DEF Runner!CreatePending, Runner!Statuses
  <2>3. PICK to \in {"execute", "created"} : pc' = [pc EXCEPT ![c] = to]
    BY <1>2 DEF Runner!CreatePending, Runner!Goto
  <2>4. pc[c] = "begin" /\ Runner!Blocking(request[c].key) = {} /\ UNCHANGED <<returned, faults>>
    BY <1>2 DEF Runner!CreatePending
  <2> QED
    BY <2>2, <2>3, <2>4, CreatesSound DEF Runner!PCs, Working
<1>3. ASSUME NEW c \in Calls, Runner!CreateSkipped(c) PROVE Sound'
  <2>1. pc[c] = "begin" /\ pc' = [pc EXCEPT ![c] = "skipped"] /\ UNCHANGED <<returned, faults>>
    BY <1>3 DEF Runner!CreateSkipped, Runner!Goto
  <2>2. request[c] # None
    BY <2>1 DEF Shape
  <2>3. PICK d \in Runner!Blocking(request[c].key) : Runner!New(c, "skipped",
        attempts[d].externalId)
    BY <1>3 DEF Runner!CreateSkipped
  <2>4. attempts[d].externalId \in Calls \cup {None}
    BY DEF Runner!Blocking, Runner!Having, Runner!TypeOK, Runner!Attempt
  <2>5. PICK a \in Runner!Attempt : /\ attempts' = [attempts EXCEPT ![c] = a]
                             /\ a.key = request[c].key /\ a.status = "skipped"
    BY <2>2, <2>3, <2>4, NewIs DEF Runner!Statuses
  <2> QED
    BY <2>1, <2>5, CreatesSound DEF Runner!PCs, Working
<1>4. ASSUME NEW c \in Calls, Runner!Refuse(c) \/ Runner!InProgress(c)
             \/ Runner!LookUp(c) PROVE Sound'
  <2>1. /\ pc[c] \in {"begin", "lookup"}
        /\ \E to \in {"refused", "lookup", "in_progress"} : pc' = [pc EXCEPT ![c] = to]
        /\ UNCHANGED <<attempts, returned, faults>>
    BY <1>4 DEF Runner!Refuse, Runner!InProgress, Runner!LookUp, Runner!Goto
  <2>2. c \notin returned
    BY <2>1 DEF Sound, ReturnedMade
  <2> QED
    BY <2>1, <2>2, MovesSound DEF Runner!PCs, Working
<1>5. ASSUME NEW c \in Calls, Runner!Execute(c) PROVE Sound'
  <2>1. pc[c] = "execute" /\ c \notin returned
    BY <1>5 DEF Runner!Execute, Runner!Goto, Sound, ReturnedMade
  <2>2. CASE pc' = [pc EXCEPT ![c] = "markFailed"] /\ UNCHANGED returned
    BY <1>5, <2>1, <2>2, MovesSound DEF Runner!Execute, Runner!PCs, Working
  <2>3. CASE pc' = [pc EXCEPT ![c] = "mark"] /\ returned' = returned \cup {c}
    <3>1. /\ attempts' = attempts /\ faults' = faults
          /\ pc'[c] = "mark"
          /\ \A d \in Calls \ {c} : pc'[d] = pc[d]
      BY <1>5, <2>3 DEF Runner!Execute, Runner!TypeOK
    <3>2. Blocks(c) /\ \A d \in Calls : Blocks(d)' = Blocks(d)
      BY <2>1, <3>1 DEF Sound, WorkBlocks, Blocks, Working
    <3>3. WorkBlocks' /\ OneBlocks'
      BY <3>1, <3>2 DEF Sound, WorkBlocks, OneBlocks
    <3>4. ReturnedMade'
      BY <2>3, <3>1, <3>2 DEF Sound, ReturnedMade, Blocks, Runner!TypeOK
    <3>5. Spent' \subseteq Spent
      BY <2>3, <3>1, <3>2 DEF Spent, Blocks, Runner!TypeOK
    <3> QED
      BY <3>1, <3>3, <3>4, <3>5, StillPaid DEF Sound
  <2> QED
    BY <1>5, <2>2, <2>3 DEF Runner!Execute, Runner!Goto
<1>6. ASSUME NEW c \in Calls, Runner!MarkSucceeded(c) \/ Runner!MarkFailed(c)
             \/ Runner!MarkThrows(c) PROVE Sound'
  <2>1. pc[c] \in Working /\ attempts[c] \in Runner!Attempt /\ UNCHANGED returned
    BY <1>6 DEF Runner!MarkSucceeded, Runner!MarkFailed, Runner!MarkThrows, Runner!Goto, Working,
       Shape, Runner!TypeOK
  <2> DEFINE s == Runner!Succeeded(attempts[c], c)
             f == Runner!Failed(attempts[c])
  <2>2. /\ s \in Runner!Attempt /\ s.key = attempts[c].key /\ s.status = "succeeded"
        /\ f \in Runner!Attempt /\ f.key = attempts[c].key /\ f.status = "failed"
    BY <2>1, MarkedType
  <2>3. CASE Runner!MarkSucceeded(c)
    <3>1. /\ attempts' = [attempts EXCEPT ![c] = s] /\ faults' = faults
          /\ pc' = [pc EXCEPT ![c] = "succeeded"]
      BY <2>3 DEF Runner!MarkSucceeded, Runner!Goto
    <3> HIDE DEF s
    <3> QED
      BY <2>1, <2>2, <3>1, MarksSound DEF Runner!PCs
  <2>4. CASE Runner!MarkFailed(c)
    <3>1. /\ attempts' = [attempts EXCEPT ![c] = f] /\ faults' = faults
          /\ pc' = [pc EXCEPT ![c] = "failed"] /\ pc[c] = "markFailed"
      BY <2>4 DEF Runner!MarkFailed, Runner!Goto
    <3> HIDE DEF f
    <3> QED
      BY <2>1, <2>2, <3>1, MarksSound DEF Runner!PCs
  <2>5. CASE Runner!MarkThrows(c)
    <3>1. /\ attempts' = [attempts EXCEPT ![c] = s] \/ UNCHANGED attempts
          /\ pc' = [pc EXCEPT ![c] = "markFailed"] /\ faults' = faults + 1
      BY <2>5 DEF Runner!MarkThrows, Runner!Goto, Runner!Fault
    <3>2. CASE UNCHANGED attempts
      <4>1. UNCHANGED <<attempts, returned>>
        BY <2>1, <3>2
      <4>2. /\ \E to \in {"markFailed"} : pc' = [pc EXCEPT ![c] = to]
            /\ faults' = faults + 1
        BY <3>1
      <4>3. pc[c] \in Working
        BY <2>1
      <4> HIDE DEF s, f
      <4> QED
        BY <4>1, <4>2, <4>3, MovesSound DEF Runner!PCs, Working
    <3>3. CASE attempts' = [attempts EXCEPT ![c] = s]
      <4> HIDE DEF s
      <4> QED
        BY <2>1, <2>2, <3>1, <3>3, MarksSound DEF Runner!PCs
    <3> QED
      BY <3>1, <3>2, <3>3
  <2> QED
    BY <1>6, <2>3, <2>4, <2>5
<1>7. ASSUME NEW c \in Calls, Runner!Leaves(c) PROVE Sound'
  <2>1. /\ \E to \in {"threw", "crashed"} : pc' = [pc EXCEPT ![c] = to]
        /\ faults' = faults + 1 /\ UNCHANGED <<attempts, returned>>
    BY <1>7 DEF Runner!Leaves, Runner!Goto, Runner!Fault
  <2> QED
    BY <2>1, MovesSound DEF Runner!PCs, Working
<1>8. CASE UNCHANGED Runner!vars
  <2>1. UNCHANGED <<attempts, pc, returned, faults>>
    BY <1>8 DEF Runner!vars
  <2> QED
    BY <2>1 DEF Sound, WorkBlocks, OneBlocks, ReturnedMade, Paid, Spent, Blocks
<1> QED
  BY <1>1, <1>2, <1>3, <1>4, <1>5, <1>6, <1>7, <1>8 DEF Runner!Next

\* The invariant is inductive: a mark by hand is counted and never forgotten.
LEMMA RunnerStep ==
  ASSUME Runner!IntegrationsAssumption
  PROVE  RunnerInv /\ [Runner!Next]_Runner!vars => RunnerInv'
<1> SUFFICES ASSUME RunnerInv, [Runner!Next]_Runner!vars PROVE RunnerInv'
  OBVIOUS
<1>1. Runner!TypeOK' /\ Shape'
  BY RunnerTypeStep DEF RunnerInv
<1>2. ASSUME marks' = 0 PROVE Sound'
  <2>1. marks \in Nat
    BY DEF RunnerInv, Runner!TypeOK, Runner!IntegrationsAssumption
  <2>2. \A c \in Calls : ~Runner!MarkByHand(c)
    BY <1>2, <2>1 DEF Runner!MarkByHand
  <2>3. marks = 0
    BY <1>2, <2>2
       DEF Runner!Next, Runner!vars, Runner!Start, Runner!CreatePending, Runner!CreateSkipped,
       Runner!Refuse, Runner!InProgress, Runner!LookUp, Runner!Execute,
           Runner!MarkSucceeded, Runner!MarkThrows, Runner!MarkFailed, Runner!Leaves
  <2> QED
    BY <2>2, <2>3, SoundStep DEF RunnerInv
<1> QED
  BY <1>1, <1>2 DEF RunnerInv

(***************************************************************************)
(* What the invariant says of a key: its running calls all block it, and   *)
(* a call whose provider did its work blocks it or is spent.               *)
(***************************************************************************)
LEMMA InvOnce ==
  ASSUME Runner!IntegrationsAssumption
  PROVE  RunnerInv => Runner!ExecutedOnce
<1> SUFFICES ASSUME RunnerInv, marks = 0, NEW k \in Keys
             PROVE  Cardinality(Runner!Running(k)) <= 1 /\ Cardinality(Runner!Done(k)) <= 1 + faults
  BY RunnerCounts DEF Runner!ExecutedOnce
<1>1. Sound /\ Shape /\ Runner!TypeOK
  BY DEF RunnerInv
<1> DEFINE blockers == {c \in Calls : Blocks(c) /\ request[c].key = k}
<1>2. \A c, d \in blockers : c = d
  BY <1>1 DEF Sound, OneBlocks, Shape, Blocks
<1>3. IsFiniteSet(blockers) /\ Cardinality(blockers) <= 1
  <2>1. CASE blockers = {}
    BY <2>1, FS_EmptySet
  <2>2. CASE blockers # {}
    <3>1. PICK c : blockers = {c}
      BY <1>2, <2>2
    <3> QED
      <4>1. IsFiniteSet({c}) /\ Cardinality({c}) = 1
        BY FS_Singleton
      <4> HIDE DEF blockers
      <4> QED
        BY <3>1, <4>1
  <2> QED
    BY <2>1, <2>2
<1>4. Runner!Running(k) \subseteq blockers
  BY <1>1 DEF Runner!Running, Sound, WorkBlocks, Working
<1>5. Runner!Done(k) \subseteq Spent \cup blockers
  <2> SUFFICES ASSUME NEW c \in returned, request[c].key = k, ~Blocks(c) PROVE c \in Spent
    BY <1>1 DEF Runner!Done, Runner!TypeOK
  <2>1. attempts[c] # None /\ attempts[c].status # "skipped"
        /\ attempts[c].status \in Runner!Statuses
    BY <1>1 DEF Sound, ReturnedMade, Runner!TypeOK, Runner!Attempt
  <2> QED
    BY <2>1 DEF Spent, Blocks, Runner!Statuses
<1> HIDE DEF blockers
<1>6. IsFiniteSet(Spent) /\ Cardinality(Spent) <= faults /\ faults \in Nat
  BY <1>1 DEF Sound, Paid, Runner!TypeOK, Runner!IntegrationsAssumption
<1>7. /\ IsFiniteSet(Spent \cup blockers)
      /\ Cardinality(Spent \cup blockers) <= Cardinality(Spent) + Cardinality(blockers)
  <2>1. /\ IsFiniteSet(Spent \cup blockers)
        /\ Cardinality(Spent \cup blockers) =
             Cardinality(Spent) + Cardinality(blockers) - Cardinality(Spent \cap blockers)
    BY <1>3, <1>6, FS_Union
  <2>2. Cardinality(Spent \cap blockers) \in Nat
    BY <1>6, FS_Intersection, FS_CardinalityType
  <2> QED
    BY <1>3, <1>6, <2>1, <2>2, FS_CardinalityType
<1>8. Cardinality(Runner!Running(k)) <= 1
  BY <1>3, <1>4, FS_Subset, FS_CardinalityType
<1>9. Cardinality(Runner!Done(k)) <= 1 + faults
  <2>1. IsFiniteSet(Runner!Done(k))
        /\ Cardinality(Runner!Done(k)) <= Cardinality(Spent \cup blockers)
    BY <1>5, <1>7, FS_Subset
  <2> QED
    BY <1>3, <1>6, <1>7, <2>1, FS_CardinalityType
<1> QED
  BY <1>8, <1>9

(***************************************************************************)
(* The variables of the runner and its repository keep their types.        *)
(***************************************************************************)
THEOREM RunnerTyped ==
  ASSUME Runner!IntegrationsAssumption
  PROVE  Runner!Spec => []Runner!TypeOK
<1>1. RunnerInv => Runner!TypeOK
  BY DEF RunnerInv
<1> QED
  BY <1>1, RunnerInit, RunnerStep, PTL DEF Runner!Spec

(***************************************************************************)
(* Without marks by hand a key's provider is never at work twice at once,  *)
(* and does its work once, and once more at most for each fault.           *)
(***************************************************************************)
THEOREM ProviderRunsOnce ==
  ASSUME Runner!IntegrationsAssumption
  PROVE  Runner!Spec => []ExecutedOnce
BY RunnerInit, RunnerStep, InvOnce, PTL DEF Runner!Spec, ExecutedOnce

-----------------------------------------------------------------------------
(***************************************************************************)
(* The circuit breaker.  The failures since the last success are those it  *)
(* has counted; once they ask for an open breaker it is not closed; and it *)
(* is half-open only when the recovery time is over.                       *)
(***************************************************************************)
BreakerInv ==
  /\ Breaker!TypeOK
  /\ consecutiveFailures = Len(failures)
  /\ failures # <<>> => lastFailureTime = Breaker!Latest
  /\ Breaker!Tripped => currentState # "closed"
  /\ currentState = "half-open" => now - lastFailureTime >= Recovery

\* A breaker begins closed, without a failure.
LEMMA BreakerStart == ASSUME Breaker!BreakerAssumption PROVE Breaker!Init => BreakerInv
BY DEF Breaker!Init, BreakerInv, Breaker!TypeOK, Breaker!BreakerAssumption, Breaker!Tripped

\* A failure that is appended is the latest one.
LEMMA FailureAppended ==
  ASSUME NEW T, NEW s \in Seq(T), NEW x \in T
  PROVE  /\ Append(s, x) \in Seq(T) /\ Append(s, x) # <<>>
         /\ Len(Append(s, x)) = Len(s) + 1
         /\ Append(s, x)[Len(Append(s, x))] = x
OBVIOUS

\* The invariant is inductive: a failure opens a breaker that is half-open.
LEMMA BreakerStep ==
  ASSUME Breaker!BreakerAssumption
  PROVE  BreakerInv /\ [Breaker!Next]_Breaker!breakerVars => BreakerInv'
<1> SUFFICES ASSUME BreakerInv, [Breaker!Next]_Breaker!breakerVars PROVE BreakerInv'
  OBVIOUS
<1> USE DEF Breaker!BreakerAssumption
<1>t. /\ now \in Nat /\ lastFailureTime \in Nat /\ consecutiveFailures \in Nat
      /\ failures \in Seq([time : 0..MaxTime, fatal : BOOLEAN])
  BY DEF BreakerInv, Breaker!TypeOK
<1>1. ASSUME currentState' = Breaker!Looked, calling' \subseteq Guarded,
             UNCHANGED <<consecutiveFailures, lastFailureTime, now, failures>>
      PROVE  BreakerInv'
  BY <1>1, <1>t DEF BreakerInv, Breaker!TypeOK, Breaker!Looked, Breaker!Tripped, Breaker!Latest
<1>2. ASSUME NEW c \in Guarded, Breaker!Fail(c) PROVE BreakerInv'
  <2>1. PICK fatal \in BOOLEAN :
          /\ currentState' = IF \/ fatal \/ consecutiveFailures + 1 >= Threshold
                                \/ currentState = "half-open"
                             THEN "open" ELSE currentState
          /\ failures' = Append(failures, [time |-> now, fatal |-> fatal])
          /\ consecutiveFailures' = consecutiveFailures + 1
          /\ lastFailureTime' = now /\ now' = now /\ calling' = calling \ {c}
    BY <1>2 DEF Breaker!Fail
  <2> DEFINE x == [time |-> now, fatal |-> fatal]
  <2>2. x \in [time : 0..MaxTime, fatal : BOOLEAN]
    BY DEF BreakerInv, Breaker!TypeOK
  <2>3. /\ failures' \in Seq([time : 0..MaxTime, fatal : BOOLEAN])
        /\ Len(failures') = Len(failures) + 1 /\ failures'[Len(failures')] = x
    <3> HIDE DEF x
    <3> QED
      BY <1>t, <2>1, <2>2, FailureAppended DEF x
  <2>4. Breaker!TypeOK'
    BY <1>t, <2>1, <2>3 DEF BreakerInv, Breaker!TypeOK
  <2>5. Breaker!Latest' = now /\ (Breaker!Tripped' => Len(failures') >= Threshold \/ fatal)
    BY <2>3 DEF Breaker!Latest, Breaker!Tripped
  <2>6. consecutiveFailures' = Len(failures')
    BY <2>1, <2>3 DEF BreakerInv
  <2> QED
    BY <1>t, <2>1, <2>4, <2>5, <2>6 DEF BreakerInv, Breaker!TypeOK
<1>3. ASSUME failures' = <<>>, consecutiveFailures' = 0, currentState' = "closed",
             lastFailureTime' \in Nat, calling' \subseteq Guarded, now' = now
      PROVE  BreakerInv'
  BY <1>3, <1>t DEF BreakerInv, Breaker!TypeOK, Breaker!Tripped
<1>4. CASE Breaker!Tick
  BY <1>4, <1>t DEF Breaker!Tick, BreakerInv, Breaker!TypeOK, Breaker!Tripped, Breaker!Latest
<1>5. ASSUME calling' \subseteq Guarded,
             UNCHANGED <<currentState, consecutiveFailures, lastFailureTime, now, failures>>
      PROVE  BreakerInv'
  BY <1>5, <1>t DEF BreakerInv, Breaker!TypeOK, Breaker!Tripped, Breaker!Latest
<1>6. calling \subseteq Guarded
  BY DEF BreakerInv, Breaker!TypeOK
<1> QED
  BY <1>t, <1>1, <1>2, <1>3, <1>4, <1>5, <1>6
     DEF Breaker!Next, Breaker!Start, Breaker!Refuse, Breaker!Succeed, Breaker!Throw,
         Breaker!Look, Breaker!Reset, Breaker!breakerVars

(***************************************************************************)
(* A call is let through in spite of failures that ask for an open breaker *)
(* only when the recovery time is over since the latest, also when calls   *)
(* that had begun before have failed meanwhile; and a breaker only closes  *)
(* with a success or a reset.                                              *)
(***************************************************************************)
THEOREM OpenHolds ==
  ASSUME Breaker!BreakerAssumption
  PROVE  Breaker!Spec => TrippedHolds
<1> DEFINE Held ==
      /\ Breaker!Tripped /\ calling' \ calling # {} => now - Breaker!Latest >= Recovery
      /\ currentState # "closed" /\ currentState' = "closed" => failures' = <<>>
<1>1. BreakerInv /\ [Breaker!Next]_Breaker!breakerVars => [Held]_Breaker!breakerVars
  <2> SUFFICES ASSUME BreakerInv, Breaker!Next PROVE Held
    OBVIOUS
  <2>1. ASSUME NEW c \in Guarded, Breaker!Start(c), Breaker!Tripped
        PROVE  now - Breaker!Latest >= Recovery
    BY <2>1 DEF Breaker!Start, Breaker!Looked, Breaker!Tripped, BreakerInv, Breaker!TypeOK
  <2>2. Breaker!Looked # "closed" \/ currentState = "closed"
    BY DEF Breaker!Looked
  <2> QED
    BY <2>1, <2>2
       DEF Breaker!Next, Breaker!Start, Breaker!Refuse, Breaker!Succeed, Breaker!Fail,
           Breaker!Throw, Breaker!Look, Breaker!Reset, Breaker!Tick, Breaker!breakerVars
<1> HIDE DEF Held
<1>2. Breaker!Spec => [][Held]_Breaker!breakerVars
  BY <1>1, BreakerStart, BreakerStep, PTL DEF Breaker!Spec
<1> QED
  BY <1>2 DEF Held, TrippedHolds, Breaker!TrippedHolds

-----------------------------------------------------------------------------
(***************************************************************************)
(* The managed resource.  The handle is initialized just when its promise  *)
(* is resolved, and then keeps the one instance there is; while a promise  *)
(* is pending nothing has been disposed of since it was made.              *)
(***************************************************************************)
HandleInv ==
  /\ Handle!TypeOK
  /\ initialized <=> initPromise = "resolved"
  /\ IF initialized THEN live = {value} /\ value # None /\ ~disposed
                    ELSE live = {} /\ value = None
  /\ initPromise # None => inits > 0
  /\ initPromise = "pending" => ~disposed
  /\ disposal = "runs" => initPromise \in {None, "resolved"}

\* What waits has no instance.
LEMMA WaitingType ==
  ASSUME NEW w \in Handle!Waits
  PROVE  /\ Handle!Waiting(w) \in [waits : Handle!Waits, has : Handle!Instances \cup {None}]
         /\ Handle!Waiting(w).has = None
BY DEF Handle!Waiting

\* A handle begins without an instance.
LEMMA HandleStart == ASSUME Handle!ResourceAssumption PROVE Handle!Init => HandleInv
<1> SUFFICES ASSUME Handle!Init PROVE HandleInv
  OBVIOUS
<1>1. Handle!Waiting("idle") \in [waits : Handle!Waits, has : Handle!Instances \cup {None}]
  BY WaitingType DEF Handle!Waits
<1>2. Handle!TypeOK
  <2>1. users \in [Users -> [waits : Handle!Waits, has : Handle!Instances \cup {None}]]
    BY <1>1 DEF Handle!Init
  <2>2. inits \in 0..MaxInits
    BY DEF Handle!Init, Handle!ResourceAssumption
  <2> QED
    BY <2>1, <2>2 DEF Handle!Init, Handle!TypeOK
<1> QED
  BY <1>2 DEF Handle!Init, HandleInv, Handle!ResourceAssumption

\* Users that wait go on, all with the same answer.
LEMMA ResumeType ==
  ASSUME Handle!TypeOK, NEW w, NEW next \in [waits : Handle!Waits, has : Handle!Instances \cup {None}]
  PROVE  Handle!Resume(w, next) \in [Users -> [waits : Handle!Waits,
                                              has : Handle!Instances \cup {None}]]
BY DEF Handle!Resume, Handle!TypeOK

(***************************************************************************)
(* The end of a disposal: nobody is given an instance by it, and a new     *)
(* initialisation is begun or the handle is empty.                         *)
(***************************************************************************)
LEMMA DisposalEnds ==
  ASSUME Handle!ResourceAssumption, Handle!TypeOK,
         NEW given \in [Users -> [waits : Handle!Waits, has : Handle!Instances \cup {None}]],
         \A u \in Users : given[u] = users[u] \/ given[u].has = None,
         Handle!AfterDisposal(given)
  PROVE  /\ disposal' = None
         /\ users' \in [Users -> [waits : Handle!Waits, has : Handle!Instances \cup {None}]]
         /\ \A u \in Users : users'[u] = users[u] \/ users'[u].has = None
         /\ \/ initPromise' = None /\ inits' = inits /\ ~Handle!SomeoneWaits("disposal")
            \/ /\ initPromise' \in {"pending", "rejected"} /\ disposed' = FALSE
               /\ inits' = inits + 1 /\ inits' \in 0..MaxInits
<1>1. CASE Handle!SomeoneWaits("disposal") /\ inits < MaxInits
  <2>1. PICK throws \in BOOLEAN :
          /\ initPromise' = IF throws THEN "rejected" ELSE "pending"
          /\ users' = [u \in Users |->
               IF users[u].waits = "disposal"
               THEN Handle!Waiting(IF throws THEN "refused" ELSE "init") ELSE given[u]]
    BY <1>1 DEF Handle!AfterDisposal
  <2>2. PICK w \in {"refused", "init"} : w = IF throws THEN "refused" ELSE "init"
    OBVIOUS
  <2>3. /\ Handle!Waiting(w) \in [waits : Handle!Waits, has : Handle!Instances \cup {None}]
        /\ Handle!Waiting(w).has = None
    BY WaitingType DEF Handle!Waits
  <2>4. /\ users' \in [Users -> [waits : Handle!Waits, has : Handle!Instances \cup {None}]]
        /\ \A u \in Users : users'[u] = users[u] \/ users'[u].has = None
    BY <2>1, <2>2, <2>3
  <2>5. inits' = inits + 1 /\ inits' \in 0..MaxInits
    BY <1>1 DEF Handle!AfterDisposal, Handle!TypeOK, Handle!ResourceAssumption
  <2>6. disposal' = None /\ disposed' = FALSE /\ initPromise' \in {"pending", "rejected"}
    BY <1>1, <2>1 DEF Handle!AfterDisposal
  <2> QED
    BY <2>4, <2>5, <2>6
<1>2. CASE ~(Handle!SomeoneWaits("disposal") /\ inits < MaxInits)
  BY <1>2 DEF Handle!AfterDisposal
<1> QED
  BY <1>1, <1>2

(***************************************************************************)
(* What a step does to the instances, and whom it gives one.               *)
(***************************************************************************)
Given ==
  /\ \A u \in Users : users'[u] # users[u] /\ users'[u].has # None => live' = {users'[u].has}
  /\ live' \ live # {} => live = {}
  /\ \A i \in live' : value' = i

\* A step that gives nobody an instance, makes none and disposes of none.
LEMMA NobodyGiven ==
  ASSUME HandleInv, UNCHANGED <<value, live>>,
         \A u \in Users : users'[u] = users[u] \/ users'[u].has = None
  PROVE  Given
BY DEF HandleInv, Given

\* The invariant is inductive, and every step gives only the instance there is.
LEMMA HandleStep ==
  ASSUME Handle!ResourceAssumption
  PROVE  /\ HandleInv /\ [Handle!Next]_Handle!resourceVars => HandleInv'
         /\ HandleInv /\ Handle!Next => Given
<1> DEFINE Answers == [waits : Handle!Waits, has : Handle!Instances \cup {None}]
<1>1. ASSUME HandleInv, Handle!Next PROVE HandleInv' /\ Given
  <2> USE DEF Handle!ResourceAssumption
  <2>t. /\ Handle!TypeOK /\ inits \in Nat /\ users \in [Users -> Answers]
        /\ \A w \in {"idle", "init", "disposal", "refused"} :
             Handle!Waiting(w) \in Answers /\ Handle!Waiting(w).has = None
    BY <1>1, WaitingType DEF HandleInv, Handle!TypeOK, Handle!Waits
  <2>g. ASSUME NEW u \in Users, NEW a \in Answers, users' = [users EXCEPT ![u] = a]
        PROVE  /\ users' \in [Users -> Answers]
               /\ \A v \in Users : users'[v] = IF v = u THEN a ELSE users[v]
    BY <2>t, <2>g
  <2>1. ASSUME NEW u \in Users, Handle!GetReady(u) PROVE HandleInv' /\ Given
    <3>1. [waits |-> "idle", has |-> value] \in Answers
      BY <1>1 DEF HandleInv, Handle!TypeOK, Handle!Waits
    <3>2. HandleInv'
      BY <1>1, <2>1, <2>g, <3>1 DEF Handle!GetReady, HandleInv, Handle!TypeOK
    <3> QED
      BY <1>1, <2>1, <2>g, <3>1, <3>2 DEF Handle!GetReady, HandleInv, Given
  <2>2. ASSUME NEW u \in Users, Handle!GetAfterDisposal(u) PROVE HandleInv' /\ Given
    <3>1. HandleInv'
      BY <1>1, <2>2, <2>g, <2>t DEF Handle!GetAfterDisposal, HandleInv, Handle!TypeOK
    <3>2. \A v \in Users : users'[v] = users[v] \/ users'[v].has = None
      BY <2>2, <2>g, <2>t DEF Handle!GetAfterDisposal
    <3> QED
      BY <1>1, <2>2, <3>1, <3>2, NobodyGiven DEF Handle!GetAfterDisposal
  <2>3. ASSUME NEW u \in Users, Handle!GetShared(u) PROVE HandleInv' /\ Given
    <3>1. initPromise \in {"pending", "rejected"}
      BY <1>1, <2>3 DEF Handle!GetShared, HandleInv, Handle!TypeOK
    <3>2. PICK w \in {"init", "refused"} : users' = [users EXCEPT ![u] = Handle!Waiting(w)]
      BY <2>3, <3>1 DEF Handle!GetShared
    <3>3. /\ users' \in [Users -> Answers]
          /\ \A v \in Users : users'[v] = users[v] \/ users'[v].has = None
      BY <2>g, <2>t, <3>2
    <3>4. UNCHANGED <<value, initialized, disposed, initPromise, disposal, inits, live>>
      BY <2>3 DEF Handle!GetShared
    <3>5. HandleInv'
      BY <1>1, <3>3, <3>4 DEF HandleInv, Handle!TypeOK
    <3> QED
      BY <1>1, <3>3, <3>4, <3>5, NobodyGiven
  <2>4. ASSUME NEW u \in Users, Handle!StartInit(u) \/ Handle!StartInitThrows(u)
        PROVE  HandleInv' /\ Given
    <3>1. PICK w \in {"init", "refused"} : users' = [users EXCEPT ![u] = Handle!Waiting(w)]
      BY <2>4 DEF Handle!StartInit, Handle!StartInitThrows
    <3>2. /\ users' \in [Users -> Answers]
          /\ \A v \in Users : users'[v] = users[v] \/ users'[v].has = None
      BY <2>g, <2>t, <3>1
    <3>3. /\ ~initialized /\ inits' = inits + 1 /\ inits' \in 0..MaxInits /\ disposed' = FALSE
          /\ initPromise' \in {"pending", "rejected"} /\ disposal = None
          /\ UNCHANGED <<value, initialized, disposal, live>>
      BY <1>1, <2>4, <2>t DEF Handle!StartInit, Handle!StartInitThrows, HandleInv, Handle!TypeOK
    <3>4. Handle!TypeOK'
      BY <2>t, <3>2, <3>3 DEF Handle!TypeOK
    <3>5. disposal' # "runs" /\ inits' > 0 /\ initPromise' # "resolved"
      BY <2>t, <3>3
    <3>6. HandleInv'
      BY <1>1, <3>3, <3>4, <3>5 DEF HandleInv
    <3> QED
      BY <1>1, <3>2, <3>3, <3>6, NobodyGiven
  <2>5. CASE Handle!InitEnds
    <3> DEFINE a == [waits |-> "idle", has |-> inits]
    <3>1. a \in Answers /\ inits \in Handle!Instances /\ inits # None
      BY <1>1, <2>5, <2>t DEF Handle!InitEnds, HandleInv, Handle!TypeOK, Handle!Instances,
                              Handle!Waits
    <3>2. users' = Handle!Resume("init", a)
      BY <2>5 DEF Handle!InitEnds
    <3>3. users' \in [Users -> Answers]
      BY <2>t, <3>1, <3>2, ResumeType
    <3>4. live' = {inits} /\ live = {}
      BY <1>1, <2>5 DEF Handle!InitEnds, HandleInv
    <3>5. HandleInv'
      BY <1>1, <2>5, <2>t, <3>1, <3>3, <3>4 DEF Handle!InitEnds, HandleInv, Handle!TypeOK
    <3>6. \A u \in Users : users'[u] = users[u] \/ users'[u].has = inits
      BY <3>2 DEF Handle!Resume
    <3> QED
      BY <2>5, <3>4, <3>5, <3>6 DEF Handle!InitEnds, Given
  <2>6. CASE Handle!InitFails
    <3> DEFINE given == Handle!Resume("init", Handle!Waiting("refused"))
    <3>1. /\ given \in [Users -> Answers]
          /\ \A u \in Users : given[u] = users[u] \/ given[u].has = None
      BY <2>t, ResumeType DEF Handle!Resume
    <3>2. /\ initPromise = "pending" /\ ~initialized /\ ~disposed
          /\ UNCHANGED <<value, initialized, live>>
      BY <1>1, <2>6 DEF Handle!InitFails, HandleInv
    <3>3. CASE disposal = "waits"
      <4>1. /\ Handle!AfterDisposal(given)
            /\ ~Handle!SomeoneWaits("disposal") => UNCHANGED disposed
        BY <2>6, <3>3 DEF Handle!InitFails
      <4> HIDE DEF given
      <4>2. /\ disposal' = None /\ users' \in [Users -> Answers]
            /\ \A u \in Users : users'[u] = users[u] \/ users'[u].has = None
            /\ initPromise' \in {None, "pending", "rejected"} /\ disposed' = FALSE
            /\ inits' \in 0..MaxInits /\ (initPromise' # None => inits' > 0)
        <5>1. inits \in 0..MaxInits /\ (inits' = inits + 1 => inits' > 0)
          BY <2>t DEF Handle!TypeOK
        <5>2. /\ disposal' = None /\ users' \in [Users -> Answers]
              /\ \A u \in Users : users'[u] = users[u] \/ users'[u].has = None
              /\ \/ /\ initPromise' = None /\ inits' = inits
                    /\ ~Handle!SomeoneWaits("disposal")
                 \/ /\ initPromise' \in {"pending", "rejected"} /\ disposed' = FALSE
                    /\ inits' = inits + 1 /\ inits' \in 0..MaxInits
          BY <2>t, <3>1, <4>1, DisposalEnds
        <5> QED
          BY <3>2, <4>1, <5>1, <5>2
      <4>3. HandleInv'
        BY <1>1, <3>2, <4>2 DEF HandleInv, Handle!TypeOK
      <4> QED
        BY <1>1, <3>2, <4>2, <4>3, NobodyGiven
    <3>4. CASE disposal # "waits"
      <4>1. users' = given /\ initPromise' = None /\ UNCHANGED <<disposal, disposed, inits>>
        BY <2>6, <3>4 DEF Handle!InitFails
      <4> HIDE DEF given
      <4>2. HandleInv'
        BY <1>1, <3>1, <3>2, <4>1 DEF HandleInv, Handle!TypeOK
      <4> QED
        BY <1>1, <3>1, <3>2, <4>1, <4>2, NobodyGiven
    <3> QED
      BY <3>3, <3>4
  <2>7. CASE Handle!Dispose \/ Handle!DisposeRuns
    <3>1. /\ UNCHANGED <<value, initialized, disposed, initPromise, users, inits, live>>
          /\ \/ disposal' = "waits"
             \/ disposal' = "runs" /\ initPromise \in {None, "resolved"}
      BY <2>7 DEF Handle!Dispose, Handle!DisposeRuns
    <3>2. HandleInv'
      BY <1>1, <3>1 DEF HandleInv, Handle!TypeOK
    <3> QED
      BY <1>1, <3>1, <3>2, NobodyGiven
  <2>8. CASE Handle!DisposeNothing \/ Handle!DisposeEnds
    <3>1. /\ Handle!AfterDisposal(users)
          /\ initialized' = FALSE /\ value' = None /\ live' = {}
          /\ Handle!DisposeNothing => /\ ~Handle!SomeoneWaits("disposal") => UNCHANGED disposed
                                      /\ UNCHANGED <<value, initialized, live>>
          /\ Handle!DisposeEnds => (~Handle!SomeoneWaits("disposal") => disposed' = TRUE)
      BY <1>1, <2>8 DEF Handle!DisposeNothing, Handle!DisposeEnds, HandleInv
    <3>2. /\ disposal' = None /\ users' \in [Users -> Answers]
          /\ \A u \in Users : users'[u] = users[u] \/ users'[u].has = None
          /\ initPromise' \in {None, "pending", "rejected"} /\ disposed' \in BOOLEAN
          /\ initPromise' = "pending" => disposed' = FALSE
          /\ inits' \in 0..MaxInits /\ (initPromise' # None => inits' > 0)
      <4>1. /\ inits \in 0..MaxInits /\ (inits' = inits + 1 => inits' > 0)
            /\ disposed \in BOOLEAN
        BY <2>t DEF Handle!TypeOK
      <4>2. /\ disposal' = None /\ users' \in [Users -> Answers]
            /\ \A u \in Users : users'[u] = users[u] \/ users'[u].has = None
            /\ \/ initPromise' = None /\ inits' = inits /\ ~Handle!SomeoneWaits("disposal")
               \/ /\ initPromise' \in {"pending", "rejected"} /\ disposed' = FALSE
                  /\ inits' = inits + 1 /\ inits' \in 0..MaxInits
        BY <2>t, <3>1, DisposalEnds
      <4>3. initPromise' = None => disposed' \in BOOLEAN
        BY <2>8, <3>1, <4>1, <4>2
      <4> QED
        BY <4>1, <4>2, <4>3
    <3>3. HandleInv'
      BY <1>1, <3>1, <3>2 DEF HandleInv, Handle!TypeOK
    <3> QED
      BY <3>1, <3>2, <3>3 DEF Given
  <2>9. CASE Handle!DisposeFails
    <3>1. /\ users' \in [Users -> Answers]
          /\ \A u \in Users : users'[u] = users[u] \/ users'[u].has = None
      BY <2>9, <2>t, ResumeType DEF Handle!DisposeFails, Handle!Resume
    <3>2. disposal' = None /\ UNCHANGED <<value, initialized, disposed, initPromise, inits, live>>
      BY <2>9 DEF Handle!DisposeFails
    <3>3. HandleInv'
      BY <1>1, <3>1, <3>2 DEF HandleInv, Handle!TypeOK
    <3> QED
      BY <1>1, <3>1, <3>2, <3>3, NobodyGiven
  <2> QED
    BY <1>1, <2>1, <2>2, <2>3, <2>4, <2>5, <2>6, <2>7, <2>8, <2>9 DEF Handle!Next
<1>2. ASSUME HandleInv, UNCHANGED Handle!resourceVars PROVE HandleInv'
  BY <1>2 DEF HandleInv, Handle!TypeOK, Handle!resourceVars
<1> QED
  BY <1>1, <1>2

(***************************************************************************)
(* However gets, disposals, failing initialisations and signals overlap,   *)
(* there is one instance at most, whoever is given one is given that one,  *)
(* and the handle knows it.                                                *)
(***************************************************************************)
THEOREM SoleInstance ==
  ASSUME Handle!ResourceAssumption
  PROVE  Handle!Spec => OneInstance
<1>1. HandleInv /\ [Handle!Next]_Handle!resourceVars => [Given]_Handle!resourceVars
  BY HandleStep
<1>2. Handle!Spec => [][Given]_Handle!resourceVars
  BY <1>1, HandleStart, HandleStep, PTL DEF Handle!Spec
<1> QED
  BY <1>2 DEF Given, OneInstance, Handle!OneInstance

-----------------------------------------------------------------------------
(***************************************************************************)
(* The pool of resources.  The sum of the loads is the counter of the      *)
(* semaphore that the pool implements: a resource has room exactly when    *)
(* the sum is below the room of all, since no load passes its own bound.   *)
(***************************************************************************)
\* The pool sums with its own copy of the definition.
LEMMA PoolSums == \A f : Pool!Total(f) = SumFunctionOnSet(f, DOMAIN f)
BY DEF Pool!Total, Pool!SumFunction, Pool!SumFunctionOnSet, SumFunctionOnSet,
       Pool!FoldFunctionOnSet, FoldFunctionOnSet, Pool!MapThenFoldSet, MapThenFoldSet

\* The loads of the resources, none above what the resource serves.
Loaded ==
  /\ inFlight \in [Pool!Resources -> Int]
  /\ \A r \in Pool!Resources : inFlight[r] <= MaxConcurrent[r]
  /\ state \in [Callers -> {"new", "waiting", "granted", "inside", "done", "rejected"}]
  /\ held \in [Callers -> Pool!Resources \cup {None}]
  /\ \A c \in Callers : state[c] \in {"granted", "inside"} => held[c] \in Pool!Resources

\* Where a call can be.
LEMMA Serving ==
  ASSUME Pool!PoolAssumption
  PROVE  /\ IsFiniteSet(Pool!Resources)
         /\ \A r \in Pool!Resources : MaxConcurrent[r] \in Nat \ {0}
<1>1. Pool!Resources = 1..Len(MaxConcurrent) /\ Len(MaxConcurrent) \in Nat
  BY DEF Pool!PoolAssumption, Pool!Resources
<1>2. IsFiniteSet(1..Len(MaxConcurrent))
  BY <1>1, FS_Interval
<1> QED
  BY <1>1, <1>2 DEF Pool!PoolAssumption

\* Some resource has room if and only if the pool serves fewer than it can.
LEMMA RoomOf ==
  ASSUME Pool!PoolAssumption, NEW load \in [Pool!Resources -> Int],
         \A r \in Pool!Resources : load[r] <= MaxConcurrent[r]
  PROVE  /\ Pool!Total(load) \in Int /\ Pool!Total(MaxConcurrent) \in Int
         /\ Pool!Room(load) # {} => Pool!Total(load) < Pool!Total(MaxConcurrent)
         /\ Pool!Room(load) = {} => Pool!Total(load) = Pool!Total(MaxConcurrent)
<1> DEFINE S == Pool!Resources
<1>1. IsFiniteSet(S) /\ \A r \in S : MaxConcurrent[r] \in Int
  BY Serving
<1>2. \A r \in S : load[r] \in Int /\ load[r] <= MaxConcurrent[r]
  OBVIOUS
<1>3. /\ Pool!Total(load) = SumFunctionOnSet(load, S)
      /\ Pool!Total(MaxConcurrent) = SumFunctionOnSet(MaxConcurrent, S)
  BY PoolSums DEF Pool!Resources
<1> HIDE DEF S
<1>4. Pool!Total(load) \in Int /\ Pool!Total(MaxConcurrent) \in Int
  BY <1>1, <1>2, <1>3, SumType
<1>5. ASSUME Pool!Room(load) # {}
      PROVE  Pool!Total(load) < Pool!Total(MaxConcurrent)
  <2>1. PICK r \in S : load[r] < MaxConcurrent[r]
    BY <1>5 DEF Pool!Room, S
  <2> QED
    BY <1>1, <1>2, <1>3, <2>1, SumStrict
<1>6. ASSUME Pool!Room(load) = {}
      PROVE  Pool!Total(load) = Pool!Total(MaxConcurrent)
  <2>1. \A r \in S : load[r] = MaxConcurrent[r]
    BY <1>1, <1>2, <1>6 DEF Pool!Room, S
  <2> QED
    BY <1>1, <1>3, <2>1, SumSame
<1> QED
  BY <1>4, <1>5, <1>6

\* That is so of the loads that the pool has.
LEMMA RoomIsTotal ==
  ASSUME Pool!PoolAssumption, Loaded
  PROVE  /\ Pool!Total(inFlight) \in Int /\ Pool!Total(MaxConcurrent) \in Int
         /\ Pool!Room(inFlight) # {} <=> Pool!Total(inFlight) < Pool!Total(MaxConcurrent)
BY RoomOf DEF Loaded

\* The resource that is chosen has room.
LEMMA Available ==
  ASSUME Pool!PoolAssumption, NEW load \in [Pool!Resources -> Int], Pool!Room(load) # {}
  PROVE  Pool!FindAvailable(load) \in Pool!Room(load)
<1> DEFINE Loads == {load[r] : r \in Pool!Room(load)}
<1>1. Pool!Resources \subseteq Nat
  BY DEF Pool!Resources, Pool!PoolAssumption
<1>2. Pool!Room(load) \subseteq Pool!Resources /\ IsFiniteSet(Pool!Room(load))
  <2>1. Pool!Room(load) \subseteq Pool!Resources
    BY DEF Pool!Room
  <2> QED
    BY <2>1, Serving, FS_Subset
<1>3. PICK m \in Pool!Room(load) : \A q \in Pool!Room(load) : load[m] <= load[q]
  BY <1>2, LeastValue
<1> DEFINE Least == {r \in Pool!Room(load) : load[r] = load[m]}
<1>4. PICK r \in Least : \A q \in Least : r <= q
  BY <1>1, <1>2, <1>3, NatLeast
<1>5. \A q \in Pool!Room(load) : load[r] < load[q] \/ (load[r] = load[q] /\ r <= q)
  BY <1>2, <1>3, <1>4
<1> QED
  BY <1>4, <1>5 DEF Pool!FindAvailable

\* A pool begins empty.
LEMMA PoolInit ==
  ASSUME Pool!PoolAssumption, Pool!Init PROVE Loaded /\ Pool!Gate!Init
<1>1. \A r \in Pool!Resources : MaxConcurrent[r] \in Nat \ {0} /\ inFlight[r] = 0
  BY Serving DEF Pool!Init
<1>2. Loaded
  BY <1>1 DEF Pool!Init, Loaded
<1>3. Pool!Total(inFlight) = 0
  <2>1. SumFunctionOnSet(inFlight, Pool!Resources) = 0
    BY <1>1, Serving, SumZero
  <2> QED
    BY <2>1, PoolSums DEF Pool!Init
<1> QED
  BY <1>2, <1>3 DEF Pool!Init, Pool!Gate!Init

\* With one load changed by d the total is changed by d.
LEMMA TotalChanges ==
  ASSUME Pool!PoolAssumption, NEW f \in [Pool!Resources -> Int], NEW h \in [Pool!Resources -> Int],
         NEW r \in Pool!Resources, NEW d \in Int, h[r] = f[r] + d,
         \A q \in Pool!Resources : q # r => h[q] = f[q]
  PROVE  Pool!Total(h) = Pool!Total(f) + d
<1> DEFINE S == Pool!Resources
<1>1. IsFiniteSet(S)
  BY Serving
<1>2. \A x \in S : f[x] \in Int
  OBVIOUS
<1>3. DOMAIN f = S /\ DOMAIN h = S
  OBVIOUS
<1>4. r \in S /\ \A q \in S : q # r => h[q] = f[q]
  OBVIOUS
<1> HIDE DEF S
<1>5. SumFunctionOnSet(h, S) = SumFunctionOnSet(f, S) + d
  BY ONLY <1>1, <1>2, <1>4, d \in Int, h[r] = f[r] + d, SumChanges
<1> QED
  BY <1>3, <1>5, PoolSums

\* A call that is not served: rejected, queued, or gone on.
LEMMA UnservedMaps ==
  ASSUME Pool!PoolAssumption, Loaded, NEW c \in Callers,
         Pool!Reject(c) \/ Pool!Queue(c) \/ Pool!Enter(c)
  PROVE  Loaded' /\ (Pool!Gate!Reject(c) \/ Pool!Gate!Queue(c) \/ Pool!Gate!Enter(c))
<1>1. inFlight' = inFlight /\ Pool!Total(inFlight)' = Pool!Total(inFlight)
  BY DEF Pool!Reject, Pool!Queue, Pool!Enter
<1>2. Loaded'
  BY DEF Pool!Reject, Pool!Queue, Pool!Enter, Loaded
<1>3. Pool!Room(inFlight) = {} => Pool!Total(inFlight) >= Pool!Total(MaxConcurrent)
  BY RoomIsTotal
<1>4. CASE Pool!Reject(c)
  BY <1>1, <1>2, <1>4 DEF Pool!Reject, Pool!Gate!Reject, Pool!Gate!Goto
<1>5. CASE Pool!Queue(c)
  BY <1>1, <1>2, <1>3, <1>5 DEF Pool!Queue, Pool!Gate!Queue, Pool!Gate!Goto
<1>6. CASE Pool!Enter(c)
  BY <1>1, <1>2, <1>6 DEF Pool!Enter, Pool!Gate!Enter, Pool!Gate!Goto
<1> QED
  BY <1>4, <1>5, <1>6

\* A call that finds a resource with room.
LEMMA AcquireMaps ==
  ASSUME Pool!PoolAssumption, Loaded, NEW c \in Callers, Pool!Acquire(c)
  PROVE  Loaded' /\ Pool!Gate!Acquire(c)
<1>1. PICK r \in Pool!Room(inFlight) : /\ inFlight' = [inFlight EXCEPT ![r] = @ + 1]
                                       /\ held' = [held EXCEPT ![c] = r]
  BY Available DEF Pool!Acquire, Loaded
<1>2. r \in Pool!Resources /\ inFlight[r] < MaxConcurrent[r]
  BY <1>1 DEF Pool!Room
<1>3. /\ inFlight' \in [Pool!Resources -> Int] /\ inFlight'[r] = inFlight[r] + 1
      /\ \A q \in Pool!Resources : q # r => inFlight'[q] = inFlight[q]
      /\ inFlight \in [Pool!Resources -> Int]
  BY <1>1, <1>2 DEF Loaded
<1>7. Pool!Total(inFlight') = Pool!Total(inFlight) + 1
  BY <1>2, <1>3, TotalChanges
<1>4. state' = [state EXCEPT ![c] = "granted"]
  BY DEF Pool!Acquire
<1>5. Loaded'
  BY <1>1, <1>2, <1>3, <1>4, Serving DEF Loaded
<1>6. Pool!Total(inFlight) < Pool!Total(MaxConcurrent)
  BY <1>1, RoomIsTotal
<1> QED
  BY <1>5, <1>6, <1>7 DEF Pool!Acquire, Pool!Gate!Acquire, Pool!Gate!Goto

\* A call that ends hands its place on, if somebody waits.
LEMMA ReleaseMaps ==
  ASSUME Pool!PoolAssumption, Loaded, NEW c \in Callers, Pool!Release(c)
  PROVE  Loaded' /\ Pool!Gate!Release(c)
<1> DEFINE freed == [inFlight EXCEPT ![held[c]] = @ - 1]
<1>1. state[c] = "inside" /\ held[c] \in Pool!Resources
  BY DEF Pool!Release, Loaded
<1>2. PICK load : load = freed
  OBVIOUS
<1>3. /\ load \in [Pool!Resources -> Int] /\ load[held[c]] = inFlight[held[c]] + (-1)
      /\ \A q \in Pool!Resources : q # held[c] => load[q] = inFlight[q]
      /\ inFlight \in [Pool!Resources -> Int]
  BY <1>1, <1>2 DEF Loaded
<1>8. Pool!Total(load) = Pool!Total(inFlight) - 1
  <2>1. Pool!Total(load) = Pool!Total(inFlight) + (-1)
    BY <1>1, <1>3, TotalChanges
  <2> QED
    BY <2>1, RoomIsTotal
<1>4. \A r \in Pool!Resources : load[r] <= MaxConcurrent[r]
  BY <1>3, Serving DEF Loaded
<1>5. held[c] \in Pool!Room(load)
  BY <1>1, <1>3, Serving DEF Loaded, Pool!Room
<1>6. CASE waitQueue = <<>>
  <2>1. /\ inFlight' = load /\ state' = [state EXCEPT ![c] = "done"]
        /\ held' = [held EXCEPT ![c] = None] /\ UNCHANGED <<waitQueue, signalOf, aborted>>
    BY <1>2, <1>6 DEF Pool!Release
  <2>2. Loaded'
    BY <1>3, <1>4, <2>1 DEF Loaded
  <2> QED
    BY <1>1, <1>8, <1>6, <2>1, <2>2 DEF Pool!Gate!Release, Pool!Gate!Goto
<1>7. CASE waitQueue # <<>>
  <2>1. PICK r \in Pool!Room(load) :
          /\ inFlight' = [load EXCEPT ![r] = @ + 1]
          /\ state' = [state EXCEPT ![c] = "done", ![Head(waitQueue)] = "granted"]
          /\ held' = [held EXCEPT ![c] = None, ![Head(waitQueue)] = r]
          /\ waitQueue' = Tail(waitQueue) /\ UNCHANGED <<signalOf, aborted>>
    BY <1>2, <1>3, <1>5, <1>7, Available DEF Pool!Release
  <2>2. r \in Pool!Resources /\ load[r] < MaxConcurrent[r]
    BY <2>1 DEF Pool!Room
  <2>3. /\ inFlight' \in [Pool!Resources -> Int] /\ inFlight'[r] = load[r] + 1
        /\ \A q \in Pool!Resources : q # r => inFlight'[q] = load[q]
    BY <1>3, <2>1, <2>2
  <2>4. Loaded'
    <3>1. \A q \in Pool!Resources : inFlight'[q] <= MaxConcurrent[q]
      <4>1. MaxConcurrent[r] \in Int /\ load[r] \in Int
        BY <1>3, <2>2, Serving
      <4> QED
        BY <1>4, <2>2, <2>3, <4>1
    <3>2. state' \in [Callers -> {"new", "waiting", "granted", "inside", "done", "rejected"}]
      BY <2>1 DEF Loaded
    <3>3. held' \in [Callers -> Pool!Resources \cup {None}]
      BY <2>1, <2>2 DEF Loaded
    <3>4. ASSUME NEW e \in Callers, state'[e] \in {"granted", "inside"}
          PROVE  held'[e] \in Pool!Resources
      BY <2>1, <2>2, <3>4 DEF Loaded
    <3> QED
      BY <2>3, <3>1, <3>2, <3>3, <3>4 DEF Loaded
  <2>5. Pool!Total(inFlight') = Pool!Total(load) + 1
    BY <1>3, <2>2, <2>3, TotalChanges
  <2>6. Pool!Total(inFlight') = (Pool!Total(inFlight) - 1) + 1
    BY <1>8, <2>5, RoomIsTotal
  <2> QED
    BY <1>1, <1>7, <2>1, <2>4, <2>6 DEF Pool!Gate!Release, Pool!Gate!Goto
<1> QED
  BY <1>6, <1>7

\* A signal that is aborted.
LEMMA AbortMaps ==
  ASSUME Loaded, NEW s \in Signals, Pool!Abort(s)
  PROVE  Loaded' /\ Pool!Gate!Abort(s)
<1>1. UNCHANGED Pool!Total(inFlight)
  BY DEF Pool!Abort
<1>2. Loaded'
  BY DEF Pool!Abort, Loaded
<1> QED
  BY <1>1, <1>2 DEF Pool!Abort, Pool!Gate!Abort, Pool!Others, Pool!Gate!Others

(***************************************************************************)
(* A pool of any resources admits, queues, hands over and rejects its      *)
(* callers as a semaphore of its total room (resource-pool.ts).            *)
(***************************************************************************)
THEOREM PoolIsSemaphore ==
  ASSUME Pool!PoolAssumption PROVE Pool!Spec => SemaphoreSpec
<1>1. Pool!Init => Loaded /\ Pool!Gate!Init
  BY PoolInit
<1>2. Loaded /\ [Pool!Next]_Pool!poolVars
        => Loaded' /\ [Pool!Gate!Next]_Pool!Gate!semaphoreVars
  <2> SUFFICES ASSUME Loaded, [Pool!Next]_Pool!poolVars
               PROVE  Loaded' /\ [Pool!Gate!Next]_Pool!Gate!semaphoreVars
    OBVIOUS
  <2>1. CASE UNCHANGED Pool!poolVars
    BY <2>1 DEF Pool!poolVars, Pool!Gate!semaphoreVars, Loaded
  <2>2. ASSUME NEW c \in Callers,
               Pool!Reject(c) \/ Pool!Acquire(c) \/ Pool!Queue(c) \/ Pool!Advance(c)
        PROVE  Loaded' /\ Pool!Gate!Next
    BY <2>2, UnservedMaps, AcquireMaps, ReleaseMaps DEF Pool!Advance, Pool!Gate!Next
  <2>3. ASSUME NEW s \in Signals, Pool!Abort(s) PROVE Loaded' /\ Pool!Gate!Next
    BY <2>3, AbortMaps DEF Pool!Gate!Next
  <2> QED
    BY <2>1, <2>2, <2>3 DEF Pool!Next
<1> QED
  BY <1>1, <1>2, PTL DEF Pool!Spec, SemaphoreSpec, Pool!SemaphoreSpec, Pool!Gate!Spec

(***************************************************************************)
(* Who holds what.  The functions that Others may be are compared at the   *)
(* first place where they differ; a load is the number of its holders, the *)
(* sum of the loads the number of all owners; nobody is in the queue twice *)
(* or without waiting, and nobody waits while a resource has room.         *)
(***************************************************************************)
\* The functions that Others may be, up to N.
Skims(f, queue, s, N) ==
  f = [n \in 0..N |-> IF n = 0 THEN <<>>
                      ELSE IF signalOf[queue[n]] = s THEN f[n - 1]
                      ELSE Append(f[n - 1], queue[n])]

\* There is one.
LEMMA SkimsExists ==
  ASSUME NEW queue, NEW s, NEW N \in Nat PROVE \E f : Skims(f, queue, s, N)
<1> DEFINE Bad == {n \in Nat : ~ \E f : Skims(f, queue, s, n)}
<1>1. SUFFICES ASSUME Bad # {} PROVE FALSE
  OBVIOUS
<1>2. PICK n \in Bad : \A m \in Bad : n <= m
  <2>1. Bad \in SUBSET Nat
    OBVIOUS
  <2> HIDE DEF Bad
  <2> QED
    BY <1>1, <2>1, NatLeast
<1>3. CASE n = 0
  <2>1. PICK f : f = [k \in 0..0 |-> <<>>]
    OBVIOUS
  <2>2. Skims(f, queue, s, 0)
    BY <2>1 DEF Skims
  <2> QED
    BY <1>2, <1>3, <2>2
<1>4. CASE n # 0
  <2>1. n \in Nat /\ n - 1 \in Nat /\ n - 1 \notin Bad
    BY <1>2, <1>4
  <2>2. PICK f : Skims(f, queue, s, n - 1)
    BY <2>1
  <2>3. PICK last : last = IF signalOf[queue[n]] = s THEN f[n - 1] ELSE Append(f[n - 1], queue[n])
    OBVIOUS
  <2>4. PICK g : g = [k \in 0..n |-> IF k = n THEN last ELSE f[k]]
    OBVIOUS
  <2>5. ASSUME NEW k \in 0..n
        PROVE  g[k] = IF k = 0 THEN <<>>
                      ELSE IF signalOf[queue[k]] = s THEN g[k - 1]
                      ELSE Append(g[k - 1], queue[k])
    <3>1. CASE k = n
      <4>1. n - 1 \in 0..n /\ n - 1 # n /\ g[n - 1] = f[n - 1]
        BY <2>1, <2>4
      <4> QED
        BY <1>4, <2>3, <2>4, <3>1, <4>1
    <3>2. CASE k # n
      <4>1. k \in 0..(n - 1) /\ g[k] = f[k] /\ (k # 0 => k - 1 \in 0..(n - 1) /\ g[k - 1] = f[k - 1])
        BY <2>1, <2>4, <3>2
      <4>2. f[k] = IF k = 0 THEN <<>>
                   ELSE IF signalOf[queue[k]] = s THEN f[k - 1]
                   ELSE Append(f[k - 1], queue[k])
        BY <2>2, <4>1 DEF Skims
      <4> QED
        BY <4>1, <4>2
    <3> QED
      BY <3>1, <3>2
  <2>6. Skims(g, queue, s, n)
    BY <2>4, <2>5 DEF Skims
  <2> QED
    BY <1>2, <2>6
<1> QED
  BY <1>3, <1>4

\* Others is what such a function says.
LEMMA OthersIs ==
  ASSUME NEW queue, NEW s, Len(queue) \in Nat
  PROVE  \E f : Skims(f, queue, s, Len(queue)) /\ Pool!Others(queue, s) = f[Len(queue)]
<1> DEFINE upTo == CHOOSE g : g = [n \in 0..Len(queue) |->
                     IF n = 0 THEN <<>>
                     ELSE IF signalOf[queue[n]] = s THEN g[n - 1]
                     ELSE Append(g[n - 1], queue[n])]
<1>1. PICK f : Skims(f, queue, s, Len(queue))
  BY SkimsExists
<1>2. f = [n \in 0..Len(queue) |->
             IF n = 0 THEN <<>>
             ELSE IF signalOf[queue[n]] = s THEN f[n - 1]
             ELSE Append(f[n - 1], queue[n])]
  BY <1>1 DEF Skims
<1>3. upTo = [n \in 0..Len(queue) |->
                IF n = 0 THEN <<>>
                ELSE IF signalOf[queue[n]] = s THEN upTo[n - 1]
                ELSE Append(upTo[n - 1], queue[n])]
  BY <1>2, Zenon
<1>4. Pool!Others(queue, s) = upTo[Len(queue)]
  BY DEF Pool!Others
<1> HIDE DEF upTo
<1>5. Skims(upTo, queue, s, Len(queue))
  BY <1>3 DEF Skims
<1> QED
  BY <1>4, <1>5

\* The callers in the queue are those that wait, each of them once.
Queued(queue, st) ==
  /\ queue \in Seq(Callers)
  /\ \A i \in 1..Len(queue) : st[queue[i]] = "waiting"
  /\ \A c \in Callers : st[c] = "waiting" => \E i \in 1..Len(queue) : queue[i] = c
  /\ \A i, j \in 1..Len(queue) : queue[i] = queue[j] => i = j

\* What is left of a queue that is taken up to n: the others among the first n, once each.
Skimmed(q, queue, s, n) ==
  /\ q \in Seq(Callers)
  /\ \A k \in 1..Len(q) : \E i \in 1..n : q[k] = queue[i] /\ signalOf[queue[i]] # s
  /\ \A i \in 1..n : signalOf[queue[i]] # s => \E k \in 1..Len(q) : q[k] = queue[i]
  /\ \A k, l \in 1..Len(q) : q[k] = q[l] => k = l

\* One more caller of the queue.
LEMMA SkimMore ==
  ASSUME NEW queue \in Seq(Callers), NEW s, NEW n \in 1..Len(queue),
         \A i, j \in 1..Len(queue) : queue[i] = queue[j] => i = j,
         NEW q, Skimmed(q, queue, s, n - 1),
         NEW p, p = IF signalOf[queue[n]] = s THEN q ELSE Append(q, queue[n])
  PROVE  Skimmed(p, queue, s, n)
<1>1. /\ queue[n] \in Callers /\ n \in Nat /\ n \in 1..n
      /\ \A i \in 1..n : i = n \/ i \in 1..(n - 1)
      /\ \A i \in 1..(n - 1) : i \in 1..n /\ i # n /\ i \in 1..Len(queue)
  OBVIOUS
<1>2. CASE signalOf[queue[n]] = s
  BY <1>1, <1>2 DEF Skimmed
<1>3. CASE signalOf[queue[n]] # s
  <2>1. PICK m \in Nat : m = Len(q)
    BY DEF Skimmed
  <2>2. /\ p \in Seq(Callers) /\ Len(p) = m + 1 /\ p[m + 1] = queue[n]
        /\ \A k \in 1..m : p[k] = q[k]
        /\ \A k \in 1..(m + 1) : k = m + 1 \/ k \in 1..m
        /\ m + 1 \in 1..(m + 1) /\ \A k \in 1..m : k \in 1..(m + 1)
    BY <1>1, <1>3, <2>1 DEF Skimmed
  <2>3. \A k \in 1..m : \E i \in 1..(n - 1) : p[k] = queue[i] /\ signalOf[queue[i]] # s
    BY <2>1, <2>2 DEF Skimmed
  <2>4. ASSUME NEW k \in 1..m, p[k] = queue[n] PROVE FALSE
    <3>1. PICK i \in 1..(n - 1) : p[k] = queue[i]
      BY <2>3
    <3>2. i \in 1..Len(queue) /\ i # n /\ queue[i] = queue[n]
      BY <1>1, <2>4, <3>1
    <3> QED
      BY <3>2
  <2>5. \A k \in 1..(m + 1) : \E i \in 1..n : p[k] = queue[i] /\ signalOf[queue[i]] # s
    BY <1>1, <1>3, <2>2, <2>3
  <2>6. \A i \in 1..n : signalOf[queue[i]] # s => \E k \in 1..(m + 1) : p[k] = queue[i]
    <3>1. \A i \in 1..(n - 1) : signalOf[queue[i]] # s => \E k \in 1..m : p[k] = queue[i]
      BY <2>1, <2>2 DEF Skimmed
    <3> QED
      BY <1>1, <2>2, <3>1
  <2>7. \A k, l \in 1..(m + 1) : p[k] = p[l] => k = l
    <3>1. \A k, l \in 1..m : p[k] = p[l] => k = l
      BY <2>1, <2>2 DEF Skimmed
    <3> QED
      BY <2>2, <2>4, <3>1
  <2>8. p \in Seq(Callers) /\ 1..Len(p) = 1..(m + 1)
    BY <2>2
  <2> QED
    BY ONLY <2>5, <2>6, <2>7, <2>8 DEF Skimmed
<1> QED
  BY <1>2, <1>3

\* The others of a whole queue.
LEMMA OthersSkimmed ==
  ASSUME NEW queue \in Seq(Callers), NEW s,
         \A i, j \in 1..Len(queue) : queue[i] = queue[j] => i = j
  PROVE  Skimmed(Pool!Others(queue, s), queue, s, Len(queue))
<1>1. PICK N \in Nat : N = Len(queue)
  OBVIOUS
<1>2. PICK f : Skims(f, queue, s, N) /\ Pool!Others(queue, s) = f[N]
  BY <1>1, OthersIs
<1> DEFINE Bad == {n \in 0..N : ~ Skimmed(f[n], queue, s, n)}
<1>3. SUFFICES ASSUME Bad # {} PROVE FALSE
  BY <1>1, <1>2
<1>4. PICK n \in Bad : \A m \in Bad : n <= m
  <2>1. Bad \in SUBSET Nat
    OBVIOUS
  <2> HIDE DEF Bad
  <2> QED
    BY <1>3, <2>1, NatLeast
<1>5. n \in 0..N /\ ~ Skimmed(f[n], queue, s, n)
  BY <1>4
<1>6. f[n] = IF n = 0 THEN <<>>
             ELSE IF signalOf[queue[n]] = s THEN f[n - 1] ELSE Append(f[n - 1], queue[n])
  BY <1>2, <1>5 DEF Skims
<1>7. CASE n = 0
  <2>1. f[n] = <<>> /\ 1..n = {} /\ 1..Len(<<>>) = {}
    BY <1>6, <1>7
  <2>2. <<>> \in Seq(Callers)
    OBVIOUS
  <2> QED
    BY <1>5, <2>1, <2>2 DEF Skimmed
<1>8. CASE n # 0
  <2>1. n \in 1..Len(queue) /\ n - 1 \in 0..N /\ n - 1 < n
    BY <1>1, <1>5, <1>8
  <2>2. Skimmed(f[n - 1], queue, s, n - 1)
    BY <1>4, <2>1
  <2>3. f[n] = IF signalOf[queue[n]] = s THEN f[n - 1] ELSE Append(f[n - 1], queue[n])
    BY <1>6, <1>8
  <2> QED
    BY <1>5, <2>1, <2>2, <2>3, SkimMore
<1> QED
  BY <1>7, <1>8

\* The callers to whom a resource was given, and those that own a place.
HeldBy(h, r) == {c \in Callers : h[c] = r}
OwnersIn(st) == {c \in Callers : st[c] \in {"granted", "inside"}}

\* A number counts a set.
Counts(n, S) == IsFiniteSet(S) /\ n = Cardinality(S)

\* The load of a resource is the number of those that hold it.
Carried(h, load) == \A r \in Pool!Resources : Counts(load[r], HeldBy(h, r))

\* One more, and one fewer.
LEMMA CountsMore ==
  ASSUME NEW n, NEW S, Counts(n, S), NEW x, x \notin S
  PROVE  Counts(n + 1, S \cup {x})
BY FS_AddElement DEF Counts

\* One fewer.
LEMMA CountsLess ==
  ASSUME NEW n, NEW S, Counts(n, S), NEW x, x \in S
  PROVE  Counts(n - 1, S \ {x})
BY FS_RemoveElement DEF Counts

\* The resource r is given to c, which has none.
Gives(h, load, c, r, g, more) ==
  /\ h \in [Callers -> Pool!Resources \cup {None}] /\ Carried(h, load)
  /\ c \in Callers /\ h[c] = None /\ r \in Pool!Resources /\ g = [h EXCEPT ![c] = r]
  /\ more[r] = load[r] + 1 /\ \A q \in Pool!Resources : q # r => more[q] = load[q]

\* The resource of c is given back.
Frees(h, load, c, g, less) ==
  /\ h \in [Callers -> Pool!Resources \cup {None}] /\ Carried(h, load)
  /\ c \in Callers /\ h[c] \in Pool!Resources /\ g = [h EXCEPT ![c] = None]
  /\ less[h[c]] = load[h[c]] - 1 /\ \A q \in Pool!Resources : q # h[c] => less[q] = load[q]

\* A resource that is given to a caller without one serves one more.
LEMMA CarriedMore ==
  ASSUME Pool!PoolAssumption, NEW h, NEW load, NEW c, NEW r, NEW g, NEW more,
         Gives(h, load, c, r, g, more)
  PROVE  Carried(g, more)
<1>1. None \notin Pool!Resources
  BY DEF Pool!PoolAssumption, Pool!Resources
<1>2. c \notin HeldBy(h, r) /\ HeldBy(g, r) = HeldBy(h, r) \cup {c}
  BY <1>1 DEF Gives, Frees, HeldBy
<1>3. Counts(load[r] + 1, HeldBy(h, r) \cup {c})
  BY <1>2, CountsMore DEF Gives, Frees, Carried
<1>4. ASSUME NEW q \in Pool!Resources, q # r PROVE HeldBy(g, q) = HeldBy(h, q)
  BY <1>1, <1>4 DEF Gives, Frees, HeldBy
<1>5. ASSUME NEW q \in Pool!Resources PROVE Counts(more[q], HeldBy(g, q))
  <2>1. CASE q = r
    BY <1>2, <1>3, <2>1 DEF Gives, Frees
  <2>2. CASE q # r
    BY <1>4, <2>2 DEF Gives, Frees, Carried
  <2> QED
    BY <2>1, <2>2
<1> QED
  BY <1>5 DEF Gives, Frees, Carried

\* A resource that is given back serves one fewer.
LEMMA CarriedLess ==
  ASSUME Pool!PoolAssumption, NEW h, NEW load, NEW c, NEW g, NEW less, Frees(h, load, c, g, less)
  PROVE  Carried(g, less)
<1>1. None \notin Pool!Resources
  BY DEF Pool!PoolAssumption, Pool!Resources
<1>2. c \in HeldBy(h, h[c]) /\ HeldBy(g, h[c]) = HeldBy(h, h[c]) \ {c}
  BY <1>1 DEF Gives, Frees, HeldBy
<1>3. Counts(load[h[c]] - 1, HeldBy(h, h[c]) \ {c})
  BY <1>2, CountsLess DEF Gives, Frees, Carried
<1>4. ASSUME NEW q \in Pool!Resources, q # h[c] PROVE HeldBy(g, q) = HeldBy(h, q)
  BY <1>1, <1>4 DEF Gives, Frees, HeldBy
<1>5. ASSUME NEW q \in Pool!Resources PROVE Counts(less[q], HeldBy(g, q))
  <2>1. CASE q = h[c]
    BY <1>2, <1>3, <2>1 DEF Gives, Frees
  <2>2. CASE q # h[c]
    BY <1>4, <2>2 DEF Gives, Frees, Carried
  <2> QED
    BY <2>1, <2>2
<1> QED
  BY <1>5 DEF Gives, Frees, Carried

\* Where a call is.
CallStates == {"new", "waiting", "granted", "inside", "done", "rejected"}

\* A caller that waits joins the queue.
LEMMA QueuedMore ==
  ASSUME NEW queue, NEW st \in [Callers -> CallStates], Queued(queue, st), NEW c \in Callers,
         st[c] # "waiting"
  PROVE  Queued(Append(queue, c), [st EXCEPT ![c] = "waiting"])
<1>1. PICK n \in Nat : n = Len(queue)
  BY DEF Queued
<1>2. PICK more : more = Append(queue, c)
  OBVIOUS
<1>3. /\ more \in Seq(Callers) /\ 1..Len(more) = 1..(n + 1) /\ more[n + 1] = c
      /\ \A i \in 1..n : more[i] = queue[i] /\ i \in 1..(n + 1) /\ queue[i] \in Callers
      /\ \A i \in 1..(n + 1) : i = n + 1 \/ i \in 1..n
      /\ n + 1 \in 1..(n + 1)
  BY <1>1, <1>2 DEF Queued
<1>4. PICK to : to = [st EXCEPT ![c] = "waiting"]
  OBVIOUS
<1>5. to[c] = "waiting" /\ \A d \in Callers : d # c => to[d] = st[d]
  BY <1>4
<1>6. \A i \in 1..n : queue[i] # c
  BY <1>1 DEF Queued
<1>7. \A i \in 1..(n + 1) : to[more[i]] = "waiting"
  BY <1>1, <1>3, <1>5 DEF Queued
<1>8. \A d \in Callers : to[d] = "waiting" => \E i \in 1..(n + 1) : more[i] = d
  BY <1>1, <1>3, <1>5 DEF Queued
<1>9. \A i, j \in 1..(n + 1) : more[i] = more[j] => i = j
  <2>1. \A i, j \in 1..n : more[i] = more[j] => i = j
    BY <1>1, <1>3 DEF Queued
  <2> QED
    BY <1>3, <1>6, <2>1
<1> QED
  BY ONLY <1>2, <1>3, <1>4, <1>7, <1>8, <1>9 DEF Queued

\* The first of the queue leaves it.
LEMMA QueuedLess ==
  ASSUME NEW queue, NEW st \in [Callers -> CallStates], Queued(queue, st), queue # <<>>,
         NEW to \in [Callers -> CallStates], to[Head(queue)] # "waiting",
         \A d \in Callers : d # Head(queue) => (to[d] = "waiting" <=> st[d] = "waiting")
  PROVE  Queued(Tail(queue), to)
<1> PICK n : n = Len(queue) - 1
  OBVIOUS
<1>1. n \in Nat /\ Len(queue) = n + 1
  BY DEF Queued
<1>2. PICK less : less = Tail(queue)
  OBVIOUS
<1>3. /\ less \in Seq(Callers) /\ 1..Len(less) = 1..n
      /\ \A i \in 1..n : less[i] = queue[i + 1] /\ i + 1 \in 1..(n + 1) /\ queue[i + 1] \in Callers
      /\ Head(queue) = queue[1] /\ 1 \in 1..(n + 1)
      /\ \A i \in 1..(n + 1) : i = 1 \/ (i - 1 \in 1..n /\ (i - 1) + 1 = i)
  BY <1>1, <1>2 DEF Queued
<1>4. \A i, j \in 1..(n + 1) : queue[i] = queue[j] => i = j
  BY <1>1 DEF Queued
<1>5. \A i \in 1..n : queue[i + 1] # queue[1]
  BY <1>3, <1>4
<1>6. \A i \in 1..n : to[less[i]] = "waiting"
  BY <1>1, <1>3, <1>5 DEF Queued
<1>7. ASSUME NEW d \in Callers, to[d] = "waiting" PROVE \E i \in 1..n : less[i] = d
  <2>1. d # queue[1] /\ st[d] = "waiting"
    BY <1>3, <1>7
  <2>2. PICK i \in 1..(n + 1) : queue[i] = d
    BY <1>1, <2>1 DEF Queued
  <2>3. i - 1 \in 1..n /\ less[i - 1] = d
    BY <1>3, <2>1, <2>2
  <2> QED
    BY <2>3
<1>8. \A i, j \in 1..n : less[i] = less[j] => i = j
  BY <1>3, <1>4
<1> QED
  BY ONLY <1>2, <1>3, <1>6, <1>7, <1>8 DEF Queued

\* The waiters of a signal leave the queue.
LEMMA QueuedOthers ==
  ASSUME NEW st, Queued(waitQueue, st), NEW s,
         NEW to, to = [c \in Callers |-> IF st[c] = "waiting" /\ signalOf[c] = s THEN "rejected"
                                         ELSE st[c]]
  PROVE  Queued(Pool!Others(waitQueue, s), to)
<1>1. PICK q : q = Pool!Others(waitQueue, s)
  OBVIOUS
<1>2. PICK n \in Nat : n = Len(waitQueue)
  BY DEF Queued
<1>3. Skimmed(q, waitQueue, s, n)
  BY <1>1, <1>2, OthersSkimmed DEF Queued
<1>4. \A i \in 1..n : waitQueue[i] \in Callers /\ st[waitQueue[i]] = "waiting"
  BY <1>2 DEF Queued
<1>5. \A k \in 1..Len(q) : to[q[k]] = "waiting"
  BY <1>3, <1>4 DEF Skimmed
<1>6. ASSUME NEW c \in Callers, to[c] = "waiting" PROVE \E k \in 1..Len(q) : q[k] = c
  <2>1. st[c] = "waiting" /\ signalOf[c] # s
    BY <1>6
  <2>2. PICK i \in 1..n : waitQueue[i] = c
    BY <1>2, <2>1 DEF Queued
  <2> QED
    BY <1>3, <2>1, <2>2 DEF Skimmed
<1> QED
  BY <1>1, <1>3, <1>5, <1>6 DEF Queued, Skimmed

\* What holds of a pool at every step.
PoolKept ==
  /\ Loaded
  /\ Queued(waitQueue, state)
  /\ \A c \in Callers : state[c] \notin {"granted", "inside"} => held[c] = None
  /\ Carried(held, inFlight)
  /\ Counts(Pool!Total(inFlight), OwnersIn(state))
  /\ waitQueue # <<>> => Pool!Room(inFlight) = {}

\* No call of an empty pool has begun.
LEMMA PoolStart ==
  ASSUME Pool!PoolAssumption, Pool!Init PROVE PoolKept
<1>1. Loaded
  BY PoolInit
<1>2. /\ waitQueue = <<>> /\ \A c \in Callers : state[c] = "new" /\ held[c] = None
      /\ \A r \in Pool!Resources : inFlight[r] = 0
  BY DEF Pool!Init
<1>3. Queued(waitQueue, state)
  <2>1. <<>> \in Seq(Callers) /\ 1..Len(<<>>) = {}
    OBVIOUS
  <2> QED
    BY <1>2, <2>1 DEF Queued
<1>4. Counts(0, {})
  BY FS_EmptySet DEF Counts
<1>5. Carried(held, inFlight)
  <2>1. \A r \in Pool!Resources : HeldBy(held, r) = {}
    BY <1>2 DEF HeldBy, Pool!PoolAssumption, Pool!Resources
  <2> QED
    BY <1>2, <1>4, <2>1 DEF Carried
<1>6. Pool!Total(inFlight) = 0
  <2>1. SumFunctionOnSet(inFlight, Pool!Resources) = 0
    BY <1>2, Serving, SumZero
  <2> QED
    BY <2>1, PoolSums DEF Pool!Init
<1>7. OwnersIn(state) = {}
  BY <1>2 DEF OwnersIn
<1> QED
  BY <1>1, <1>2, <1>3, <1>4, <1>5, <1>6, <1>7 DEF PoolKept

\* A call that is rejected, or goes on, is not counted anew.
LEMMA UnservedKept ==
  ASSUME Pool!PoolAssumption, PoolKept, NEW c \in Callers, Pool!Reject(c) \/ Pool!Enter(c)
  PROVE  PoolKept'
<1>1. Loaded'
  BY UnservedMaps DEF PoolKept
<1>2. UNCHANGED <<inFlight, waitQueue, held>> /\ Pool!Total(inFlight)' = Pool!Total(inFlight)
  BY DEF Pool!Reject, Pool!Enter
<1>3. /\ \A d \in Callers : state'[d] = "waiting" <=> state[d] = "waiting"
      /\ \A d \in Callers : state'[d] \in {"granted", "inside"} <=> state[d] \in {"granted", "inside"}
  BY DEF Pool!Reject, Pool!Enter, PoolKept, Loaded
<1>4. Queued(waitQueue, state')
  BY <1>3 DEF PoolKept, Queued
<1>5. OwnersIn(state') = OwnersIn(state)
  BY <1>3 DEF OwnersIn
<1>6. Queued(waitQueue, state)' /\ OwnersIn(state)' = OwnersIn(state')
  BY <1>2, <1>4 DEF Queued, OwnersIn
<1> QED
  BY <1>1, <1>2, <1>3, <1>5, <1>6 DEF PoolKept, Carried, HeldBy, Pool!Room

\* A call that finds no room.
LEMMA QueueKept ==
  ASSUME Pool!PoolAssumption, PoolKept, NEW c \in Callers, Pool!Queue(c)
  PROVE  PoolKept'
<1>1. Loaded'
  BY UnservedMaps DEF PoolKept
<1>2. /\ UNCHANGED <<inFlight, held>> /\ Pool!Total(inFlight)' = Pool!Total(inFlight)
      /\ Pool!Room(inFlight) = {} /\ state[c] = "new"
      /\ waitQueue' = Append(waitQueue, c) /\ state' = [state EXCEPT ![c] = "waiting"]
  BY DEF Pool!Queue
<1>3. Queued(Append(waitQueue, c), [state EXCEPT ![c] = "waiting"])
  <2>1. Queued(waitQueue, state) /\ state \in [Callers -> CallStates] /\ state[c] # "waiting"
    BY <1>2 DEF PoolKept, Loaded, CallStates
  <2> QED
    BY ONLY <2>1, c \in Callers, QueuedMore
<1>4. \A d \in Callers : state'[d] \in {"granted", "inside"} <=> state[d] \in {"granted", "inside"}
  BY <1>2 DEF PoolKept, Loaded
<1>5. OwnersIn(state') = OwnersIn(state)
  BY <1>4 DEF OwnersIn
<1>6. Queued(waitQueue, state)' /\ OwnersIn(state)' = OwnersIn(state')
  BY <1>2, <1>3 DEF Queued, OwnersIn
<1> QED
  BY <1>1, <1>2, <1>4, <1>5, <1>6 DEF PoolKept, Carried, HeldBy, Pool!Room

\* A call that finds room: nobody waits.
LEMMA AcquireKept ==
  ASSUME Pool!PoolAssumption, PoolKept, NEW c \in Callers, Pool!Acquire(c)
  PROVE  PoolKept'
<1>1. Loaded' /\ Pool!Total(inFlight') = Pool!Total(inFlight) + 1
  BY AcquireMaps DEF PoolKept, Pool!Gate!Acquire
<1>2. PICK r \in Pool!Room(inFlight) : /\ inFlight' = [inFlight EXCEPT ![r] = @ + 1]
                                       /\ held' = [held EXCEPT ![c] = r]
  BY Available DEF Pool!Acquire, PoolKept, Loaded
<1>3. /\ state[c] = "new" /\ state' = [state EXCEPT ![c] = "granted"]
      /\ waitQueue' = waitQueue /\ waitQueue = <<>>
  BY DEF Pool!Acquire, PoolKept
<1>4. /\ r \in Pool!Resources /\ held \in [Callers -> Pool!Resources \cup {None}]
      /\ held[c] = None /\ inFlight'[r] = inFlight[r] + 1
      /\ \A q \in Pool!Resources : q # r => inFlight'[q] = inFlight[q]
  BY <1>2, <1>3 DEF PoolKept, Loaded, Pool!Room
<1>5. Carried(held', inFlight')
  <2>1. Carried(held, inFlight) /\ held' = [held EXCEPT ![c] = r]
    BY <1>2 DEF PoolKept
  <2>2. Gives(held, inFlight, c, r, held', inFlight')
    BY <1>4, <2>1 DEF Gives
  <2> QED
    BY <2>2, CarriedMore
<1>6. Queued(waitQueue, state')
  BY <1>3 DEF PoolKept, Queued, Loaded
<1>7. Counts(Pool!Total(inFlight'), OwnersIn(state'))
  <2>1. OwnersIn(state') = OwnersIn(state) \cup {c} /\ c \notin OwnersIn(state)
    BY <1>3 DEF PoolKept, Loaded, OwnersIn
  <2>2. Counts(Pool!Total(inFlight) + 1, OwnersIn(state) \cup {c})
    BY <2>1, CountsMore DEF PoolKept
  <2> QED
    BY <1>1, <2>1, <2>2
<1>8. \A d \in Callers : state'[d] \notin {"granted", "inside"} => held'[d] = None
  BY <1>2, <1>3 DEF PoolKept, Loaded
<1>9. /\ Queued(waitQueue, state)' /\ Carried(held, inFlight)'
      /\ Counts(Pool!Total(inFlight), OwnersIn(state))'
  <2>1. Queued(waitQueue, state)'
    BY <1>3, <1>6 DEF Queued
  <2>2. Carried(held, inFlight)'
    BY <1>5 DEF Carried, HeldBy, Counts
  <2>3. Counts(Pool!Total(inFlight), OwnersIn(state))'
    BY <1>7 DEF Counts, OwnersIn
  <2> QED
    BY <2>1, <2>2, <2>3
<1> QED
  BY <1>1, <1>3, <1>8, <1>9 DEF PoolKept

\* A call that ends and hands its place to the first that waits, if there is one.
LEMMA ReleaseKept ==
  ASSUME Pool!PoolAssumption, PoolKept, NEW c \in Callers, Pool!Release(c)
  PROVE  PoolKept'
<1>1. Loaded' /\ Pool!Gate!Release(c)
  BY ReleaseMaps DEF PoolKept
<1>2. /\ state[c] = "inside" /\ held[c] \in Pool!Resources
      /\ state \in [Callers -> {"new", "waiting", "granted", "inside", "done", "rejected"}]
      /\ held \in [Callers -> Pool!Resources \cup {None}]
      /\ inFlight \in [Pool!Resources -> Int]
      /\ \A r \in Pool!Resources : inFlight[r] <= MaxConcurrent[r]
  BY DEF Pool!Release, PoolKept, Loaded
<1>3. PICK load : load = [inFlight EXCEPT ![held[c]] = @ - 1]
  OBVIOUS
<1>4. PICK free : free = [held EXCEPT ![c] = None]
  OBVIOUS
<1>5. /\ load \in [Pool!Resources -> Int] /\ load[held[c]] = inFlight[held[c]] - 1
      /\ \A q \in Pool!Resources : q # held[c] => load[q] = inFlight[q]
  BY <1>2, <1>3
<1>6. Carried(free, load)
  <2>1. Carried(held, inFlight)
    BY DEF PoolKept
  <2>2. Frees(held, inFlight, c, free, load)
    BY <1>2, <1>4, <1>5, <2>1 DEF Frees
  <2> QED
    BY <2>2, CarriedLess
<1>7. CASE waitQueue = <<>>
  <2>1. /\ inFlight' = load /\ state' = [state EXCEPT ![c] = "done"]
        /\ held' = free /\ waitQueue' = waitQueue
    BY <1>3, <1>4, <1>7 DEF Pool!Release
  <2>2. Pool!Total(inFlight') = Pool!Total(inFlight) - 1
    BY <1>1, <1>7 DEF Pool!Gate!Release
  <2>3. Queued(waitQueue, state')
    BY <1>2, <2>1 DEF PoolKept, Queued
  <2>4. OwnersIn(state') = OwnersIn(state) \ {c} /\ c \in OwnersIn(state)
    BY <1>2, <2>1 DEF OwnersIn
  <2>5. Counts(Pool!Total(inFlight) - 1, OwnersIn(state) \ {c})
    BY <2>4, CountsLess DEF PoolKept
  <2>6. \A d \in Callers : state'[d] \notin {"granted", "inside"} => held'[d] = None
    BY <1>2, <1>4, <2>1 DEF PoolKept
  <2>7. Queued(waitQueue, state)'
    BY <2>1, <2>3 DEF Queued
  <2>8. Carried(held, inFlight)'
    BY <1>6, <2>1 DEF Carried, HeldBy, Counts
  <2>9. Counts(Pool!Total(inFlight), OwnersIn(state))'
    BY <2>2, <2>4, <2>5 DEF Counts, OwnersIn
  <2> QED
    BY <1>1, <1>7, <2>1, <2>6, <2>7, <2>8, <2>9 DEF PoolKept
<1>8. CASE waitQueue # <<>>
  <2>1. held[c] \in Pool!Room(load)
    BY <1>2, <1>5, Serving DEF Pool!Room
  <2> PICK h : h = Head(waitQueue)
    OBVIOUS
  <2>2. PICK r \in Pool!Room(load) :
          /\ inFlight' = [load EXCEPT ![r] = @ + 1]
          /\ state' = [state EXCEPT ![c] = "done", ![h] = "granted"]
          /\ held' = [held EXCEPT ![c] = None, ![h] = r]
          /\ waitQueue' = Tail(waitQueue)
    BY <1>3, <1>5, <1>8, <2>1, Available DEF Pool!Release
  <2>3. h \in Callers /\ state[h] = "waiting" /\ h # c
    <3>1. Head(waitQueue) = waitQueue[1] /\ 1 \in 1..Len(waitQueue) /\ waitQueue[1] \in Callers
      BY <1>8 DEF PoolKept, Queued
    <3> QED
      BY <1>2, <3>1 DEF PoolKept, Queued
  <2>4. held' = [free EXCEPT ![h] = r] /\ free \in [Callers -> Pool!Resources \cup {None}]
    BY <1>2, <1>4, <2>2
  <2>5. free[h] = None
    BY <1>2, <1>4, <2>3 DEF PoolKept
  <2>6. /\ r \in Pool!Resources /\ inFlight'[r] = load[r] + 1
        /\ \A q \in Pool!Resources : q # r => inFlight'[q] = load[q]
    BY <1>5, <2>2 DEF Pool!Room
  <2>7. Carried(held', inFlight')
    <3>1. Gives(free, load, h, r, held', inFlight')
      BY <1>6, <2>3, <2>4, <2>5, <2>6 DEF Gives
    <3> QED
      BY <3>1, CarriedMore
  <2>8. Pool!Total(inFlight') = (Pool!Total(inFlight) - 1) + 1
    BY <1>1, <1>8 DEF Pool!Gate!Release
  <2>9. /\ state'[c] = "done" /\ state'[h] = "granted"
        /\ \A d \in Callers : d # c /\ d # h => state'[d] = state[d]
        /\ state' \in [Callers -> CallStates] /\ state \in [Callers -> CallStates]
    BY <1>2, <2>2, <2>3 DEF CallStates
  <2>10. Queued(Tail(waitQueue), state')
    <3>1. \A d \in Callers : d # h => (state'[d] = "waiting" <=> state[d] = "waiting")
      BY <1>2, <2>9
    <3>2. Queued(waitQueue, state) /\ h = Head(waitQueue) /\ state'[h] # "waiting"
      BY <2>9 DEF PoolKept
    <3> QED
      BY <1>8, <2>9, <3>1, <3>2, QueuedLess
  <2>11. Counts(Pool!Total(inFlight'), OwnersIn(state'))
    <3>1. OwnersIn(state') = (OwnersIn(state) \ {c}) \cup {h}
      BY <1>2, <2>3, <2>9 DEF OwnersIn
    <3>2. c \in OwnersIn(state) /\ h \notin OwnersIn(state) \ {c}
      BY <1>2, <2>3 DEF OwnersIn
    <3>3. Counts(Pool!Total(inFlight) - 1, OwnersIn(state) \ {c})
      BY <3>2, CountsLess DEF PoolKept
    <3>4. Counts((Pool!Total(inFlight) - 1) + 1, (OwnersIn(state) \ {c}) \cup {h})
      BY <3>2, <3>3, CountsMore
    <3> QED
      BY <2>8, <3>1, <3>4
  <2>12. \A d \in Callers : state'[d] \notin {"granted", "inside"} => held'[d] = None
    <3>1. \A d \in Callers : d # c /\ d # h => held'[d] = held[d]
      BY <1>2, <2>2
    <3>2. held'[c] = None
      BY <1>2, <2>2, <2>3
    <3> QED
      BY <2>9, <3>1, <3>2 DEF PoolKept
  <2>13. Pool!Room(inFlight') = {}
    <3>1. Pool!Total(inFlight) = Pool!Total(MaxConcurrent) /\ Pool!Total(inFlight) \in Int
      BY <1>2, <1>8, RoomOf DEF PoolKept
    <3>2. Pool!Total(inFlight') = Pool!Total(MaxConcurrent)
      BY <2>8, <3>1
    <3>3. /\ inFlight' \in [Pool!Resources -> Int]
          /\ \A q \in Pool!Resources : inFlight'[q] <= MaxConcurrent[q]
      BY <1>1 DEF Loaded
    <3>4. Pool!Room(inFlight') # {} => Pool!Total(inFlight') < Pool!Total(MaxConcurrent)
      BY <3>3, RoomOf
    <3> QED
      BY <3>1, <3>2, <3>4
  <2>14. Queued(waitQueue, state)'
    BY <2>2, <2>10 DEF Queued
  <2>15. Carried(held, inFlight)'
    BY <2>7 DEF Carried, HeldBy, Counts
  <2>16. Counts(Pool!Total(inFlight), OwnersIn(state))'
    BY <2>11 DEF Counts, OwnersIn
  <2> QED
    BY <1>1, <2>12, <2>13, <2>14, <2>15, <2>16 DEF PoolKept, Pool!Room
<1> QED
  BY <1>7, <1>8

\* An aborted signal takes its waiters out of the queue and nothing else.
LEMMA AbortKept ==
  ASSUME Pool!PoolAssumption, PoolKept, NEW s \in Signals, Pool!Abort(s)
  PROVE  PoolKept'
<1>1. Loaded'
  BY AbortMaps DEF PoolKept
<1>2. /\ UNCHANGED <<inFlight, held>> /\ waitQueue' = Pool!Others(waitQueue, s)
      /\ Pool!Total(inFlight)' = Pool!Total(inFlight)
      /\ state' = [c \in Callers |-> IF state[c] = "waiting" /\ signalOf[c] = s THEN "rejected"
                                     ELSE state[c]]
  BY DEF Pool!Abort
<1>3. Queued(waitQueue', state')
  BY <1>2, QueuedOthers DEF PoolKept
<1>4. \A d \in Callers : state'[d] \in {"granted", "inside"} <=> state[d] \in {"granted", "inside"}
  BY <1>2 DEF PoolKept, Loaded
<1>5. OwnersIn(state') = OwnersIn(state)
  BY <1>4 DEF OwnersIn
<1>6. waitQueue = <<>> => waitQueue' = <<>>
  <2> SUFFICES ASSUME waitQueue = <<>> PROVE waitQueue' = <<>>
    OBVIOUS
  <2>1. waitQueue' \in Seq(Callers) /\ \A c \in Callers : state[c] # "waiting"
    BY <1>3 DEF Queued, PoolKept
  <2>2. \A i \in 1..Len(waitQueue') : waitQueue'[i] \in Callers /\ state'[waitQueue'[i]] = "waiting"
    BY <1>3 DEF Queued
  <2>3. \A c \in Callers : state'[c] # "waiting"
    BY <1>2, <2>1
  <2>4. 1 \notin 1..Len(waitQueue')
    BY <2>2, <2>3
  <2> QED
    BY <2>1, <2>4
<1>7. Queued(waitQueue, state)' /\ OwnersIn(state)' = OwnersIn(state')
  BY <1>3 DEF Queued, OwnersIn
<1> QED
  BY <1>1, <1>2, <1>4, <1>5, <1>6, <1>7 DEF PoolKept, Carried, HeldBy, Pool!Room

\* What the property says in the words of the two modules.
LEMMA KeptIsAccounted ==
  ASSUME Pool!PoolAssumption, PoolKept PROVE RoomAccounted
<1>1. /\ \A S : Pool!Cardinality(S) = Cardinality(S)
      /\ \A S : Pool!Gate!Cardinality(S) = Cardinality(S)
  BY DEF Pool!Cardinality, Pool!Gate!Cardinality, Cardinality
<1>2. Pool!LoadAccounted
  <2>1. \A r \in Pool!Resources : inFlight[r] = Cardinality({c \in Callers : held[c] = r})
    BY DEF PoolKept, Carried, Counts, HeldBy
  <2>2. \A r \in Pool!Resources : inFlight[r] <= MaxConcurrent[r]
    BY DEF PoolKept, Loaded
  <2> QED
    BY <1>1, <2>1, <2>2 DEF Pool!LoadAccounted, PoolKept
<1>3. Pool!Total(inFlight) = Cardinality(Pool!Gate!Owners)
  BY DEF PoolKept, Counts, OwnersIn, Pool!Gate!Owners
<1>4. /\ Pool!Total(inFlight) <= Pool!Total(MaxConcurrent)
      /\ waitQueue # <<>> => Pool!Total(inFlight) = Pool!Total(MaxConcurrent)
  BY RoomOf DEF PoolKept, Loaded
<1>5. Pool!Gate!ToSet(waitQueue) = {c \in Callers : state[c] = "waiting"}
  <2>1. Pool!Gate!ToSet(waitQueue) = {waitQueue[i] : i \in 1..Len(waitQueue)}
    BY DEF Pool!Gate!ToSet, PoolKept, Queued
  <2> QED
    BY <2>1 DEF PoolKept, Queued
<1>6. Pool!Gate!IsInjective(waitQueue)
  BY DEF Pool!Gate!IsInjective, PoolKept, Queued
<1>7. Pool!Gate!SlotsAccounted
  BY <1>1, <1>3, <1>4, <1>5, <1>6 DEF Pool!Gate!SlotsAccounted
<1> QED
  BY <1>2, <1>7 DEF RoomAccounted

(***************************************************************************)
(* For a pool of any resources, any calls and any signals: the load of a   *)
(* resource is the number of callers that hold it and never more than it   *)
(* serves, the loads together are the callers let in, nobody is queued     *)
(* twice or without waiting, and nobody waits while a resource has room,   *)
(* whatever is aborted while places are handed on (resource-pool.ts).      *)
(***************************************************************************)
THEOREM PoolAccounted ==
  ASSUME Pool!PoolAssumption PROVE Pool!Spec => []RoomAccounted
<1>1. Pool!Init => PoolKept
  BY PoolStart
<1>2. PoolKept /\ [Pool!Next]_Pool!poolVars => PoolKept'
  <2> SUFFICES ASSUME PoolKept, [Pool!Next]_Pool!poolVars PROVE PoolKept'
    OBVIOUS
  <2>1. CASE UNCHANGED Pool!poolVars
    BY <2>1 DEF Pool!poolVars, PoolKept, Loaded, Queued, Carried, Counts, HeldBy, OwnersIn, Pool!Room
  <2>2. ASSUME NEW c \in Callers,
               Pool!Reject(c) \/ Pool!Acquire(c) \/ Pool!Queue(c) \/ Pool!Advance(c)
        PROVE  PoolKept'
    BY <2>2, UnservedKept, AcquireKept, QueueKept, ReleaseKept DEF Pool!Advance
  <2>3. ASSUME NEW s \in Signals, Pool!Abort(s) PROVE PoolKept'
    BY <2>3, AbortKept
  <2> QED
    BY <2>1, <2>2, <2>3 DEF Pool!Next
<1>3. PoolKept => RoomAccounted
  BY KeptIsAccounted
<1> QED
  BY <1>1, <1>2, <1>3, PTL DEF Pool!Spec
=============================================================================
