-------------------------- MODULE WorkItemsProofs --------------------------
(***************************************************************************)
(* Theorems about WorkItems, for every set of calls and items, every       *)
(* workflow and any number of crashes, failing steps and overruns of the   *)
(* unit of work: type correctness, no lost update, closed items stay       *)
(* closed, the audit stream is truthful and in order, and no update goes   *)
(* without its event or its message but by a fault.                        *)
(***************************************************************************)
EXTENDS WorkItems, FiniteSetTheorems, TLAPS

\* The initial state is well typed.
LEMMA TypeInit == Init => TypeOK
<1> SUFFICES ASSUME Init PROVE TypeOK
  OBVIOUS
<1>1. [i \in Items |-> <<>>] \in [Items -> Seq(AuditEvent)]
  OBVIOUS
<1> QED
  BY <1>1, WorkItemsAssumption DEF Init, TypeOK, PCs, Inside

\* What the steps of a call touch that is not about items.
EnvironmentType ==
  /\ now \in 0..MaxTime
  /\ faults \in 0..MaxFaults
  /\ overruns \in 0..MaxOverruns
  /\ uow \in Calls \cup {None}
  /\ issued \subseteq Items

\* A call has something to save, with the item it is about, when it gets that far.
Drafted ==
  \A c \in Calls :
    /\ pc[c] # "new" => target[c] \in Items
    /\ pc[c] = "loaded" => current[c] # None
    /\ pc[c] \in {"ready"} \cup Inside => updated[c] # None

(***************************************************************************)
(* Which actions leave what alone.                                         *)
(***************************************************************************)
Quiet(c) ==
  Reject(c) \/ Enter(c) \/ TimeOut(c) \/ Conflict(c) \/ Leave(c) \/ StepFails(c) \/ Crash(c)

\* The actions that move one call on and leave the items and the drafts alone.
LEMMA QuietStep ==
  ASSUME TypeOK, NEW c \in Calls, Quiet(c)
  PROVE  /\ UNCHANGED <<store, local, issued>>
         /\ pc' \in [Calls -> PCs]
         /\ \A d \in Calls \ {c} : pc'[d] = pc[d]
         /\ \/ pc[c] = "loaded" /\ pc'[c] = "rejected"
            \/ pc[c] = "ready" /\ pc'[c] = "save"
            \/ pc[c] = "leave" /\ pc'[c] = "done"
            \/ pc[c] # "new" /\ pc'[c] \in {"failed", "crashed", "rejected"}
         /\ EnvironmentType'
<1> USE DEF TypeOK, EnvironmentType
<1>1. CASE Reject(c)
  BY <1>1 DEF Reject, Goto, PCs, Inside, store, local, environment
<1>2. CASE Enter(c)
  BY <1>2 DEF Enter, Goto, PCs, Inside, store, local, environment
<1>3. CASE TimeOut(c)
  BY <1>3 DEF TimeOut, Goto, PCs, Inside, store, local, environment
<1>4. CASE Conflict(c)
  BY <1>4 DEF Conflict, Goto, PCs, Inside, store, local, environment
<1>5. CASE Leave(c)
  BY <1>5 DEF Leave, Goto, PCs, Inside, store, local, environment
<1>6. CASE StepFails(c)
  BY <1>6, WorkItemsAssumption DEF StepFails, Fault, Goto, PCs, Inside, store, local
<1>7. CASE Crash(c)
  BY <1>7, WorkItemsAssumption DEF Crash, Fault, Goto, PCs, Inside, store, local
<1> QED
  BY <1>1, <1>2, <1>3, <1>4, <1>5, <1>6, <1>7 DEF Quiet

\* The steps of the environment move no call and no item.
Elsewhere == Tick \/ Recover \/ Overrun \/ UNCHANGED vars

\* A step of the environment leaves items, calls and drafts alone.
LEMMA ElsewhereStep ==
  ASSUME TypeOK, Elsewhere
  PROVE  UNCHANGED <<store, local, issued, pc>> /\ EnvironmentType'
BY WorkItemsAssumption
   DEF Elsewhere, Tick, Recover, Overrun, vars, store, local, environment, TypeOK, EnvironmentType

\* The steps, grouped by what they leave alone.
LEMMA Steps ==
  ASSUME [Next]_vars
  PROVE  \/ Elsewhere
         \/ \E c \in Calls :
              \/ \E i \in Items : Create(c, i) \/ Load(c, i)
              \/ Compute(c) \/ Save(c) \/ AppendEvent(c) \/ SaveMessage(c) \/ Quiet(c)
BY DEF Next, Elsewhere, Quiet

\* The successor of a work item is one, a version and a change further.
LEMMA ChangeType ==
  ASSUME TypeOK, NEW c \in Calls, current[c] # None, NEW to \in States
  PROVE  /\ Change(c, to) \in WorkItem
         /\ Change(c, to).version = current[c].version + 1
         /\ Change(c, to).changes = current[c].changes \cup {c}
<1>1. /\ current[c].version + 1 \in Nat
      /\ current[c].changes \cup {c} \in SUBSET Calls
      /\ now \in 0..MaxTime
  BY DEF TypeOK, WorkItem
<1> QED
  BY <1>1 DEF Change, WorkItem

\* Every step keeps the types.
LEMMA TypeStep == TypeOK /\ Drafted /\ [Next]_vars => (TypeOK /\ Drafted)'
<1> SUFFICES ASSUME TypeOK, Drafted, [Next]_vars PROVE (TypeOK /\ Drafted)'
  OBVIOUS
<1>1. CASE Elsewhere
  BY <1>1, ElsewhereStep DEF store, local, TypeOK, EnvironmentType, Drafted
<1>2. ASSUME NEW c \in Calls, Quiet(c) PROVE (TypeOK /\ Drafted)'
  BY <1>2, QuietStep DEF store, local, TypeOK, EnvironmentType, Drafted, Inside
<1>3. ASSUME NEW c \in Calls, NEW i \in Items, Create(c, i) PROVE (TypeOK /\ Drafted)'
  <2>1. [version |-> 1, status |-> InitialState, updatedAt |-> now, changes |-> {c}]
          \in WorkItem
    BY WorkItemsAssumption DEF TypeOK, WorkItem
  <2> QED
    BY <1>3, <2>1, NoneAssumption
       DEF Create, Goto, store, environment, TypeOK, Drafted, PCs, Inside
<1>4. ASSUME NEW c \in Calls, NEW i \in Items, Load(c, i) PROVE (TypeOK /\ Drafted)'
  BY <1>4 DEF Load, Goto, store, environment, TypeOK, Drafted, PCs, Inside
<1>5. ASSUME NEW c \in Calls, Compute(c) PROVE (TypeOK /\ Drafted)'
  <2>1. PICK to \in Successors(current[c].status) :
          updated' = [updated EXCEPT ![c] = Change(c, to)]
    BY <1>5 DEF Compute
  <2>2. current[c] # None /\ current[c] \in WorkItem
    BY <1>5 DEF Compute, Goto, Drafted, TypeOK
  <2>3. to \in States
    BY <2>2 DEF Successors, WorkItem
  <2>4. Change(c, to) \in WorkItem
    BY <2>2, <2>3, ChangeType
  <2> QED
    BY <1>5, <2>1, <2>4, NoneAssumption
       DEF Compute, Goto, store, environment, TypeOK, Drafted, PCs, Inside
<1>6. ASSUME NEW c \in Calls, Save(c) PROVE (TypeOK /\ Drafted)'
  <2>1. target[c] \in Items /\ updated[c] \in WorkItem
    BY <1>6 DEF Save, Goto, Drafted, TypeOK, Inside
  <2> QED
    BY <1>6, <2>1 DEF Save, Goto, local, environment, TypeOK, Drafted, PCs, Inside
<1>7. ASSUME NEW c \in Calls, AppendEvent(c) PROVE (TypeOK /\ Drafted)'
  <2>1. target[c] \in Items /\ updated[c] \in WorkItem
    BY <1>7 DEF AppendEvent, Goto, Drafted, TypeOK, Inside
  <2>2. Event(c) \in AuditEvent
    BY <2>1 DEF Event, AuditEvent, WorkItem
  <2>3. Append(stream[target[c]], Event(c)) \in Seq(AuditEvent)
    BY <2>1, <2>2 DEF TypeOK
  <2>4. stream' \in [Items -> Seq(AuditEvent)]
    BY <1>7, <2>1, <2>3 DEF AppendEvent, TypeOK
  <2> QED
    BY <1>7, <2>4 DEF AppendEvent, Goto, local, environment, TypeOK, Drafted, PCs, Inside
<1>8. ASSUME NEW c \in Calls, SaveMessage(c) PROVE (TypeOK /\ Drafted)'
  BY <1>8 DEF SaveMessage, Goto, local, environment, TypeOK, Drafted, PCs, Inside
<1> QED
  BY <1>1, <1>2, <1>3, <1>4, <1>5, <1>6, <1>7, <1>8, Steps

\* Nothing has been drafted at first.
LEMMA DraftedInit == Init => Drafted
BY DEF Init, Drafted, Inside

(***************************************************************************)
(* The variables of the write path always have their types.                *)
(***************************************************************************)
THEOREM TypeCorrect == Spec => []TypeOK
<1>1. TypeOK /\ Drafted /\ [Next]_vars => (TypeOK /\ Drafted)'
  BY TypeStep
<1> QED
  BY TypeInit, DraftedInit, <1>1, PTL DEF Spec
-----------------------------------------------------------------------------
(***************************************************************************)
(* Why no update is lost.  A call that loaded an item has either the       *)
(* stored item or an older version of it (Basis); what it wants to save    *)
(* adds one version and its own change to that, and was open (Draft); a    *)
(* call that creates an item is alone with its id (Creators).  So a save   *)
(* that passes the version check only adds to the item.                    *)
(***************************************************************************)
Basis ==
  \A c \in Calls :
    pc[c] \in {"loaded", "ready", "save"} /\ current[c] # None =>
      LET stored == items[target[c]]
      IN  /\ stored # None
          /\ current[c].version <= stored.version
          /\ current[c].version = stored.version => stored = current[c]

Draft ==
  \A c \in Calls :
    pc[c] \in {"ready", "save"} =>
      /\ c \in updated[c].changes
      /\ current[c] = None => updated[c].changes = {c}
      /\ current[c] # None =>
           /\ updated[c].version = current[c].version + 1
           /\ updated[c].changes = current[c].changes \cup {c}
           /\ current[c].status \notin ClosedStates

Creating(c) == pc[c] \in {"ready", "save"} /\ current[c] = None

Creators ==
  /\ \A c \in Calls : pc[c] = "new" => current[c] = None
  /\ \A i \in Items : items[i] # None => i \in issued
  /\ \A c \in Calls :
       Creating(c) =>
         /\ target[c] \in issued
         /\ items[target[c]] = None
         /\ \A d \in Calls \ {c} : Creating(d) => target[d] # target[c]

\* Calls that have saved, and go on.
PastSave == {"append", "message", "leave", "done"}

Kept ==
  \A c \in Calls :
    pc[c] \in PastSave => items[target[c]] # None /\ c \in items[target[c]].changes

WriteInv == TypeOK /\ Drafted /\ Basis /\ Draft /\ Creators /\ Kept

\* The write invariant holds of an empty repository.
LEMMA WriteInit == Init => WriteInv
<1> SUFFICES ASSUME Init PROVE WriteInv
  OBVIOUS
<1>1. Basis /\ Draft /\ Creators /\ Kept
  BY DEF Init, Basis, Draft, Creators, Creating, Kept, PastSave
<1> QED
  BY <1>1, TypeInit, DraftedInit DEF WriteInv

(***************************************************************************)
(* What a save finds and leaves: the loaded item and its successor, or     *)
(* nothing and the new item.                                               *)
(***************************************************************************)
LEMMA SaveStep ==
  ASSUME WriteInv, NEW c \in Calls, Save(c)
  PROVE  /\ target[c] \in Items /\ updated[c] \in WorkItem
         /\ items' = [items EXCEPT ![target[c]] = updated[c]]
         /\ pc[c] = "save" /\ pc' = [pc EXCEPT ![c] = "append"]
         /\ UNCHANGED <<stream, outbox, issued, local>>
         /\ c \in updated[c].changes
         /\ current[c] = None =>
              items[target[c]] = None /\ updated[c].changes = {c}
         /\ current[c] # None =>
              /\ items[target[c]] # None /\ items[target[c]] = current[c]
              /\ current[c] \in WorkItem
              /\ current[c].status \notin ClosedStates
              /\ updated[c].version = current[c].version + 1
              /\ updated[c].changes = current[c].changes \cup {c}
<1>1. pc[c] = "save" /\ pc' = [pc EXCEPT ![c] = "append"]
  BY DEF Save, Goto
<1>2. target[c] \in Items /\ updated[c] \in WorkItem
  BY <1>1 DEF WriteInv, Drafted, TypeOK, Inside
<1>3. c \in updated[c].changes
  BY <1>1 DEF WriteInv, Draft
<1>4. ASSUME current[c] = None
      PROVE  items[target[c]] = None /\ updated[c].changes = {c}
  BY <1>1, <1>4 DEF WriteInv, Draft, Creators, Creating
<1>5. ASSUME current[c] # None
      PROVE  /\ items[target[c]] # None /\ items[target[c]] = current[c]
             /\ current[c] \in WorkItem
             /\ current[c].status \notin ClosedStates
             /\ updated[c].version = current[c].version + 1
             /\ updated[c].changes = current[c].changes \cup {c}
  <2>1. items[target[c]] # None /\ items[target[c]].version = current[c].version
    BY <1>5 DEF Save, SavesOver
  <2>2. items[target[c]] = current[c]
    BY <1>1, <1>5, <2>1 DEF WriteInv, Basis
  <2> QED
    BY <1>1, <1>5, <2>1, <2>2 DEF WriteInv, Draft, TypeOK
<1> QED
  BY <1>1, <1>2, <1>3, <1>4, <1>5 DEF Save, local

\* The item changes in no step but a save.
LEMMA ItemsStep ==
  ASSUME WriteInv, [Next]_vars
  PROVE  UNCHANGED items \/ \E c \in Calls : Save(c)
<1>1. CASE Elsewhere
  BY <1>1, ElsewhereStep DEF WriteInv, store
<1>2. ASSUME NEW c \in Calls, Quiet(c) PROVE UNCHANGED items
  BY <1>2, QuietStep DEF WriteInv, store
<1> QED
  BY <1>1, <1>2, Steps DEF Create, Load, Compute, AppendEvent, SaveMessage, store

(***************************************************************************)
(* What has been saved is only added to, and not at all once it is closed. *)
(***************************************************************************)
LEMMA Growth ==
  ASSUME WriteInv, [Next]_vars, NEW i \in Items, items[i] # None
  PROVE  /\ items'[i] # None
         /\ items[i].changes \subseteq items'[i].changes
         /\ items[i].version <= items'[i].version
         /\ items'[i] # items[i] =>
              /\ items[i].status \notin ClosedStates
              /\ items'[i].version = items[i].version + 1
<1>1. CASE UNCHANGED items
  BY <1>1 DEF WriteInv, TypeOK, WorkItem
<1>2. ASSUME NEW c \in Calls, Save(c), target[c] = i
      PROVE  /\ items'[i] # None
             /\ items[i].changes \subseteq items'[i].changes
             /\ items[i].version <= items'[i].version
             /\ items[i].status \notin ClosedStates
             /\ items'[i].version = items[i].version + 1
  <2>1. items'[i] = updated[c] /\ updated[c] \in WorkItem
    BY <1>2, SaveStep DEF WriteInv, TypeOK
  <2>2. /\ items[i] = current[c] /\ items[i] \in WorkItem
        /\ items[i].status \notin ClosedStates
        /\ updated[c].version = items[i].version + 1
        /\ updated[c].changes = items[i].changes \cup {c}
    BY <1>2, SaveStep
  <2>3. items[i].version \in Nat
    BY <2>2 DEF WorkItem
  <2> QED
    BY <2>1, <2>2, <2>3, NoneAssumption
<1>3. ASSUME NEW c \in Calls, Save(c), target[c] # i PROVE items'[i] = items[i]
  BY <1>3, SaveStep DEF WriteInv, TypeOK
<1>4. items[i] \in WorkItem /\ items[i].version \in Nat
  BY DEF WriteInv, TypeOK, WorkItem
<1> QED
  BY <1>1, <1>2, <1>3, <1>4, ItemsStep

\* Every step keeps what open calls have loaded behind, or equal to, what is stored.
LEMMA BasisStep == WriteInv /\ [Next]_vars => Basis'
<1> SUFFICES ASSUME WriteInv, [Next]_vars,
                    NEW c \in Calls,
                    pc'[c] \in {"loaded", "ready", "save"}, current'[c] # None
             PROVE  LET stored == items'[target'[c]]
                    IN  /\ stored # None
                        /\ current'[c].version <= stored.version
                        /\ current'[c].version = stored.version => stored = current'[c]
  BY DEF Basis
\* A call that stays where it is, or goes on towards its save, keeps its basis.
<1>1. ASSUME pc[c] \in {"loaded", "ready", "save"},
             current'[c] = current[c], target'[c] = target[c]
      PROVE  LET stored == items'[target'[c]]
             IN  /\ stored # None
                 /\ current'[c].version <= stored.version
                 /\ current'[c].version = stored.version => stored = current'[c]
  <2> DEFINE i == target[c]
  <2>1. i \in Items /\ current[c] \in WorkItem
    BY <1>1 DEF WriteInv, Drafted, TypeOK
  <2>2. /\ items[i] # None /\ items[i] \in WorkItem
        /\ current[c].version <= items[i].version
        /\ current[c].version = items[i].version => items[i] = current[c]
    BY <1>1, <2>1 DEF WriteInv, Basis, TypeOK
  <2>3. /\ items'[i] # None
        /\ items'[i] # items[i] => items'[i].version = items[i].version + 1
    BY <2>1, <2>2, Growth
  <2>4. current[c].version \in Nat /\ items[i].version \in Nat
    BY <2>1, <2>2 DEF WorkItem
  <2> QED
    BY <1>1, <2>2, <2>3, <2>4
<1>2. CASE Elsewhere
  BY <1>1, <1>2, ElsewhereStep DEF WriteInv, local
<1>3. ASSUME NEW d \in Calls, Quiet(d)
      PROVE  /\ pc[c] \in {"loaded", "ready", "save"}
             /\ current'[c] = current[c] /\ target'[c] = target[c]
  BY <1>3, QuietStep DEF WriteInv, local
<1>4. ASSUME NEW d \in Calls, NEW i \in Items, Create(d, i)
      PROVE  /\ pc[c] \in {"loaded", "ready", "save"}
             /\ current'[c] = current[c] /\ target'[c] = target[c]
  BY <1>4 DEF Create, Goto, WriteInv, TypeOK, Creators
<1>5. ASSUME NEW d \in Calls, NEW i \in Items, Load(d, i), d # c
      PROVE  /\ pc[c] \in {"loaded", "ready", "save"}
             /\ current'[c] = current[c] /\ target'[c] = target[c]
  BY <1>5 DEF Load, Goto, WriteInv, TypeOK
<1>6. ASSUME NEW i \in Items, Load(c, i)
      PROVE  /\ current'[c] = items'[target'[c]] /\ items'[target'[c]] \in WorkItem
  BY <1>6 DEF Load, WriteInv, TypeOK, store
<1>7. ASSUME NEW d \in Calls, Compute(d) \/ Save(d) \/ AppendEvent(d) \/ SaveMessage(d)
      PROVE  /\ pc[c] \in {"loaded", "ready", "save"}
             /\ current'[c] = current[c] /\ target'[c] = target[c]
  BY <1>7 DEF Compute, Save, AppendEvent, SaveMessage, Goto, WriteInv, TypeOK, local
<1>8. ASSUME NEW i \in Items, Load(c, i)
      PROVE  LET stored == items'[target'[c]]
             IN  /\ stored # None
                 /\ current'[c].version <= stored.version
                 /\ current'[c].version = stored.version => stored = current'[c]
  BY <1>6, <1>8, NoneAssumption DEF WorkItem
<1> QED
  BY <1>1, <1>2, <1>3, <1>4, <1>5, <1>7, <1>8, Steps

\* Every step keeps drafts one version and one change ahead of what was loaded.
LEMMA DraftStep == WriteInv /\ [Next]_vars => Draft'
<1> SUFFICES ASSUME WriteInv, [Next]_vars, NEW c \in Calls, pc'[c] \in {"ready", "save"}
             PROVE  /\ c \in updated'[c].changes
                    /\ current'[c] = None => updated'[c].changes = {c}
                    /\ current'[c] # None =>
                         /\ updated'[c].version = current'[c].version + 1
                         /\ updated'[c].changes = current'[c].changes \cup {c}
                         /\ current'[c].status \notin ClosedStates
  BY DEF Draft
<1> DEFINE Same == /\ pc[c] \in {"ready", "save"}
                   /\ updated'[c] = updated[c] /\ current'[c] = current[c]
<1>1. CASE Same
  BY <1>1 DEF WriteInv, Draft
<1>2. CASE Elsewhere
  BY <1>1, <1>2, ElsewhereStep DEF WriteInv, local
<1>3. ASSUME NEW d \in Calls, Quiet(d) PROVE Same
  BY <1>3, QuietStep DEF WriteInv, local
<1>4. ASSUME NEW d \in Calls, NEW i \in Items, d # c, Create(d, i) PROVE Same
  BY <1>4 DEF Create, Goto, WriteInv, TypeOK
<1>5. ASSUME NEW i \in Items, Create(c, i)
      PROVE  current'[c] = None /\ updated'[c].changes = {c}
  BY <1>5 DEF Create, Goto, WriteInv, TypeOK, Creators
<1>6. ASSUME NEW d \in Calls, NEW i \in Items, Load(d, i) PROVE Same
  BY <1>6 DEF Load, Goto, WriteInv, TypeOK
<1>7. ASSUME NEW d \in Calls, d # c, Compute(d) PROVE Same
  BY <1>7 DEF Compute, Goto, WriteInv, TypeOK
<1>8. ASSUME Compute(c)
      PROVE  /\ current'[c] = current[c] /\ current[c] # None
             /\ updated'[c].version = current[c].version + 1
             /\ updated'[c].changes = current[c].changes \cup {c}
             /\ current[c].status \notin ClosedStates
  <2>1. PICK to \in Successors(current[c].status) :
          updated' = [updated EXCEPT ![c] = Change(c, to)]
    BY <1>8 DEF Compute
  <2>2. current[c] # None /\ current[c] \in WorkItem
    BY <1>8 DEF Compute, Goto, WriteInv, Drafted, TypeOK
  <2>3. current[c].status \notin ClosedStates /\ to \in States
    BY <2>1, <2>2 DEF Successors, WorkItem
  <2>4. updated'[c] = Change(c, to)
    BY <2>1 DEF WriteInv, TypeOK
  <2> QED
    BY <1>8, <2>2, <2>3, <2>4, ChangeType DEF Compute, WriteInv
<1>9. ASSUME NEW d \in Calls, Save(d) \/ AppendEvent(d) \/ SaveMessage(d) PROVE Same
  BY <1>9 DEF Save, AppendEvent, SaveMessage, Goto, WriteInv, TypeOK, local
<1> QED
  BY <1>1, <1>2, <1>3, <1>4, <1>5, <1>6, <1>7, <1>8, <1>9, Steps

\* Every step keeps the calls that create items alone with their ids.
LEMMA CreatorsStep == WriteInv /\ [Next]_vars => Creators'
<1> SUFFICES ASSUME WriteInv, [Next]_vars PROVE Creators'
  OBVIOUS
<1> USE DEF WriteInv, TypeOK
<1>1. CASE Elsewhere
  BY <1>1, ElsewhereStep DEF local, store, Creators, Creating
<1>2. ASSUME NEW c \in Calls, Quiet(c) PROVE Creators'
  <2>1. UNCHANGED <<items, issued, target, current>>
    BY <1>2, QuietStep DEF local, store
  <2>2. ASSUME NEW d \in Calls
        PROVE  /\ pc'[d] = "new" => pc[d] = "new"
               /\ pc'[d] \in {"ready", "save"} => pc[d] \in {"ready", "save"}
    BY <1>2, QuietStep
  <2>3. ASSUME NEW d \in Calls, Creating(d)' PROVE Creating(d)
    BY <2>1, <2>2, <2>3 DEF Creating
  <2> QED
    BY <2>1, <2>2, <2>3 DEF Creators
<1>3. ASSUME NEW c \in Calls, NEW i \in Items, Create(c, i) PROVE Creators'
  BY <1>3 DEF Create, Goto, local, store, Creators, Creating
<1>4. ASSUME NEW c \in Calls, NEW i \in Items, Load(c, i) PROVE Creators'
  BY <1>4 DEF Load, Goto, store, Creators, Creating
<1>5. ASSUME NEW c \in Calls, Compute(c) PROVE Creators'
  BY <1>5 DEF Compute, Goto, store, Drafted, Creators, Creating
<1>6. ASSUME NEW c \in Calls, Save(c) PROVE Creators'
  <2> DEFINE i == target[c]
  <2>1. /\ i \in Items /\ items' = [items EXCEPT ![i] = updated[c]]
        /\ pc[c] = "save" /\ pc' = [pc EXCEPT ![c] = "append"]
        /\ UNCHANGED <<issued, target, current>>
        /\ current[c] # None => items[i] # None
    BY <1>6, SaveStep DEF local
  <2>2. i \in issued
    BY <2>1 DEF Creators, Creating
  <2>3. ASSUME NEW d \in Calls, d # c, Creating(d) PROVE target[d] # i
    BY <2>1, <2>3 DEF Creators, Creating
  <2>4. ASSUME NEW d \in Calls, Creating(d)' PROVE d # c /\ Creating(d)
    BY <2>1, <2>4 DEF Creating
  <2> QED
    BY <2>1, <2>2, <2>3, <2>4 DEF Creators
<1>7. ASSUME NEW c \in Calls, AppendEvent(c) \/ SaveMessage(c) PROVE Creators'
  BY <1>7 DEF AppendEvent, SaveMessage, Goto, local, Creators, Creating
<1> QED
  BY <1>1, <1>2, <1>3, <1>4, <1>5, <1>6, <1>7, Steps

\* Every step keeps what has been saved.
LEMMA KeptStep == WriteInv /\ [Next]_vars => Kept'
<1> SUFFICES ASSUME WriteInv, [Next]_vars, NEW c \in Calls, pc'[c] \in PastSave
             PROVE  items'[target'[c]] # None /\ c \in items'[target'[c]].changes
  BY DEF Kept
<1> DEFINE Same == pc[c] \in PastSave /\ target'[c] = target[c]
<1>1. CASE Same
  <2>1. target[c] \in Items
    BY <1>1 DEF PastSave, WriteInv, Drafted
  <2>2. items[target[c]] # None /\ c \in items[target[c]].changes
    BY <1>1 DEF WriteInv, Kept
  <2> QED
    BY <1>1, <2>1, <2>2, Growth
<1>2. CASE Elsewhere
  BY <1>1, <1>2, ElsewhereStep DEF WriteInv, local
<1>3. ASSUME NEW d \in Calls, Quiet(d) PROVE Same
  BY <1>3, QuietStep DEF WriteInv, local, PastSave
<1>4. ASSUME NEW d \in Calls, NEW i \in Items, Create(d, i) \/ Load(d, i) PROVE Same
  BY <1>4 DEF Create, Load, Goto, WriteInv, TypeOK, PastSave
<1>5. ASSUME NEW d \in Calls, Compute(d) PROVE Same
  BY <1>5 DEF Compute, Goto, WriteInv, TypeOK, PastSave
<1>6. ASSUME NEW d \in Calls, d # c, Save(d) PROVE Same
  BY <1>6, SaveStep DEF WriteInv, TypeOK, local
<1>7. ASSUME Save(c)
      PROVE  items'[target'[c]] # None /\ c \in items'[target'[c]].changes
  BY <1>7, SaveStep, NoneAssumption DEF WriteInv, TypeOK, local
<1>8. ASSUME NEW d \in Calls, AppendEvent(d) \/ SaveMessage(d) PROVE Same
  BY <1>8 DEF AppendEvent, SaveMessage, Goto, WriteInv, TypeOK, PastSave, local
<1> QED
  BY <1>1, <1>2, <1>3, <1>4, <1>5, <1>6, <1>7, <1>8, Steps

\* The write invariant is inductive.
LEMMA WriteStep == WriteInv /\ [Next]_vars => WriteInv'
BY TypeStep, BasisStep, DraftStep, CreatorsStep, KeptStep DEF WriteInv

\* What open calls have loaded and drafted always fits what is stored (WriteInv).
THEOREM WriteInvariant == Spec => []WriteInv
BY WriteInit, WriteStep, PTL DEF Spec

(***************************************************************************)
(* No update is lost, whoever else loads and saves the item, whoever dies, *)
(* and also when the unit of work does not keep callers apart              *)
(* (FsWorkItemRepository.save compares the version that was loaded).       *)
(***************************************************************************)
THEOREM NoUpdateLost == Spec => []UpdatesKept
<1>1. WriteInv => UpdatesKept
  BY DEF WriteInv, Kept, PastSave, UpdatesKept
<1> QED
  BY <1>1, WriteInvariant, PTL

(***************************************************************************)
(* A closed work item never changes (assertCanModify, and the version).    *)
(***************************************************************************)
THEOREM ClosedStaysClosed == Spec => ClosedFrozen
<1>1. WriteInv /\ [Next]_vars =>
        [\A i \in Items :
           items[i] # None /\ items[i].status \in ClosedStates => items'[i] = items[i]]_vars
  BY Growth
<1> QED
  BY <1>1, WriteInvariant, PTL DEF Spec, ClosedFrozen

-----------------------------------------------------------------------------
(***************************************************************************)
(* Why the audit stream is truthful.  The changes of an item are those of  *)
(* calls that have saved it, each at a version of its own (Contributors);  *)
(* each of them has at most one event, with that version (Recorded).       *)
(***************************************************************************)
BeforeSave == {"new", "loaded", "ready", "save"}

Contributors ==
  \A i \in Items : items[i] # None =>
    /\ \A c \in items[i].changes :
         /\ target[c] = i
         /\ pc[c] \notin BeforeSave
         /\ updated[c] # None
         /\ updated[c].version <= items[i].version
    /\ \A c, d \in items[i].changes : updated[c].version = updated[d].version => c = d

Recorded ==
  /\ \A i \in Items :
       /\ \A k \in DOMAIN stream[i] :
            LET c == stream[i][k].id
            IN  /\ items[i] # None /\ c \in items[i].changes
                /\ pc[c] # "append"
                /\ stream[i][k].version = updated[c].version
       /\ \A j, k \in DOMAIN stream[i] : stream[i][j].id = stream[i][k].id => j = k
  /\ \A c \in Calls : pc[c] = "message" => c \in Audited
  /\ outbox \subseteq Audited

AuditInv == WriteInv /\ Contributors /\ Recorded

\* The audit invariant holds of an empty store.
LEMMA AuditInit == Init => AuditInv
<1> SUFFICES ASSUME Init PROVE AuditInv
  OBVIOUS
<1>1. Contributors
  BY DEF Init, Contributors
<1>2. Recorded
  BY DEF Init, Recorded
<1> QED
  BY <1>1, <1>2, WriteInit DEF AuditInv

\* A call that has saved keeps the item it is about and what it has saved.
LEMMA SavedStep ==
  ASSUME WriteInv, [Next]_vars, NEW c \in Calls, pc[c] \notin BeforeSave
  PROVE  /\ target'[c] = target[c] /\ updated'[c] = updated[c]
         /\ pc'[c] \notin BeforeSave
         /\ pc'[c] = "append" => pc[c] = "append"
<1> DEFINE Same == /\ target'[c] = target[c] /\ updated'[c] = updated[c]
                   /\ pc'[c] \notin BeforeSave
                   /\ pc'[c] = "append" => pc[c] = "append"
<1>1. CASE Elsewhere
  BY <1>1, ElsewhereStep DEF WriteInv, local
<1>2. ASSUME NEW d \in Calls, Quiet(d) PROVE Same
  BY <1>2, QuietStep DEF WriteInv, local, BeforeSave
<1>3. ASSUME NEW d \in Calls, NEW i \in Items, Create(d, i) \/ Load(d, i) PROVE Same
  BY <1>3 DEF Create, Load, Goto, WriteInv, TypeOK, BeforeSave
<1>4. ASSUME NEW d \in Calls, Compute(d) PROVE Same
  BY <1>4 DEF Compute, Goto, WriteInv, TypeOK, BeforeSave
<1>5. ASSUME NEW d \in Calls, Save(d) \/ AppendEvent(d) \/ SaveMessage(d) PROVE Same
  BY <1>5 DEF Save, AppendEvent, SaveMessage, Goto, WriteInv, TypeOK, BeforeSave, local
<1> QED
  BY <1>1, <1>2, <1>3, <1>4, <1>5, Steps

\* Every step keeps the versions of an item and its contributors one to one.
LEMMA ContributorsStep == AuditInv /\ [Next]_vars => Contributors'
<1> SUFFICES ASSUME AuditInv, [Next]_vars, NEW i \in Items, items'[i] # None
             PROVE  /\ \A c \in items'[i].changes :
                         /\ target'[c] = i
                         /\ pc'[c] \notin BeforeSave
                         /\ updated'[c] # None
                         /\ updated'[c].version <= items'[i].version
                    /\ \A c, d \in items'[i].changes :
                         updated'[c].version = updated'[d].version => c = d
  BY DEF Contributors
<1> USE DEF AuditInv
\* Those that had contributed before.
<1>1. ASSUME items[i] # None, NEW c \in items[i].changes
      PROVE  /\ c \in Calls /\ pc[c] \notin BeforeSave
             /\ target'[c] = i /\ pc'[c] \notin BeforeSave
             /\ updated'[c] # None /\ updated'[c] = updated[c]
             /\ updated'[c].version \in Nat
             /\ items[i].version \in Nat
             /\ updated'[c].version <= items[i].version
  <2>1. c \in Calls /\ items[i].version \in Nat
    BY <1>1 DEF WriteInv, TypeOK, WorkItem
  <2>2. /\ target[c] = i /\ pc[c] \notin BeforeSave
        /\ updated[c] # None /\ updated[c].version <= items[i].version
    BY <1>1 DEF Contributors
  <2>3. updated[c].version \in Nat
    BY <2>1, <2>2 DEF WriteInv, TypeOK, WorkItem
  <2> QED
    BY <2>1, <2>2, <2>3, SavedStep
<1>2. CASE items'[i] = items[i]
  BY <1>1, <1>2 DEF Contributors
<1>3. ASSUME NEW e \in Calls, Save(e), target[e] = i
      PROVE  /\ \A c \in items'[i].changes :
                  /\ target'[c] = i
                  /\ pc'[c] \notin BeforeSave
                  /\ updated'[c] # None
                  /\ updated'[c].version <= items'[i].version
             /\ \A c, d \in items'[i].changes :
                  updated'[c].version = updated'[d].version => c = d
  <2>1. /\ items'[i] = updated[e] /\ updated[e] \in WorkItem /\ updated[e].version \in Nat
        /\ pc[e] = "save" /\ pc'[e] \notin BeforeSave
        /\ target'[e] = i /\ updated'[e] = updated[e]
    BY <1>3, SaveStep DEF WriteInv, TypeOK, WorkItem, local, BeforeSave
  <2>2. CASE current[e] = None
    <3>1. items'[i].changes = {e}
      BY <1>3, <2>1, <2>2, SaveStep
    <3> QED
      BY <2>1, <3>1, NoneAssumption
  <2>3. CASE current[e] # None
    <3>1. /\ items[i] # None /\ items[i] \in WorkItem
          /\ items'[i].changes = items[i].changes \cup {e}
          /\ items'[i].version = items[i].version + 1
      BY <1>3, <2>1, <2>3, SaveStep
    <3>2. \A c \in items[i].changes : updated'[c].version < items'[i].version
      BY <1>1, <3>1
    <3>3. \A c, d \in items[i].changes : updated'[c].version = updated'[d].version => c = d
      BY <1>1, <3>1 DEF Contributors
    <3>4. \A c \in items[i].changes : updated'[c].version # updated'[e].version
      BY <1>1, <2>1, <3>1, <3>2
    <3>5. updated'[e].version = items'[i].version /\ updated'[e] # None
      BY <2>1, NoneAssumption
    <3>6. ASSUME NEW c \in items'[i].changes
          PROVE  /\ target'[c] = i
                 /\ pc'[c] \notin BeforeSave
                 /\ updated'[c] # None
                 /\ updated'[c].version <= items'[i].version
      <4>1. CASE c = e
        BY <2>1, <3>5, <4>1
      <4>2. CASE c \in items[i].changes
        BY <1>1, <3>1, <4>2
      <4> QED
        BY <3>1, <4>1, <4>2
    <3> QED
      BY <3>1, <3>3, <3>4, <3>6
  <2> QED
    BY <2>2, <2>3
<1>4. ASSUME NEW e \in Calls, Save(e), target[e] # i PROVE items'[i] = items[i]
  BY <1>4, SaveStep DEF WriteInv, TypeOK
<1> QED
  BY <1>2, <1>3, <1>4, ItemsStep

\* What the steps do to the streams and the outbox.
LEMMA StreamStep ==
  ASSUME WriteInv, [Next]_vars
  PROVE  \/ \E c \in Calls : AppendEvent(c)
         \/ \E c \in Calls : SaveMessage(c)
         \/ /\ UNCHANGED <<stream, outbox>>
            /\ \A c \in Calls : pc'[c] = "message" => pc[c] = "message"
<1>1. CASE Elsewhere
  BY <1>1, ElsewhereStep DEF WriteInv, store
<1>2. ASSUME NEW c \in Calls, Quiet(c)
      PROVE  /\ UNCHANGED <<stream, outbox>>
             /\ \A d \in Calls : pc'[d] = "message" => pc[d] = "message"
  BY <1>2, QuietStep DEF WriteInv, store
<1>3. ASSUME NEW c \in Calls, NEW i \in Items, Create(c, i) \/ Load(c, i)
      PROVE  /\ UNCHANGED <<stream, outbox>>
             /\ \A d \in Calls : pc'[d] = "message" => pc[d] = "message"
  BY <1>3 DEF Create, Load, Goto, WriteInv, TypeOK, store
<1>4. ASSUME NEW c \in Calls, Compute(c) \/ Save(c)
      PROVE  /\ UNCHANGED <<stream, outbox>>
             /\ \A d \in Calls : pc'[d] = "message" => pc[d] = "message"
  BY <1>4 DEF Compute, Save, Goto, WriteInv, TypeOK, store
<1> QED
  BY <1>1, <1>2, <1>3, <1>4, Steps DEF WriteInv

\* A call has been audited if an event of its is in a stream.
LEMMA AuditedIs ==
  ASSUME NEW c
  PROVE  c \in Audited <=> \E i \in Items : \E k \in DOMAIN stream[i] : stream[i][k].id = c
BY DEF Audited, Events

\* The event an append adds is the first of its call.
LEMMA AppendStep ==
  ASSUME AuditInv, NEW c \in Calls, AppendEvent(c)
  PROVE  /\ target[c] \in Items /\ updated[c] \in WorkItem
         /\ items[target[c]] # None /\ c \in items[target[c]].changes
         /\ stream' = [stream EXCEPT ![target[c]] = Append(@, Event(c))]
         /\ \A k \in DOMAIN stream[target[c]] : stream[target[c]][k].id # c
         /\ pc[c] = "append" /\ pc' = [pc EXCEPT ![c] = "message"]
         /\ UNCHANGED <<items, outbox, local>>
<1>1. pc[c] = "append"
  BY DEF AppendEvent, Goto
<1>2. target[c] \in Items /\ updated[c] \in WorkItem
  BY <1>1 DEF AuditInv, WriteInv, Drafted, TypeOK, Inside
<1>3. items[target[c]] # None /\ c \in items[target[c]].changes
  BY <1>1 DEF AuditInv, WriteInv, Kept, PastSave
<1>4. \A k \in DOMAIN stream[target[c]] : stream[target[c]][k].id # c
  BY <1>1, <1>2 DEF AuditInv, Recorded
<1> QED
  BY <1>1, <1>2, <1>3, <1>4 DEF AppendEvent, Goto

\* Every step keeps the recorded events true and single.
LEMMA RecordedStep == AuditInv /\ [Next]_vars => Recorded'
<1> SUFFICES ASSUME AuditInv, [Next]_vars PROVE Recorded'
  OBVIOUS
<1> USE DEF AuditInv
\* An event that has been recorded stays true.
<1>1. ASSUME NEW i \in Items, NEW k \in DOMAIN stream[i]
      PROVE  LET c == stream[i][k].id
             IN  /\ items'[i] # None /\ c \in items'[i].changes
                 /\ pc'[c] # "append"
                 /\ stream[i][k].version = updated'[c].version
  <2> DEFINE c == stream[i][k].id
  <2>1. /\ items[i] # None /\ c \in items[i].changes
        /\ pc[c] # "append" /\ stream[i][k].version = updated[c].version
    BY DEF Recorded
  <2>2. c \in Calls
    BY <2>1 DEF WriteInv, TypeOK, WorkItem
  <2>3. pc[c] \notin BeforeSave
    BY <2>1 DEF Contributors
  <2>4. items'[i] # None /\ c \in items'[i].changes
    BY <2>1, Growth
  <2> QED
    BY <2>1, <2>2, <2>3, <2>4, SavedStep
<1>2. ASSUME UNCHANGED <<stream, outbox>>,
             \A c \in Calls : pc'[c] = "message" => pc[c] = "message"
      PROVE  Recorded'
  <2>1. UNCHANGED Audited
    BY <1>2 DEF Audited, Events
  <2> QED
    BY <1>1, <1>2, <2>1 DEF Recorded
<1>3. ASSUME NEW c \in Calls, SaveMessage(c) PROVE Recorded'
  <2>1. /\ UNCHANGED <<stream, Audited>> /\ outbox' = outbox \cup {c}
        /\ pc[c] = "message"
        /\ \A d \in Calls : pc'[d] = "message" => pc[d] = "message"
    BY <1>3 DEF SaveMessage, Goto, WriteInv, TypeOK, Audited, Events
  <2>2. c \in Audited
    BY <2>1 DEF Recorded
  <2> QED
    BY <1>1, <2>1, <2>2 DEF Recorded
<1>4. ASSUME NEW c \in Calls, AppendEvent(c) PROVE Recorded'
  <2> DEFINE t == target[c]
             s == stream[t]
  <2>1. /\ t \in Items /\ s \in Seq(AuditEvent)
        /\ stream' = [stream EXCEPT ![t] = Append(s, Event(c))]
        /\ \A k \in DOMAIN s : s[k].id # c
    BY <1>4, AppendStep DEF WriteInv, TypeOK
  <2>2. /\ items'[t] # None /\ c \in items'[t].changes
        /\ pc'[c] = "message"
        /\ \A d \in Calls \ {c} : pc'[d] = pc[d]
        /\ UNCHANGED <<outbox, updated>>
    BY <1>4, AppendStep DEF WriteInv, TypeOK, local
  <2>3. Event(c).id = c /\ Event(c).version = updated'[c].version
    BY <2>2 DEF Event
  <2>4. \A i \in Items \ {t} : stream'[i] = stream[i]
    BY <2>1 DEF WriteInv, TypeOK
  <2>5. stream'[t] = Append(s, Event(c))
    BY <2>1 DEF WriteInv, TypeOK
  <2>6. /\ DOMAIN stream'[t] = 1..(Len(s) + 1) /\ DOMAIN s = 1..Len(s)
        /\ Len(s) \in Nat
        /\ \A k \in DOMAIN s : stream'[t][k] = s[k]
        /\ stream'[t][Len(s) + 1] = Event(c)
    <3> HIDE DEF s, t
    <3>1. Event(c) \in AuditEvent
      BY <1>4, AppendStep DEF Event, AuditEvent, WorkItem
    <3> QED
      BY <2>1, <2>5, <3>1
  <2> HIDE DEF s
  <2>7. ASSUME NEW i \in Items, NEW k \in DOMAIN stream'[i]
        PROVE  LET d == stream'[i][k].id
               IN  /\ items'[i] # None /\ d \in items'[i].changes
                   /\ pc'[d] # "append"
                   /\ stream'[i][k].version = updated'[d].version
    <3>1. CASE i # t
      BY <1>1, <2>4, <3>1
    <3>2. CASE i = t /\ k \in DOMAIN s
      BY <1>1, <2>1, <2>6, <3>2 DEF s
    <3>3. CASE i = t /\ k = Len(s) + 1
      BY <2>2, <2>3, <2>6, <3>3
    <3> QED
      BY <2>6, <3>1, <3>2, <3>3
  <2>8. ASSUME NEW i \in Items, NEW j \in DOMAIN stream'[i], NEW k \in DOMAIN stream'[i],
               stream'[i][j].id = stream'[i][k].id
        PROVE  j = k
    <3>1. CASE i # t
      BY <2>4, <2>8, <3>1 DEF Recorded
    <3>2. CASE i = t
      <4>1. ASSUME NEW m \in DOMAIN s, NEW n \in DOMAIN s, s[m].id = s[n].id PROVE m = n
        BY <2>1, <4>1 DEF Recorded, s
      <4> QED
        BY <2>1, <2>3, <2>6, <2>8, <3>2, <4>1
    <3> QED
      BY <3>1, <3>2
  <2>9. Audited \subseteq Audited' /\ c \in Audited'
    <3>1. ASSUME NEW d, d \in Audited PROVE d \in Audited'
      <4>1. PICK i \in Items : \E k \in DOMAIN stream[i] : stream[i][k].id = d
        BY <3>1, AuditedIs
      <4>2. PICK k \in DOMAIN stream[i] : stream[i][k].id = d
        BY <4>1
      <4>3. k \in DOMAIN stream'[i] /\ stream'[i][k].id = d
        BY <2>4, <2>6, <4>1, <4>2 DEF s
      <4> QED
        BY <4>1, <4>3 DEF Audited, Events
    <3>2. c \in Audited'
      <4>1. Len(s) + 1 \in DOMAIN stream'[t] /\ stream'[t][Len(s) + 1].id = c
        BY <2>3, <2>6
      <4> QED
        BY <2>1, <4>1 DEF Audited, Events
    <3> QED
      BY <3>1, <3>2
  <2> QED
    BY <2>2, <2>7, <2>8, <2>9 DEF Recorded
<1> QED
  BY <1>2, <1>3, <1>4, StreamStep

\* The audit invariant is inductive.
LEMMA AuditStep == AuditInv /\ [Next]_vars => AuditInv'
BY WriteStep, ContributorsStep, RecordedStep DEF AuditInv

(***************************************************************************)
(* The audit stream tells only of updates the item has, and never twice of *)
(* one version; no outbox message is ahead of its event.                   *)
(***************************************************************************)
THEOREM TruthfulAudit == Spec => []AuditTruthful
<1>1. ASSUME AuditInv PROVE AuditTruthful
  <2>1. ASSUME NEW i \in Items, NEW event \in Events(i)
        PROVE  items[i] # None /\ event.id \in items[i].changes
    BY <1>1, <2>1 DEF Events, AuditInv, Recorded
  <2>2. ASSUME NEW i \in Items, NEW j \in DOMAIN stream[i], NEW k \in DOMAIN stream[i],
               stream[i][j].version = stream[i][k].version
        PROVE  j = k
    <3>1. /\ items[i] # None
          /\ stream[i][j].id \in items[i].changes
          /\ stream[i][k].id \in items[i].changes
          /\ stream[i][j].version = updated[stream[i][j].id].version
          /\ stream[i][k].version = updated[stream[i][k].id].version
      BY <1>1, <2>2 DEF AuditInv, Recorded
    <3>2. \A c, d \in items[i].changes : updated[c].version = updated[d].version => c = d
      BY <1>1, <3>1 DEF AuditInv, Contributors
    <3>3. updated[stream[i][j].id].version = updated[stream[i][k].id].version
      BY <2>2, <3>1
    <3>4. stream[i][j].id = stream[i][k].id
      BY <3>1, <3>2, <3>3
    <3> QED
      BY <1>1, <3>4 DEF AuditInv, Recorded
  <2> QED
    BY <1>1, <2>1, <2>2 DEF AuditTruthful, AuditInv, Recorded
<1> QED
  BY AuditInit, AuditStep, <1>1, PTL DEF Spec

-----------------------------------------------------------------------------
(***************************************************************************)
(* Why the stream is in order.  As long as no lease of the unit of work    *)
(* ends under its holder, who is in it holds its lock (Alone), so that the *)
(* item is at the version of who is about to append (Newest); the events   *)
(* there are tell of other contributors, hence of lower versions.          *)
(***************************************************************************)
Alone == overruns = 0 => \A c \in Calls : pc[c] \in Inside => uow = c

Newest ==
  overruns = 0 =>
    \A c \in Calls : pc[c] = "append" => items[target[c]].version = updated[c].version

OrderInv == AuditInv /\ Alone /\ Newest /\ StreamInOrder

\* The overruns are counted for good.
LEMMA OverrunsStay == TypeOK /\ [Next]_vars /\ overruns' = 0 => overruns = 0
<1> SUFFICES ASSUME TypeOK, [Next]_vars, overruns' = 0 PROVE overruns = 0
  OBVIOUS
<1>1. CASE Elsewhere
  BY <1>1 DEF Elsewhere, Tick, Recover, Overrun, vars, environment, TypeOK
<1>2. ASSUME NEW c \in Calls, Quiet(c) PROVE overruns' = overruns
  BY <1>2 DEF Quiet, Reject, Enter, TimeOut, Conflict, Leave, StepFails, Crash, Fault, environment
<1> QED
  BY <1>1, <1>2, Steps DEF Create, Load, Compute, Save, AppendEvent, SaveMessage, environment

\* Every step keeps the holder of the unit of work alone in it.
LEMMA AloneStep == TypeOK /\ Alone /\ [Next]_vars => Alone'
<1> SUFFICES ASSUME TypeOK, Alone, [Next]_vars, overruns' = 0, overruns = 0,
                    NEW c \in Calls, pc'[c] \in Inside
             PROVE  uow' = c
  BY OverrunsStay DEF Alone
<1> USE DEF TypeOK, Alone, Goto, Inside, environment, local
<1>1. CASE Tick \/ UNCHANGED vars
  BY <1>1 DEF Tick, vars
<1>2. CASE Recover
  BY <1>2 DEF Recover
<1>3. CASE Overrun
  BY <1>3 DEF Overrun
<1>4. ASSUME NEW d \in Calls, NEW i \in Items, Create(d, i) \/ Load(d, i) PROVE uow' = c
  BY <1>4 DEF Create, Load
<1>5. ASSUME NEW d \in Calls, Compute(d) \/ Reject(d) \/ TimeOut(d) PROVE uow' = c
  BY <1>5 DEF Compute, Reject, TimeOut
<1>6. ASSUME NEW d \in Calls, Enter(d) PROVE uow' = c
  BY <1>6, WorkItemsAssumption DEF Enter
<1>7. ASSUME NEW d \in Calls, Save(d) \/ AppendEvent(d) \/ SaveMessage(d) PROVE uow' = c
  BY <1>7 DEF Save, AppendEvent, SaveMessage
<1>8. ASSUME NEW d \in Calls, Conflict(d) \/ Leave(d) PROVE uow' = c
  BY <1>8 DEF Conflict, Leave
<1>9. ASSUME NEW d \in Calls, StepFails(d) PROVE uow' = c
  BY <1>9 DEF StepFails
<1>10. ASSUME NEW d \in Calls, Crash(d) PROVE uow' = c
  BY <1>10 DEF Crash
<1> QED
  BY <1>1, <1>2, <1>3, <1>4, <1>5, <1>6, <1>7, <1>8, <1>9, <1>10, Steps DEF Elsewhere, Quiet

\* A call gets to its append by its save.
LEMMA ToAppend ==
  ASSUME TypeOK, [Next]_vars, NEW c \in Calls, pc'[c] = "append"
  PROVE  pc[c] = "append" \/ Save(c)
<1>1. CASE Elsewhere
  BY <1>1, ElsewhereStep
<1>2. ASSUME NEW d \in Calls, Quiet(d) PROVE pc[c] = "append"
  BY <1>2, QuietStep
<1>3. ASSUME NEW d \in Calls, NEW i \in Items, Create(d, i) \/ Load(d, i) PROVE pc[c] = "append"
  BY <1>3 DEF Create, Load, Goto, TypeOK
<1>4. ASSUME NEW d \in Calls, Compute(d) \/ AppendEvent(d) \/ SaveMessage(d)
      PROVE  pc[c] = "append"
  BY <1>4 DEF Compute, AppendEvent, SaveMessage, Goto, TypeOK
<1>5. ASSUME NEW d \in Calls, d # c, Save(d) PROVE pc[c] = "append"
  BY <1>5 DEF Save, Goto, TypeOK
<1> QED
  BY <1>1, <1>2, <1>3, <1>4, <1>5, Steps

\* Every step leaves the item at the version of who is about to append.
LEMMA NewestStep == WriteInv /\ Alone /\ Newest /\ [Next]_vars => Newest'
<1> SUFFICES ASSUME WriteInv, Alone, Newest, [Next]_vars, overruns = 0,
                    NEW c \in Calls, pc'[c] = "append"
             PROVE  items'[target'[c]].version = updated'[c].version
  BY OverrunsStay DEF Newest, WriteInv
<1>1. CASE pc[c] = "append"
  <2>1. target'[c] = target[c] /\ updated'[c] = updated[c]
    BY <1>1, SavedStep DEF BeforeSave
  <2>2. ASSUME NEW d \in Calls, Save(d) PROVE FALSE
    <3>1. pc[d] = "save"
      BY <2>2 DEF Save, Goto
    <3> QED
      BY <1>1, <3>1 DEF Alone, Inside
  <2>3. UNCHANGED items
    BY <2>2, ItemsStep
  <2> QED
    BY <1>1, <2>1, <2>3 DEF Newest
<1>2. CASE Save(c)
  BY <1>2, SaveStep DEF WriteInv, TypeOK, local
<1> QED
  BY <1>1, <1>2, ToAppend DEF WriteInv

\* Every step keeps the stream in order.
LEMMA StreamInOrderStep == OrderInv /\ [Next]_vars => StreamInOrder'
<1> SUFFICES ASSUME OrderInv, [Next]_vars, overruns = 0,
                    NEW i \in Items, NEW j \in DOMAIN stream'[i], NEW k \in DOMAIN stream'[i],
                    j < k
             PROVE  stream'[i][j].version < stream'[i][k].version
  BY OverrunsStay DEF StreamInOrder, OrderInv, AuditInv, WriteInv
<1> USE DEF OrderInv, AuditInv
<1>1. CASE stream'[i] = stream[i]
  BY <1>1 DEF StreamInOrder
<1>2. ASSUME NEW c \in Calls, SaveMessage(c) PROVE stream'[i] = stream[i]
  BY <1>2 DEF SaveMessage
<1>3. ASSUME NEW c \in Calls, AppendEvent(c), target[c] # i PROVE stream'[i] = stream[i]
  BY <1>3, AppendStep DEF WriteInv, TypeOK
<1>4. ASSUME NEW c \in Calls, AppendEvent(c), target[c] = i
      PROVE  stream'[i][j].version < stream'[i][k].version
  <2> DEFINE s == stream[i]
  <2>1. /\ s \in Seq(AuditEvent) /\ Event(c) \in AuditEvent
        /\ stream'[i] = Append(s, Event(c))
    <3>1. s \in Seq(AuditEvent) /\ stream'[i] = Append(s, Event(c))
      BY <1>4, AppendStep DEF WriteInv, TypeOK
    <3>2. updated[c] \in WorkItem
      BY <1>4, AppendStep
    <3> QED
      BY <3>1, <3>2 DEF Event, AuditEvent, WorkItem
  <2>2. /\ DOMAIN stream'[i] = 1..(Len(s) + 1) /\ DOMAIN s = 1..Len(s) /\ Len(s) \in Nat
        /\ \A m \in DOMAIN s : stream'[i][m] = s[m]
        /\ stream'[i][Len(s) + 1] = Event(c)
    <3> HIDE DEF s
    <3> QED
      BY <2>1
  \* The events before are of other contributors, and the item is at the version of c.
  <2>3. ASSUME NEW m \in DOMAIN s PROVE s[m].version < Event(c).version
    <3> DEFINE d == s[m].id
    <3>1. /\ d # c /\ items[i] # None /\ d \in items[i].changes /\ c \in items[i].changes
          /\ s[m].version = updated[d].version
      BY <1>4, AppendStep DEF Recorded
    <3>2. /\ updated[d] # None /\ updated[d].version <= items[i].version
          /\ updated[d].version # updated[c].version
      BY <3>1 DEF Contributors
    <3>3. items[i].version = updated[c].version
      BY <1>4, AppendStep DEF Newest
    <3>4. updated[d].version \in Nat /\ updated[c].version \in Nat
      BY <1>4, <3>1, <3>2, AppendStep DEF WriteInv, TypeOK, WorkItem
    <3> QED
      BY <3>1, <3>2, <3>3, <3>4 DEF Event
  <2>4. CASE k \in DOMAIN s
    <3>1. j \in DOMAIN s
      BY <2>2, <2>4
    <3> QED
      BY <2>2, <2>4, <3>1 DEF StreamInOrder
  <2>5. CASE k = Len(s) + 1
    <3>1. j \in DOMAIN s
      BY <2>2, <2>5
    <3> QED
      BY <2>2, <2>3, <2>5, <3>1
  <2> QED
    BY <2>2, <2>4, <2>5
<1> QED
  BY <1>1, <1>2, <1>3, <1>4, StreamStep

\* The order invariant holds of an empty store.
LEMMA OrderInit == Init => OrderInv
<1>1. Init => Alone /\ Newest /\ StreamInOrder
  BY DEF Init, Alone, Newest, StreamInOrder, Inside
<1> QED
  BY <1>1, AuditInit DEF OrderInv

\* The order invariant is inductive.
LEMMA OrderStep == OrderInv /\ [Next]_vars => OrderInv'
BY AuditStep, AloneStep, NewestStep, StreamInOrderStep DEF OrderInv, AuditInv, WriteInv

-----------------------------------------------------------------------------
(***************************************************************************)
(* Why later versions have later times.  A successor is made after its     *)
(* predecessor has been saved (Timed), so the times of an item rise with   *)
(* the versions of its contributors (ChangesTimed), and an event has the   *)
(* time of its change (EventsTimed).                                       *)
(***************************************************************************)
Timed ==
  /\ \A i \in Items : items[i] # None => items[i].updatedAt <= now
  /\ \A c \in Calls :
       /\ current[c] # None => current[c].updatedAt <= now
       /\ updated[c] # None => updated[c].updatedAt <= now
       /\ pc[c] \in {"ready", "save"} /\ current[c] # None =>
            current[c].updatedAt <= updated[c].updatedAt

ChangesTimed ==
  \A i \in Items : items[i] # None =>
    /\ \A c \in items[i].changes : updated[c].updatedAt <= items[i].updatedAt
    /\ \A c, d \in items[i].changes :
         updated[c].version < updated[d].version => updated[c].updatedAt <= updated[d].updatedAt

EventsTimed ==
  \A i \in Items : \A k \in DOMAIN stream[i] :
    stream[i][k].occurredAt = updated[stream[i][k].id].updatedAt

TimeInv == AuditInv /\ Timed /\ ChangesTimed /\ EventsTimed

\* The clock does not go back.
LEMMA ClockStep == TypeOK /\ [Next]_vars => now \in Nat /\ now' \in Nat /\ now <= now'
<1> SUFFICES ASSUME TypeOK, [Next]_vars PROVE now \in Nat /\ now' \in Nat /\ now <= now'
  OBVIOUS
<1> USE DEF TypeOK
<1>1. CASE Elsewhere
  BY <1>1, WorkItemsAssumption DEF Elsewhere, Tick, Recover, Overrun, vars, environment
<1>2. ASSUME NEW c \in Calls, Quiet(c) PROVE now' = now
  BY <1>2 DEF Quiet, Reject, Enter, TimeOut, Conflict, Leave, StepFails, Crash, Fault, environment
<1> QED
  BY <1>1, <1>2, Steps, WorkItemsAssumption
     DEF Create, Load, Compute, Save, AppendEvent, SaveMessage, environment

\* Every step keeps the times of items, copies and drafts in the past and rising.
LEMMA TimedStep == WriteInv /\ Timed /\ [Next]_vars => Timed'
<1> SUFFICES ASSUME WriteInv, Timed, [Next]_vars PROVE Timed'
  OBVIOUS
<1>1. now \in Nat /\ now' \in Nat /\ now <= now'
  BY ClockStep DEF WriteInv
<1>2. ASSUME NEW w \in WorkItem PROVE w.updatedAt \in Nat
  BY WorkItemsAssumption DEF WorkItem
<1>3. ASSUME UNCHANGED <<items, current, updated>>,
             \A c \in Calls : pc'[c] \in {"ready", "save"} => pc[c] \in {"ready", "save"}
      PROVE  Timed'
  BY <1>1, <1>2, <1>3 DEF Timed, WriteInv, TypeOK
<1>4. CASE Elsewhere
  BY <1>3, <1>4, ElsewhereStep DEF WriteInv, store, local
<1>5. ASSUME NEW c \in Calls, Quiet(c) PROVE Timed'
  BY <1>3, <1>5, QuietStep DEF WriteInv, store, local
<1>6. ASSUME NEW c \in Calls, AppendEvent(c) \/ SaveMessage(c) PROVE Timed'
  BY <1>3, <1>6 DEF AppendEvent, SaveMessage, Goto, WriteInv, TypeOK, local
<1>7. ASSUME NEW c \in Calls, NEW i \in Items, Create(c, i) PROVE Timed'
  <2>1. /\ UNCHANGED <<items, current, now>> /\ current[c] = None
        /\ updated'[c].updatedAt = now
        /\ \A d \in Calls \ {c} : updated'[d] = updated[d] /\ pc'[d] = pc[d]
    BY <1>7 DEF Create, Goto, WriteInv, TypeOK, Creators, store, environment
  <2> QED
    BY <1>1, <2>1 DEF Timed
<1>8. ASSUME NEW c \in Calls, NEW i \in Items, Load(c, i) PROVE Timed'
  <2>1. /\ UNCHANGED <<items, updated, now>>
        /\ items[i] # None /\ current'[c] = items[i] /\ pc'[c] = "loaded"
        /\ \A d \in Calls \ {c} : current'[d] = current[d] /\ pc'[d] = pc[d]
    BY <1>8 DEF Load, Goto, WriteInv, TypeOK, store, environment
  <2> QED
    BY <1>1, <2>1 DEF Timed
<1>9. ASSUME NEW c \in Calls, Compute(c) PROVE Timed'
  <2>1. PICK to \in Successors(current[c].status) :
          updated' = [updated EXCEPT ![c] = Change(c, to)]
    BY <1>9 DEF Compute
  <2>2. /\ UNCHANGED <<items, current, now>>
        /\ updated'[c].updatedAt = now
        /\ \A d \in Calls \ {c} : updated'[d] = updated[d] /\ pc'[d] = pc[d]
    BY <1>9, <2>1 DEF Compute, Goto, Change, WriteInv, TypeOK, store, environment
  <2> QED
    BY <1>1, <2>2 DEF Timed
<1>10. ASSUME NEW c \in Calls, Save(c) PROVE Timed'
  <2>1. /\ UNCHANGED <<current, updated, now>>
        /\ target[c] \in Items /\ updated[c] # None
        /\ items' = [items EXCEPT ![target[c]] = updated[c]]
    BY <1>10, SaveStep, NoneAssumption DEF Save, local, environment
  <2>2. \A d \in Calls : pc'[d] \in {"ready", "save"} => pc[d] \in {"ready", "save"}
    BY <1>10 DEF Save, Goto, WriteInv, TypeOK
  <2> QED
    BY <2>1, <2>2 DEF Timed, WriteInv, TypeOK
<1> QED
  BY <1>4, <1>5, <1>6, <1>7, <1>8, <1>9, <1>10, Steps

\* Every step keeps the times of an item rising with its versions.
LEMMA ChangesTimedStep == TimeInv /\ [Next]_vars => ChangesTimed'
<1> SUFFICES ASSUME TimeInv, [Next]_vars, NEW i \in Items, items'[i] # None
             PROVE  /\ \A c \in items'[i].changes : updated'[c].updatedAt <= items'[i].updatedAt
                    /\ \A c, d \in items'[i].changes :
                         updated'[c].version < updated'[d].version =>
                           updated'[c].updatedAt <= updated'[d].updatedAt
  BY DEF ChangesTimed
<1> USE DEF TimeInv, AuditInv
<1>1. ASSUME items[i] # None, NEW c \in items[i].changes
      PROVE  /\ updated'[c] = updated[c] /\ updated[c] \in WorkItem
             /\ updated[c].version <= items[i].version
  <2>1. c \in Calls
    BY <1>1 DEF WriteInv, TypeOK, WorkItem
  <2>2. pc[c] \notin BeforeSave /\ updated[c] # None /\ updated[c].version <= items[i].version
    BY <1>1 DEF Contributors
  <2> QED
    BY <2>1, <2>2, SavedStep DEF WriteInv, TypeOK
<1>2. CASE items'[i] = items[i]
  BY <1>1, <1>2 DEF ChangesTimed
<1>3. ASSUME NEW e \in Calls, Save(e), target[e] # i PROVE items'[i] = items[i]
  BY <1>3, SaveStep DEF WriteInv, TypeOK
<1>4. ASSUME NEW e \in Calls, Save(e), target[e] = i
      PROVE  /\ \A c \in items'[i].changes : updated'[c].updatedAt <= items'[i].updatedAt
             /\ \A c, d \in items'[i].changes :
                  updated'[c].version < updated'[d].version =>
                    updated'[c].updatedAt <= updated'[d].updatedAt
  <2>1. /\ items'[i] = updated[e] /\ updated'[e] = updated[e] /\ updated[e] \in WorkItem
        /\ pc[e] = "save"
    BY <1>4, SaveStep DEF WriteInv, TypeOK, local
  <2>2. ASSUME NEW w \in WorkItem PROVE w.version \in Nat /\ w.updatedAt \in Nat
    BY WorkItemsAssumption DEF WorkItem
  <2>3. CASE current[e] = None
    <3>1. items'[i].changes = {e}
      BY <1>4, <2>1, <2>3, SaveStep
    <3> QED
      BY <2>1, <2>2, <3>1
  <2>4. CASE current[e] # None
    <3>1. /\ items[i] # None /\ items[i] = current[e] /\ items[i] \in WorkItem
          /\ items'[i].changes = items[i].changes \cup {e}
          /\ updated[e].version = items[i].version + 1
      BY <1>4, <2>1, <2>4, SaveStep
    <3>2. items[i].updatedAt <= updated[e].updatedAt
      BY <2>1, <2>4, <3>1 DEF Timed
    <3>3. ASSUME NEW c \in items[i].changes
          PROVE  /\ updated'[c].updatedAt <= updated'[e].updatedAt
                 /\ updated'[c].version < updated'[e].version
                 /\ updated'[c].version \in Nat /\ updated'[e].version \in Nat
      <4>1. updated[c].updatedAt <= items[i].updatedAt
        BY <3>1 DEF ChangesTimed
      <4> QED
        BY <1>1, <2>1, <2>2, <3>1, <3>2, <4>1
    <3>4. \A c, d \in items[i].changes :
            updated'[c].version < updated'[d].version =>
              updated'[c].updatedAt <= updated'[d].updatedAt
      BY <1>1, <3>1 DEF ChangesTimed
    <3>5. updated'[e].updatedAt = items'[i].updatedAt /\ updated'[e].updatedAt \in Nat
      BY <2>1, <2>2
    <3> QED
      BY <3>1, <3>3, <3>4, <3>5
  <2> QED
    BY <2>3, <2>4
<1> QED
  BY <1>2, <1>3, <1>4, ItemsStep

\* Every step keeps the events at the times of their changes.
LEMMA EventsTimedStep == TimeInv /\ [Next]_vars => EventsTimed'
<1> SUFFICES ASSUME TimeInv, [Next]_vars, NEW i \in Items, NEW k \in DOMAIN stream'[i]
             PROVE  stream'[i][k].occurredAt = updated'[stream'[i][k].id].updatedAt
  BY DEF EventsTimed
<1> USE DEF TimeInv, AuditInv
<1>1. ASSUME k \in DOMAIN stream[i], stream'[i][k] = stream[i][k]
      PROVE  stream'[i][k].occurredAt = updated'[stream'[i][k].id].updatedAt
  <2> DEFINE c == stream[i][k].id
  <2>1. items[i] # None /\ c \in items[i].changes
    BY <1>1 DEF Recorded
  <2>2. c \in Calls /\ pc[c] \notin BeforeSave
    BY <2>1 DEF Contributors, WriteInv, TypeOK, WorkItem
  <2>3. updated'[c] = updated[c]
    BY <2>2, SavedStep
  <2> QED
    BY <1>1, <2>3 DEF EventsTimed
<1>2. CASE stream'[i] = stream[i]
  BY <1>1, <1>2
<1>3. ASSUME NEW c \in Calls, SaveMessage(c) PROVE stream'[i] = stream[i]
  BY <1>3 DEF SaveMessage
<1>4. ASSUME NEW c \in Calls, AppendEvent(c), target[c] # i PROVE stream'[i] = stream[i]
  BY <1>4, AppendStep DEF WriteInv, TypeOK
<1>5. ASSUME NEW c \in Calls, AppendEvent(c), target[c] = i
      PROVE  stream'[i][k].occurredAt = updated'[stream'[i][k].id].updatedAt
  <2> DEFINE s == stream[i]
  <2>1. s \in Seq(AuditEvent) /\ stream'[i] = Append(s, Event(c)) /\ updated' = updated
    BY <1>5, AppendStep DEF WriteInv, TypeOK, local
  <2>2. Event(c) \in AuditEvent
    BY <1>5, AppendStep DEF Event, AuditEvent, WorkItem
  <2>3. \/ k \in DOMAIN s /\ stream'[i][k] = s[k]
        \/ stream'[i][k] = Event(c)
    <3> HIDE DEF s
    <3> QED
      BY <2>1, <2>2
  <2> QED
    BY <1>1, <2>1, <2>3 DEF Event
<1> QED
  BY <1>2, <1>3, <1>4, <1>5, StreamStep

(***************************************************************************)
(* Events stand in the order of their versions as long as no lease of the  *)
(* unit of work ends under its holder, and sorted by time they always do:  *)
(* a call reads the clock after its predecessor has saved.                 *)
(***************************************************************************)
THEOREM OrderedEvents == Spec => []EventsInOrder
<1>1. Init => TimeInv
  <2>1. Init => Timed /\ ChangesTimed /\ EventsTimed
    BY DEF Init, Timed, ChangesTimed, EventsTimed
  <2> QED
    BY <2>1, AuditInit DEF TimeInv
<1>2. TimeInv /\ [Next]_vars => TimeInv'
  BY AuditStep, TimedStep, ChangesTimedStep, EventsTimedStep DEF TimeInv, AuditInv
<1>3. ASSUME TimeInv PROVE HistoryInTime
  <2> SUFFICES ASSUME NEW i \in Items, NEW j \in DOMAIN stream[i], NEW k \in DOMAIN stream[i],
                      stream[i][j].version < stream[i][k].version
               PROVE  stream[i][j].occurredAt <= stream[i][k].occurredAt
    BY DEF HistoryInTime, Events
  <2>1. /\ items[i] # None
        /\ stream[i][j].id \in items[i].changes /\ stream[i][k].id \in items[i].changes
        /\ stream[i][j].version = updated[stream[i][j].id].version
        /\ stream[i][k].version = updated[stream[i][k].id].version
    BY <1>3 DEF TimeInv, AuditInv, Recorded
  <2>2. updated[stream[i][j].id].updatedAt <= updated[stream[i][k].id].updatedAt
    BY <1>3, <2>1 DEF TimeInv, ChangesTimed
  <2> QED
    BY <1>3, <2>2 DEF TimeInv, EventsTimed
<1>4. OrderInv /\ TimeInv => EventsInOrder
  BY <1>3 DEF EventsInOrder, OrderInv
<1> QED
  BY <1>1, <1>2, <1>4, OrderInit, OrderStep, PTL DEF Spec

-----------------------------------------------------------------------------
(***************************************************************************)
(* Why gaps come from faults only.  A change without its event or its      *)
(* message belongs to a call that is about to write them, or to one that a *)
(* fault has ended before it did (Gaps).                                   *)
(***************************************************************************)
Gaps ==
  {c \in Changes : (c \notin Audited \/ c \notin outbox) /\ pc[c] \notin {"append", "message"}}

GapsCounted == IsFiniteSet(Gaps) /\ Cardinality(Gaps) <= faults

GapInv == AuditInv /\ GapsCounted

\* A call has changed an item if the change is in it.
LEMMA ChangesIs ==
  ASSUME NEW c
  PROVE  c \in Changes <=> \E i \in Items : items[i] # None /\ c \in items[i].changes
BY DEF Changes

\* Only a save brings a new change.
LEMMA ChangesStep ==
  ASSUME AuditInv, [Next]_vars, NEW c, c \in Changes'
  PROVE  /\ c \in Calls
         /\ c \in Changes \/ pc'[c] = "append"
<1>1. PICK i \in Items : items'[i] # None /\ c \in items'[i].changes
  BY DEF Changes
<1>2. c \in Calls
  BY <1>1, TypeStep DEF AuditInv, WriteInv, TypeOK, WorkItem
<1>3. CASE items'[i] = items[i]
  BY <1>1, <1>2, <1>3, ChangesIs
<1>4. ASSUME NEW e \in Calls, Save(e), target[e] # i PROVE items'[i] = items[i]
  BY <1>4, SaveStep DEF AuditInv, WriteInv, TypeOK
<1>5. ASSUME NEW e \in Calls, Save(e), target[e] = i
      PROVE  c \in Changes \/ pc'[c] = "append"
  <2>1. items'[i] = updated[e] /\ pc'[e] = "append"
    BY <1>5, SaveStep DEF AuditInv, WriteInv, TypeOK
  <2>2. c = e \/ (items[i] # None /\ c \in items[i].changes)
    BY <1>1, <1>5, <2>1, SaveStep DEF AuditInv
  <2> QED
    BY <2>1, <2>2, ChangesIs
<1> QED
  BY <1>2, <1>3, <1>4, <1>5, ItemsStep DEF AuditInv

\* What has been audited stays so.
LEMMA AuditedStep ==
  ASSUME AuditInv, [Next]_vars
  PROVE  Audited \subseteq Audited' /\ outbox \subseteq outbox'
<1>1. CASE UNCHANGED <<stream, outbox>>
  BY <1>1 DEF Audited, Events
<1>2. ASSUME NEW c \in Calls, SaveMessage(c) PROVE Audited' = Audited /\ outbox \subseteq outbox'
  BY <1>2 DEF SaveMessage, Audited, Events
<1>3. ASSUME NEW c \in Calls, AppendEvent(c), NEW d, d \in Audited PROVE d \in Audited'
  <2>1. PICK i \in Items : \E k \in DOMAIN stream[i] : stream[i][k].id = d
    BY <1>3, AuditedIs
  <2>2. PICK k \in DOMAIN stream[i] : stream[i][k].id = d
    BY <2>1
  <2>3. k \in DOMAIN stream'[i] /\ stream'[i][k] = stream[i][k]
    <3>1. CASE target[c] # i
      BY <1>3, <3>1, AppendStep DEF AuditInv, WriteInv, TypeOK
    <3>2. CASE target[c] = i
      <4>1. stream[i] \in Seq(AuditEvent) /\ stream'[i] = Append(stream[i], Event(c))
        BY <1>3, <3>2, AppendStep DEF AuditInv, WriteInv, TypeOK
      <4>2. Event(c) \in AuditEvent
        BY <1>3, AppendStep DEF Event, AuditEvent, WorkItem
      <4> QED
        BY <4>1, <4>2
    <3> QED
      BY <3>1, <3>2
  <2> QED
    BY <2>1, <2>2, <2>3 DEF Audited, Events
<1>4. ASSUME NEW c \in Calls, AppendEvent(c) PROVE outbox' = outbox
  BY <1>4, AppendStep
<1> QED
  BY <1>1, <1>2, <1>3, <1>4, StreamStep DEF AuditInv

\* A call leaves its append and its message undone only by a fault, which it has alone.
LEMMA UndoneStep ==
  ASSUME AuditInv, [Next]_vars, NEW c \in Calls,
         pc[c] \in {"append", "message"}, pc'[c] \notin {"append", "message"}
  PROVE  \/ c \in Audited' /\ c \in outbox'
         \/ StepFails(c) \/ Crash(c)
<1> USE DEF AuditInv, WriteInv, TypeOK, Goto
<1>1. CASE Elsewhere
  BY <1>1, ElsewhereStep
<1>2. ASSUME NEW d \in Calls, NEW i \in Items, Create(d, i) \/ Load(d, i) PROVE FALSE
  BY <1>2 DEF Create, Load
<1>3. ASSUME NEW d \in Calls, Compute(d) \/ Save(d) \/ AppendEvent(d) PROVE FALSE
  BY <1>3 DEF Compute, Save, AppendEvent
<1>4. ASSUME NEW d \in Calls, SaveMessage(d) PROVE c \in Audited' /\ c \in outbox'
  <2>1. c = d /\ outbox' = outbox \cup {c} /\ pc[c] = "message"
    BY <1>4 DEF SaveMessage
  <2> QED
    BY <2>1, AuditedStep DEF Recorded
<1>5. ASSUME NEW d \in Calls, Reject(d) \/ Enter(d) \/ TimeOut(d) \/ Conflict(d) \/ Leave(d)
      PROVE  FALSE
  BY <1>5 DEF Reject, Enter, TimeOut, Conflict, Leave
<1>6. ASSUME NEW d \in Calls, StepFails(d) \/ Crash(d) PROVE d = c
  BY <1>6 DEF StepFails, Crash
<1> QED
  BY <1>1, <1>2, <1>3, <1>4, <1>5, <1>6, Steps DEF Quiet

\* Every step keeps the gaps below the number of faults.
LEMMA GapsStep == GapInv /\ [Next]_vars => GapsCounted'
<1> SUFFICES ASSUME GapInv, [Next]_vars PROVE GapsCounted'
  OBVIOUS
<1> USE DEF GapInv
<1>1. ASSUME NEW c, c \in Gaps', c \notin Gaps
      PROVE  c \in Calls /\ (StepFails(c) \/ Crash(c))
  <2>1. c \in Changes' /\ pc'[c] \notin {"append", "message"} /\ ~(c \in Audited' /\ c \in outbox')
    BY <1>1 DEF Gaps
  <2>2. c \in Calls /\ c \in Changes
    BY <2>1, ChangesStep
  <2>3. ~(c \in Audited /\ c \in outbox)
    BY <2>1, AuditedStep
  <2>4. pc[c] \in {"append", "message"}
    BY <1>1, <2>2, <2>3 DEF Gaps
  <2> QED
    BY <2>1, <2>2, <2>4, UndoneStep
<1>2. faults \in Nat /\ faults' \in Nat /\ faults <= faults'
  <2> USE DEF AuditInv, WriteInv, TypeOK
  <2>1. CASE Elsewhere
    BY <2>1, WorkItemsAssumption DEF Elsewhere, Tick, Recover, Overrun, vars, environment
  <2>2. ASSUME NEW c \in Calls, Reject(c) \/ Enter(c) \/ TimeOut(c) \/ Conflict(c) \/ Leave(c)
        PROVE  faults' = faults
    BY <2>2 DEF Reject, Enter, TimeOut, Conflict, Leave, environment
  <2>3. ASSUME NEW c \in Calls, StepFails(c) \/ Crash(c) PROVE faults' = faults + 1
    BY <2>3 DEF StepFails, Crash, Fault
  <2>4. ASSUME NEW c \in Calls, NEW i \in Items, Create(c, i) \/ Load(c, i)
        PROVE  faults' = faults
    BY <2>4 DEF Create, Load, environment
  <2>5. faults \in Nat
    BY WorkItemsAssumption
  <2>6. ASSUME NEW c \in Calls, Compute(c) \/ Save(c) \/ AppendEvent(c) \/ SaveMessage(c)
        PROVE  faults' = faults
    BY <2>6 DEF Compute, Save, AppendEvent, SaveMessage, environment
  <2> QED
    BY <2>1, <2>2, <2>3, <2>4, <2>5, <2>6, Steps DEF Quiet
<1>3. CASE Gaps' \subseteq Gaps
  <2>1. IsFiniteSet(Gaps') /\ Cardinality(Gaps') <= Cardinality(Gaps)
    BY <1>3, FS_Subset DEF GapsCounted
  <2>2. Cardinality(Gaps) \in Nat /\ Cardinality(Gaps') \in Nat
    BY <2>1, FS_CardinalityType DEF GapsCounted
  <2> QED
    BY <1>2, <2>1, <2>2 DEF GapsCounted
<1>4. ASSUME NEW c \in Calls, StepFails(c) \/ Crash(c) PROVE GapsCounted'
  <2>1. faults' = faults + 1 /\ \A d \in Calls \ {c} : pc'[d] = pc[d]
    BY <1>4 DEF StepFails, Crash, Fault, Goto, AuditInv, WriteInv, TypeOK
  <2>2. ASSUME NEW d \in Gaps', d \notin Gaps PROVE d = c
    BY <1>1, <1>4, <2>2 DEF StepFails, Crash, Goto, AuditInv, WriteInv, TypeOK, Inside
  <2>3. Gaps' \subseteq Gaps \cup {c}
    BY <2>2
  <2>4. /\ IsFiniteSet(Gaps \cup {c}) /\ Cardinality(Gaps \cup {c}) <= Cardinality(Gaps) + 1
        /\ Cardinality(Gaps) \in Nat
    BY FS_AddElement, FS_CardinalityType DEF GapsCounted
  <2>5. IsFiniteSet(Gaps') /\ Cardinality(Gaps') <= Cardinality(Gaps \cup {c})
    BY <2>3, <2>4, FS_Subset
  <2>6. Cardinality(Gaps') \in Nat /\ Cardinality(Gaps \cup {c}) \in Nat
    BY <2>4, <2>5, FS_CardinalityType
  <2> QED
    BY <1>2, <2>1, <2>4, <2>5, <2>6 DEF GapsCounted
<1> QED
  BY <1>1, <1>3, <1>4

(***************************************************************************)
(* Whenever nobody is in the unit of work, no more changes are without     *)
(* event or message than there were faults (the unit of work undoes        *)
(* nothing, but nothing else leaves a gap).                                *)
(***************************************************************************)
THEOREM FaultsLeaveGaps == Spec => []GapsByFault
<1>1. Init => GapInv
  <2> SUFFICES ASSUME Init PROVE GapsCounted
    BY AuditInit DEF GapInv
  <2>1. Gaps = {}
    BY DEF Init, Gaps, Changes
  <2> QED
    BY <2>1, FS_EmptySet DEF Init, GapsCounted
<1>2. GapInv /\ [Next]_vars => GapInv'
  BY AuditStep, GapsStep DEF GapInv
<1>3. ASSUME GapInv PROVE GapsByFault
  <2> SUFFICES ASSUME \A c \in Calls : pc[c] \notin Inside
               PROVE  Cardinality({c \in Changes : c \notin Audited \/ c \notin outbox}) <= faults
    BY DEF GapsByFault
  <2>1. Changes \subseteq Calls
    BY <1>3 DEF Changes, GapInv, AuditInv, WriteInv, TypeOK, WorkItem
  <2>2. {c \in Changes : c \notin Audited \/ c \notin outbox} = Gaps
    BY <2>1 DEF Gaps, Inside
  <2> QED
    BY <1>3, <2>2 DEF GapInv, GapsCounted
<1> QED
  BY <1>1, <1>2, <1>3, PTL DEF Spec
=============================================================================
