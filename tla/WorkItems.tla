----------------------------- MODULE WorkItems -----------------------------
(***************************************************************************)
(* The write path of the work-item use cases (createWorkItem,              *)
(* transitionWorkItem, updateWorkItemFields, assignWorkItem, addComment    *)
(* and addDecision) on the filesystem adapters.                            *)
(*                                                                         *)
(* A call loads the item and computes its successor and the audit event    *)
(* outside any lock; then, in the unit of work, it saves the item if its   *)
(* version is still the one that was loaded, appends the event to the      *)
(* stream of the item and saves the outbox message.  The unit of work is   *)
(* a lock file and nothing more: a step that throws, or a process that     *)
(* dies, leaves the steps before it done.  A waiter removes the lock of a  *)
(* holder that is dead or has overrun the lease of the lock (module        *)
(* FileLock), and who leaves removes whatever lock file is there.          *)
(*                                                                         *)
(* A call makes at most one event, so the event, its outbox message and    *)
(* the change of the item all go by the name of the call.                  *)
(***************************************************************************)
EXTENDS Naturals, Sequences, FiniteSets

CONSTANTS
  Calls,        \* the calls of the use cases, by whatever process
  Items,        \* work item ids nextId can return
  None,
  States,       \* of the workflow of the items
  InitialState,
  ClosedStates,
  Transitions,  \* pairs of states an action leads from and to
  MaxTime,      \* bound on the clock
  MaxFaults,    \* bound on crashes and failing steps
  MaxOverruns   \* bound on leases that end under a running holder

ASSUME WorkItemsAssumption ==
  /\ InitialState \in States       \* validateWorkflowDefinition
  /\ ClosedStates \subseteq States
  /\ Transitions \subseteq States \X States
  /\ None \notin Calls
  /\ MaxTime \in Nat
  /\ MaxFaults \in Nat
  /\ MaxOverruns \in Nat

\* A work item; changes is what its fields, comments and decisions add up to.
WorkItem == [version : Nat, status : States, updatedAt : 0..MaxTime, changes : SUBSET Calls]

ASSUME NoneAssumption == None \notin WorkItem /\ None \notin Items

AuditEvent == [id : Calls, version : Nat, occurredAt : 0..MaxTime]

VARIABLES
  now,
  items,     \* the work item repository
  stream,    \* the audit events of each item
  outbox,    \* the events an outbox message has been saved for
  uow,       \* whom the lock file of the unit of work belongs to
  issued,    \* item ids that have been handed out
  pc,        \* where each call is
  target,    \* the item a call is about
  current,   \* the item as the call has loaded it; None when it creates one
  updated,   \* the item the call wants to save
  faults,
  overruns

vars == <<now, items, stream, outbox, uow, issued, pc, target, current, updated, faults, overruns>>

store == <<items, stream, outbox>>
local == <<target, current, updated>>
environment == <<now, faults, overruns>>

(***************************************************************************)
(* loaded: the item is read; ready: the successor is computed, the unit of *)
(* work is next; save, append, message, leave: inside the unit of work;    *)
(* done: returned; rejected: a check or the version refused it; failed: a  *)
(* lock or a store threw; crashed: its process is gone.                    *)
(***************************************************************************)
Inside == {"save", "append", "message", "leave"}

PCs == {"new", "loaded", "ready", "done", "rejected", "failed", "crashed"} \cup Inside

Init ==
  /\ now = 0
  /\ items = [i \in Items |-> None]
  /\ stream = [i \in Items |-> <<>>]
  /\ outbox = {}
  /\ uow = None
  /\ issued = {}
  /\ pc = [c \in Calls |-> "new"]
  /\ target = [c \in Calls |-> None]
  /\ current = [c \in Calls |-> None]
  /\ updated = [c \in Calls |-> None]
  /\ faults = 0
  /\ overruns = 0

Goto(c, from, to) ==
  /\ pc[c] = from
  /\ pc' = [pc EXCEPT ![c] = to]

Fault ==
  /\ faults < MaxFaults
  /\ faults' = faults + 1
  /\ UNCHANGED <<now, overruns>>

-----------------------------------------------------------------------------
\* createWorkItem: the item and its event are made, the id is new.
Create(c, i) ==
  /\ Goto(c, "new", "ready")
  /\ i \notin issued
  /\ issued' = issued \cup {i}
  /\ target' = [target EXCEPT ![c] = i]
  /\ updated' = [updated EXCEPT ![c] =
       [version |-> 1, status |-> InitialState, updatedAt |-> now, changes |-> {c}]]
  /\ UNCHANGED <<store, uow, current, environment>>

(***************************************************************************)
(* getById and assertExpectedVersion: a caller may name the version it     *)
(* expects; a call that names another one than is stored is rejected here. *)
(***************************************************************************)
Load(c, i) ==
  /\ Goto(c, "new", "loaded")
  /\ items[i] # None
  /\ target' = [target EXCEPT ![c] = i]
  /\ current' = [current EXCEPT ![c] = items[i]]
  /\ UNCHANGED <<store, uow, issued, updated, environment>>

\* assertCanModify and findTransition: the states a call may leave the item in.
Successors(status) ==
  IF status \in ClosedStates
    THEN {}
    ELSE {status} \cup {to \in States : <<status, to>> \in Transitions}

\* The successor of the loaded item, with the time it gets.
Change(c, to) ==
  [version |-> current[c].version + 1, status |-> to,
   updatedAt |-> now, changes |-> current[c].changes \cup {c}]

\* The checks and the policy pass; the clock is read and the successor made.
Compute(c) ==
  /\ Goto(c, "loaded", "ready")
  /\ \E to \in Successors(current[c].status) :
       updated' = [updated EXCEPT ![c] = Change(c, to)]
  /\ UNCHANGED <<store, uow, issued, target, current, environment>>

\* A closed item, an action without a transition, a missing field, the policy.
Reject(c) ==
  /\ Goto(c, "loaded", "rejected")
  /\ UNCHANGED <<store, uow, issued, local, environment>>

-----------------------------------------------------------------------------
\* Mutant of Enter: the unit of work runs its callback without the lock.
EnterAtOnce(c) ==
  /\ Goto(c, "ready", "save")
  /\ uow' = c
  /\ UNCHANGED <<store, issued, local, environment>>

\* unitOfWork.run: the lock file is created.
Enter(c) ==
  /\ Goto(c, "ready", "save")
  /\ uow = None
  /\ uow' = c
  /\ UNCHANGED <<store, issued, local, environment>>

\* The lock file stays too long: withFileLock throws, nothing was done.
TimeOut(c) ==
  /\ Goto(c, "ready", "failed")
  /\ uow # None
  /\ UNCHANGED <<store, uow, issued, local, environment>>

\* Mutant of SavesOver: the version is not compared.
SavesOverAny(stored, c) == TRUE

\* The version is compared only when the item was loaded, not created.
SavesOver(stored, c) ==
  current[c] # None => stored # None /\ stored.version = current[c].version

\* Mutant of Save: a conflict is passed over and the event is recorded.
SaveOrGoOn(c) ==
  /\ Goto(c, "save", "append")
  /\ IF SavesOver(items[target[c]], c)
       THEN items' = [items EXCEPT ![target[c]] = updated[c]]
       ELSE UNCHANGED items
  /\ UNCHANGED <<stream, outbox, uow, issued, local, environment>>

\* workItems.save, under the lock of the item.
Save(c) ==
  /\ Goto(c, "save", "append")
  /\ SavesOver(items[target[c]], c)
  /\ items' = [items EXCEPT ![target[c]] = updated[c]]
  /\ UNCHANGED <<stream, outbox, uow, issued, local, environment>>

\* VersionConflictError; the unit of work removes its lock file.
Conflict(c) ==
  /\ Goto(c, "save", "rejected")
  /\ ~SavesOver(items[target[c]], c)
  /\ uow' = None
  /\ UNCHANGED <<store, issued, local, environment>>

Event(c) == [id |-> c, version |-> updated[c].version, occurredAt |-> updated[c].updatedAt]

\* Mutant of Append: the outbox message is forgotten.
AppendOnly(c) ==
  /\ Goto(c, "append", "leave")
  /\ stream' = [stream EXCEPT ![target[c]] = Append(@, Event(c))]
  /\ UNCHANGED <<items, outbox, uow, issued, local, environment>>

\* events.append
AppendEvent(c) ==
  /\ Goto(c, "append", "message")
  /\ stream' = [stream EXCEPT ![target[c]] = Append(@, Event(c))]
  /\ UNCHANGED <<items, outbox, uow, issued, local, environment>>

\* outbox.save
SaveMessage(c) ==
  /\ Goto(c, "message", "leave")
  /\ outbox' = outbox \cup {c}
  /\ UNCHANGED <<items, stream, uow, issued, local, environment>>

\* The lock file, whosever it is by now, is removed.
Leave(c) ==
  /\ Goto(c, "leave", "done")
  /\ uow' = None
  /\ UNCHANGED <<store, issued, local, environment>>

-----------------------------------------------------------------------------
(***************************************************************************)
(* A store call in the unit of work throws, with its write not done or,    *)
(* under the next label, done: the lock file is removed, nothing else is   *)
(* undone.                                                                 *)
(***************************************************************************)
StepFails(c) ==
  /\ pc[c] \in Inside
  /\ Goto(c, pc[c], "failed")
  /\ uow' = None
  /\ Fault
  /\ UNCHANGED <<store, issued, local>>

\* The process of a call dies.
Crash(c) ==
  /\ pc[c] \in {"loaded", "ready"} \cup Inside
  /\ Goto(c, pc[c], "crashed")
  /\ Fault
  /\ UNCHANGED <<store, uow, issued, local>>

\* A waiter removes the lock file a dead process has left.
Recover ==
  /\ uow # None /\ pc[uow] = "crashed"
  /\ uow' = None
  /\ UNCHANGED <<store, issued, pc, local, environment>>

\* A waiter removes the lock file of a holder that takes longer than staleMs.
Overrun ==
  /\ uow # None /\ pc[uow] \in Inside
  /\ overruns < MaxOverruns
  /\ overruns' = overruns + 1
  /\ uow' = None
  /\ UNCHANGED <<store, issued, pc, local, now, faults>>

Tick ==
  /\ now < MaxTime
  /\ now' = now + 1
  /\ UNCHANGED <<store, uow, issued, pc, local, faults, overruns>>

Next ==
  \/ Tick \/ Recover \/ Overrun
  \/ \E c \in Calls :
       \/ \E i \in Items : Create(c, i) \/ Load(c, i)
       \/ Compute(c) \/ Reject(c) \/ Enter(c) \/ TimeOut(c)
       \/ Save(c) \/ Conflict(c) \/ AppendEvent(c) \/ SaveMessage(c) \/ Leave(c)
       \/ StepFails(c) \/ Crash(c)

Spec == Init /\ [][Next]_vars
-----------------------------------------------------------------------------
\* Every variable has its type.
TypeOK ==
  /\ now \in 0..MaxTime
  /\ items \in [Items -> WorkItem \cup {None}]
  /\ stream \in [Items -> Seq(AuditEvent)]
  /\ outbox \subseteq Calls
  /\ uow \in Calls \cup {None}
  /\ issued \subseteq Items
  /\ pc \in [Calls -> PCs]
  /\ target \in [Calls -> Items \cup {None}]
  /\ current \in [Calls -> WorkItem \cup {None}]
  /\ updated \in [Calls -> WorkItem \cup {None}]
  /\ faults \in 0..MaxFaults
  /\ overruns \in 0..MaxOverruns

Changes == UNION {items[i].changes : i \in {j \in Items : items[j] # None}}

Events(i) == {stream[i][k] : k \in DOMAIN stream[i]}

Audited == UNION {{event.id : event \in Events(i)} : i \in Items}

(***************************************************************************)
(* No update is lost: what a call has saved stays in the item, whatever    *)
(* other calls loaded before it (the expectedVersion of                    *)
(* FsWorkItemRepository.save), even when the unit of work is overrun.      *)
(***************************************************************************)
UpdatesKept ==
  \A c \in Calls :
    pc[c] \in {"append", "message", "leave", "done"} => c \in items[target[c]].changes

(***************************************************************************)
(* The audit stream never tells of an update the item does not have, or    *)
(* twice of one version, and no message is published for an event that is  *)
(* not in a stream (recordAuditEvent comes after the save, and the outbox  *)
(* after the append).                                                      *)
(***************************************************************************)
AuditTruthful ==
  /\ \A i \in Items :
       /\ \A event \in Events(i) : items[i] # None /\ event.id \in items[i].changes
       /\ \A j, k \in DOMAIN stream[i] :
            stream[i][j].version = stream[i][k].version => j = k
  /\ outbox \subseteq Audited

(***************************************************************************)
(* Events stand in their stream in the order of the versions they made,    *)
(* as long as no holder of the unit of work overruns its lease; crashes    *)
(* and failing steps leave gaps but no disorder.                           *)
(***************************************************************************)
StreamInOrder ==
  overruns = 0 =>
    \A i \in Items : \A j, k \in DOMAIN stream[i] :
      j < k => stream[i][j].version < stream[i][k].version

(***************************************************************************)
(* Later versions have later times, or the same: getByWorkItemId, which    *)
(* sorts by time, lists the history in the order of the versions but for   *)
(* events of one instant, although each call reads the clock before it     *)
(* has the lock, and even when the stream is out of order.                 *)
(***************************************************************************)
HistoryInTime ==
  \A i \in Items : \A e, f \in Events(i) :
    e.version < f.version => e.occurredAt <= f.occurredAt

\* What a reader of the stream, or of the history of an item, can rely on.
EventsInOrder == StreamInOrder /\ HistoryInTime

(***************************************************************************)
(* Whenever no call is in the unit of work, no more updates are without    *)
(* an event or without a message than steps have failed or crashed.        *)
(***************************************************************************)
GapsByFault ==
  (\A c \in Calls : pc[c] \notin Inside) =>
    Cardinality({c \in Changes : c \notin Audited \/ c \notin outbox}) <= faults

(***************************************************************************)
(* A closed item stays as it is: assertCanModify looks at the loaded copy, *)
(* the version keeps a call that loaded it open from reopening it.         *)
(***************************************************************************)
ClosedFrozen ==
  [][\A i \in Items :
       items[i] # None /\ items[i].status \in ClosedStates => items'[i] = items[i]]_vars
=============================================================================
