----------------------------- MODULE Processes -----------------------------
(***************************************************************************)
(* The process manager: a process instance as the operations of            *)
(* process-manager.ts change it, kept in a process store.                  *)
(*                                                                         *)
(* The operations are pure.  A handler loads an instance, applies one and  *)
(* saves the whole instance; the store compares no version, so a save may  *)
(* overwrite what another handler has saved since the load.  The variable  *)
(* lost tells whether that has happened.                                   *)
(***************************************************************************)
EXTENDS Naturals

CONSTANTS
  Handlers,
  Steps,     \* names of steps
  Timeouts,  \* ids of timeouts
  None,
  MaxSaves   \* bound on the saves

ProcessesAssumption ==
  /\ None \notin {"running", "completed", "failed", "scheduled", "fired", "cancelled"}
  /\ MaxSaves \in Nat

Statuses == {"running", "waiting", "completed", "failed", "compensating", "compensated",
             "cancelled"}

(***************************************************************************)
(* waitingFor and error stand for their presence; a step has a status and  *)
(* the number of its attempts.                                             *)
(***************************************************************************)
Instance ==
  [status : Statuses, waitingFor : BOOLEAN, error : BOOLEAN,
   steps : [Steps -> {None, "running", "completed", "failed"}],
   attempts : [Steps -> 0..MaxSaves],
   timeouts : [Timeouts -> {None, "scheduled", "fired", "cancelled"}]]

NoInstance == None \notin Instance

VARIABLES
  stored,  \* the instance in the store
  copy,    \* the instance each handler has loaded
  saves,   \* saves so far
  read,    \* of each handler, the saves its copy has seen
  lost     \* a save has gone over one its handler had not seen

vars == <<stored, copy, saves, read, lost>>

\* createProcess, saved by whoever starts the process
NewProcess ==
  [status |-> "running", waitingFor |-> FALSE, error |-> FALSE,
   steps |-> [s \in Steps |-> None], attempts |-> [s \in Steps |-> 0],
   timeouts |-> [t \in Timeouts |-> None]]

Init ==
  /\ stored = NewProcess
  /\ copy = [h \in Handlers |-> None]
  /\ saves = 0
  /\ read = [h \in Handlers |-> 0]
  /\ lost = FALSE

\* getById, list or listDueTimeouts
Load(h) ==
  /\ copy[h] = None
  /\ copy' = [copy EXCEPT ![h] = stored]
  /\ read' = [read EXCEPT ![h] = saves]
  /\ UNCHANGED <<stored, saves, lost>>

\* The handler goes without a save: the operation has thrown.
Drop(h) ==
  /\ copy[h] # None
  /\ copy' = [copy EXCEPT ![h] = None]
  /\ read' = [read EXCEPT ![h] = 0]
  /\ UNCHANGED <<stored, saves, lost>>

\* The whole instance is saved, under the lock of its file.
Save(h, instance) ==
  /\ saves < MaxSaves
  /\ saves' = saves + 1
  /\ stored' = instance
  /\ lost' = (lost \/ read[h] # saves)
  /\ copy' = [copy EXCEPT ![h] = None]
  /\ read' = [read EXCEPT ![h] = 0]

-----------------------------------------------------------------------------
\* assertProcessOpen
Open(p) == p.status \in {"running", "waiting"}

\* Mutant of Operating: whatever status the process has.
OperatingAlways(h) == copy[h] # None

Operating(h) == copy[h] # None /\ Open(copy[h])

\* The step is put in, new or in the place of the one of its name.
StartStep(h, s) ==
  /\ Operating(h)
  /\ copy[h].attempts[s] < MaxSaves
  /\ Save(h, [copy[h] EXCEPT !.steps[s] = "running", !.attempts[s] = @ + 1,
                             !.status = "running"])

\* A step of any status may be completed; waitingFor stays.
CompleteStep(h, s) ==
  /\ Operating(h)
  /\ copy[h].steps[s] # None
  /\ Save(h, [copy[h] EXCEPT !.steps[s] = "completed", !.status = "running"])

\* With the step the process fails.
FailStep(h, s) ==
  /\ Operating(h)
  /\ copy[h].steps[s] # None
  /\ Save(h, [copy[h] EXCEPT !.steps[s] = "failed", !.status = "failed", !.error = TRUE])

Wait(h) ==
  /\ Operating(h)
  /\ Save(h, [copy[h] EXCEPT !.status = "waiting", !.waitingFor = TRUE])

Resume(h) ==
  /\ copy[h] # None /\ copy[h].status = "waiting"
  /\ Save(h, [copy[h] EXCEPT !.status = "running", !.waitingFor = FALSE])

Schedule(h, t) ==
  /\ Operating(h)
  /\ copy[h].timeouts[t] = None
  /\ Save(h, [copy[h] EXCEPT !.timeouts[t] = "scheduled"])

\* Of whatever status: fireProcessTimeout and cancelProcessTimeout look at none.
EndTimeout(h, t, status) ==
  /\ Operating(h)
  /\ copy[h].timeouts[t] # None
  /\ Save(h, [copy[h] EXCEPT !.timeouts[t] = status])

Complete(h) ==
  /\ Operating(h)
  /\ Save(h, [copy[h] EXCEPT !.status = "completed", !.waitingFor = FALSE, !.error = FALSE])

\* waitingFor stays.
Fail(h) ==
  /\ Operating(h)
  /\ Save(h, [copy[h] EXCEPT !.status = "failed", !.error = TRUE])

Cancel(h) ==
  /\ Operating(h)
  /\ Save(h, [copy[h] EXCEPT !.status = "cancelled", !.waitingFor = FALSE])

StartCompensation(h) ==
  /\ copy[h] # None /\ copy[h].status = "failed"
  /\ Save(h, [copy[h] EXCEPT !.status = "compensating"])

CompleteCompensation(h) ==
  /\ copy[h] # None /\ copy[h].status = "compensating"
  /\ Save(h, [copy[h] EXCEPT !.status = "compensated"])

Next ==
  \E h \in Handlers :
    \/ Load(h) \/ Drop(h)
    \/ Wait(h) \/ Resume(h) \/ Complete(h) \/ Fail(h) \/ Cancel(h)
    \/ StartCompensation(h) \/ CompleteCompensation(h)
    \/ \E s \in Steps : StartStep(h, s) \/ CompleteStep(h, s) \/ FailStep(h, s)
    \/ \E t \in Timeouts :
         Schedule(h, t) \/ EndTimeout(h, t, "fired") \/ EndTimeout(h, t, "cancelled")

Spec == Init /\ [][Next]_vars
-----------------------------------------------------------------------------
\* Every variable has its type.
TypeOK ==
  /\ stored \in Instance
  /\ copy \in [Handlers -> Instance \cup {None}]
  /\ saves \in 0..MaxSaves
  /\ read \in [Handlers -> 0..MaxSaves]
  /\ lost \in BOOLEAN

(***************************************************************************)
(* What has ended stays so, unless a save is lost: a process leaves        *)
(* failed only for its compensation and a final status never, a step is    *)
(* not forgotten, and a timeout does not become scheduled again.           *)
(***************************************************************************)
EndsForGood ==
  [][lost' \/
      /\ stored.status \in {"completed", "cancelled", "compensated"} => stored' = stored
      /\ stored.status = "failed" => stored'.status \in {"failed", "compensating"}
      /\ stored.status = "compensating" => stored'.status \in {"compensating", "compensated"}
      /\ \A s \in Steps : stored'.attempts[s] >= stored.attempts[s]
      /\ \A t \in Timeouts :
           stored.timeouts[t] # None => stored'.timeouts[t] # None]_vars
=============================================================================
