---------------------------- MODULE Integrations ----------------------------
(***************************************************************************)
(* IntegrationRunner over an attempt repository: calls of a provider under *)
(* an idempotency key, and the use cases that create and mark attempts by  *)
(* hand.                                                                   *)
(*                                                                         *)
(* createPending is one step (it runs under the lock of the key), and so   *)
(* is each mark (under the lock of the attempt), but the run as a whole is *)
(* not: the provider is called and the attempt marked outside any lock,    *)
(* and a mark looks at no status.  A pending attempt has no lease.  An     *)
(* attempt goes by the name of the call that made it.                      *)
(***************************************************************************)
EXTENDS Naturals, FiniteSets

CONSTANTS
  Calls,     \* runs, and calls of createIntegrationAttempt
  Keys,      \* idempotency keys
  Hashes,    \* of requests
  None,      \* no attempt, no hash, no external id
  MaxFaults, \* bound on repository calls that throw and processes that die
  MaxMarks   \* bound on attempts marked by hand

VARIABLES
  attempts,  \* the repository
  pc,
  request,   \* the key and the hash of each call
  returned,  \* the calls whose provider has done what it was asked to
  faults,
  marks

vars == <<attempts, pc, request, returned, faults, marks>>

Statuses == {"pending", "succeeded", "failed", "skipped"}

\* The external id the provider gives to a call goes by the name of the call.
Attempt == [key : Keys, hash : Hashes \cup {None}, status : Statuses,
            externalId : Calls \cup {None}]

Requests == [op : {"run", "create"}, key : Keys, hash : Hashes \cup {None}]

IntegrationsAssumption ==
  /\ None \notin Hashes \cup Calls \cup Attempt \cup Requests
  /\ MaxFaults \in Nat
  /\ MaxMarks \in Nat

PCs == {"new", "begin", "lookup", "execute", "mark", "markFailed",
        "created", "succeeded", "failed", "skipped", "in_progress",
        "refused", "threw", "crashed"}

Init ==
  /\ attempts = [c \in Calls |-> None]
  /\ pc = [c \in Calls |-> "new"]
  /\ request = [c \in Calls |-> None]
  /\ returned = {}
  /\ faults = 0
  /\ marks = 0

Goto(c, from, to) ==
  /\ pc[c] = from
  /\ pc' = [pc EXCEPT ![c] = to]

Fault ==
  /\ faults < MaxFaults
  /\ faults' = faults + 1

-----------------------------------------------------------------------------
\* The key is given or made of the event; a run has a hash, a creation may have none.
Start(c, op, k, h) ==
  /\ op = "run" => h # None
  /\ Goto(c, "new", "begin")
  /\ request' = [request EXCEPT ![c] = [op |-> op, key |-> k, hash |-> h]]
  /\ UNCHANGED <<attempts, returned, faults, marks>>

Having(k, statuses) ==
  {c \in Calls : /\ attempts[c] # None
                 /\ attempts[c].key = k
                 /\ attempts[c].status \in statuses}

(***************************************************************************)
(* findBlockingIntegrationAttemptByIdempotencyKey: succeeded before        *)
(* pending; of several the one updated last, the model takes any.          *)
(***************************************************************************)
Blocking(k) ==
  IF Having(k, {"succeeded"}) # {} THEN Having(k, {"succeeded"}) ELSE Having(k, {"pending"})

\* assertIntegrationAttemptRequestCompatible
Compatible(a, h) == a.hash = None \/ h = None \/ a.hash = h

New(c, status, externalId) ==
  attempts' = [attempts EXCEPT ![c] =
    [key |-> request[c].key, hash |-> request[c].hash,
     status |-> status, externalId |-> externalId]]

\* Nothing blocks the key: a pending attempt is saved.
CreatePending(c) ==
  /\ pc[c] = "begin"
  /\ Goto(c, "begin", IF request[c].op = "run" THEN "execute" ELSE "created")
  /\ Blocking(request[c].key) = {}
  /\ New(c, "pending", None)
  /\ UNCHANGED <<request, returned, faults, marks>>

\* The key has succeeded: a skipped attempt is saved, with the external id.
CreateSkipped(c) ==
  /\ Goto(c, "begin", "skipped")
  /\ \E d \in Blocking(request[c].key) :
       /\ attempts[d].status = "succeeded"
       /\ Compatible(attempts[d], request[c].hash)
       /\ New(c, "skipped", attempts[d].externalId)
  /\ UNCHANGED <<request, returned, faults, marks>>

\* IdempotencyConflictError, or for a creation IdempotencyInProgressError.
Refuse(c) ==
  /\ Goto(c, "begin", "refused")
  /\ \E d \in Blocking(request[c].key) :
       \/ ~Compatible(attempts[d], request[c].hash)
       \/ attempts[d].status = "pending" /\ request[c].op = "create"
  /\ UNCHANGED <<attempts, request, returned, faults, marks>>

\* IdempotencyInProgressError in a run, which looks the attempt up again.
InProgress(c) ==
  /\ Goto(c, "begin", "lookup")
  /\ request[c].op = "run"
  /\ \E d \in Blocking(request[c].key) :
       attempts[d].status = "pending" /\ Compatible(attempts[d], request[c].hash)
  /\ UNCHANGED <<attempts, request, returned, faults, marks>>

\* By then it may have ended: the error is thrown on.
LookUp(c) ==
  /\ pc[c] = "lookup"
  /\ LET found == Blocking(request[c].key)
         pending == found # {} /\ found \subseteq Having(request[c].key, {"pending"})
     IN  Goto(c, "lookup", IF pending THEN "in_progress" ELSE "refused")
  /\ UNCHANGED <<attempts, request, returned, faults, marks>>

\* provider.execute returns, or throws and has done nothing.
Execute(c) ==
  /\ \/ Goto(c, "execute", "mark") /\ returned' = returned \cup {c}
     \/ Goto(c, "execute", "markFailed") /\ UNCHANGED returned
  /\ UNCHANGED <<attempts, request, faults, marks>>

\* markIntegrationAttemptSucceeded: an external id is kept unless another is given.
Succeeded(a, externalId) ==
  [a EXCEPT !.status = "succeeded",
            !.externalId = IF externalId = None THEN a.externalId ELSE externalId]

\* markIntegrationAttemptFailed, from whatever status
Failed(a) == [a EXCEPT !.status = "failed", !.externalId = None]

MarkSucceeded(c) ==
  /\ Goto(c, "mark", "succeeded")
  /\ attempts' = [attempts EXCEPT ![c] = Succeeded(@, c)]
  /\ UNCHANGED <<request, returned, faults, marks>>

\* Mutant of MarkThrows: it is marked failed as often as it takes, without a fault.
MarkForgotten(c) ==
  /\ Goto(c, "mark", "markFailed")
  /\ UNCHANGED <<attempts, request, returned, faults, marks>>

(***************************************************************************)
(* markSucceeded throws, its write done or not: the catch that was meant   *)
(* for the provider marks the attempt failed.                              *)
(***************************************************************************)
MarkThrows(c) ==
  /\ Goto(c, "mark", "markFailed")
  /\ Fault
  /\ \/ UNCHANGED attempts
     \/ attempts' = [attempts EXCEPT ![c] = Succeeded(@, c)]
  /\ UNCHANGED <<request, returned, marks>>

\* Mutant of MarkFailed: the error is answered and the attempt stays pending.
AnswerFailed(c) ==
  /\ Goto(c, "markFailed", "failed")
  /\ UNCHANGED <<attempts, request, returned, faults, marks>>

MarkFailed(c) ==
  /\ Goto(c, "markFailed", "failed")
  /\ attempts' = [attempts EXCEPT ![c] = Failed(@)]
  /\ UNCHANGED <<request, returned, faults, marks>>

\* markFailed throws, or the process dies: the attempt stays as it is.
Leaves(c) ==
  /\ \/ Goto(c, "markFailed", "threw")
     \/ \E from \in {"execute", "mark", "markFailed"} : Goto(c, from, "crashed")
  /\ Fault
  /\ UNCHANGED <<attempts, request, returned, marks>>

\* The mark use cases: any attempt, whatever its status.
MarkByHand(c) ==
  /\ marks < MaxMarks
  /\ marks' = marks + 1
  /\ attempts[c] # None
  /\ \E marked \in {Succeeded(attempts[c], None), Failed(attempts[c])} :
       attempts' = [attempts EXCEPT ![c] = marked]
  /\ UNCHANGED <<pc, request, returned, faults>>

Next ==
  \E c \in Calls :
    \/ \E op \in {"run", "create"}, k \in Keys, h \in Hashes \cup {None} : Start(c, op, k, h)
    \/ CreatePending(c) \/ CreateSkipped(c) \/ Refuse(c) \/ InProgress(c) \/ LookUp(c)
    \/ Execute(c) \/ MarkSucceeded(c) \/ MarkThrows(c) \/ MarkFailed(c) \/ Leaves(c)
    \/ MarkByHand(c)

\* A run that is under way goes on: its process lives and the provider answers.
Fairness ==
  \A c \in Calls :
    WF_vars(CreatePending(c) \/ CreateSkipped(c) \/ Refuse(c) \/ InProgress(c) \/ LookUp(c)
            \/ Execute(c) \/ MarkSucceeded(c) \/ MarkFailed(c))

Spec == Init /\ [][Next]_vars /\ Fairness
-----------------------------------------------------------------------------
\* Every variable has its type.
TypeOK ==
  /\ attempts \in [Calls -> Attempt \cup {None}]
  /\ pc \in [Calls -> PCs]
  /\ request \in [Calls -> Requests \cup {None}]
  /\ returned \subseteq Calls
  /\ faults \in 0..MaxFaults
  /\ marks \in 0..MaxMarks

Running(k) ==
  {c \in Calls : pc[c] \in {"execute", "mark", "markFailed"} /\ request[c].key = k}

Done(k) == {c \in returned : request[c].key = k}

(***************************************************************************)
(* As long as nobody marks attempts by hand, two runs of a key never have  *)
(* their provider at work at once, and the provider does what the key      *)
(* stands for once, and once more at most for each fault: a mark that      *)
(* throws is the only way to a second execution.                           *)
(***************************************************************************)
ExecutedOnce ==
  marks = 0 =>
    \A k \in Keys : /\ Cardinality(Running(k)) <= 1
                    /\ Cardinality(Done(k)) <= 1 + faults

(***************************************************************************)
(* A run ends, and then its attempt is pending only by a fault: no answer  *)
(* of the runner leaves a key that every later run finds in progress.      *)
(***************************************************************************)
EndsUnblocked ==
  \A c \in Calls :
    (request[c] # None /\ request[c].op = "run") ~>
      /\ pc[c] \notin {"begin", "lookup"} \cup {"execute", "mark", "markFailed"}
      /\ attempts[c] # None /\ attempts[c].status = "pending" => pc[c] \in {"threw", "crashed"}
=============================================================================
