------------------------------- MODULE Outbox -------------------------------
(***************************************************************************)
(* The outbox: messages saved next to the audit events of a mutation       *)
(* (src/src/primitives/outbox.ts), a repository whose claims are made      *)
(* message by message under the lock of the message                        *)
(* (src/src/adapters/fs/fs-outbox-repository.ts), and workers that claim   *)
(* what is due, publish it and save the outcome                            *)
(* (runOutboxWorker of src/src/application/outbox-worker.ts).              *)
(*                                                                         *)
(* A worker lists the due messages without a lock, claims them one by one, *)
(* then works through its own copies of them; a save writes the whole      *)
(* message back.  Other workers and new messages come in between any two   *)
(* of these steps.  Messages are numbered in the order they are saved,     *)
(* which is the order the repository lists them in.                        *)
(***************************************************************************)
EXTENDS Naturals, FiniteSets

CONSTANTS
  Workers,        \* workers, each of which runs again and again
  NMessages,      \* number of messages saved
  None,
  Limits,         \* values of options.limit
  MaxAttempts,    \* options.maxAttempts
  RetryMs,        \* options.retryDelayMs; 0 when it is absent
  MaxTime,        \* bound on the clock
  MaxRefusals,    \* bound on publishers that throw
  MaxFaults       \* bound on crashes and failing saves

ASSUME OutboxAssumption ==
  /\ NMessages \in Nat
  /\ Limits \subseteq Nat \ {0}  \* optionalPositiveIntegerOption
  /\ MaxAttempts \in Nat \ {0}   \* optionalPositiveIntegerOption
  /\ RetryMs \in Nat             \* optionalNonNegativeIntegerOption
  /\ MaxTime \in Nat
  /\ MaxRefusals \in Nat
  /\ MaxFaults \in Nat

Messages == 1..NMessages

Statuses == {"pending", "publishing", "published", "failed", "dead"}

OutboxMessages == [status : Statuses, attempts : Nat, availableAt : Nat]

ASSUME NoneAssumption == None \notin OutboxMessages

VARIABLES
  now,
  outbox,      \* the repository: a message or None under each id
  pc,          \* where each worker is
  claimNow,    \* the clock reading a run passes to claimDue
  candidates,  \* ids a run has listed and not yet tried to claim
  held,        \* each worker's copies of the messages it has claimed
  tries,       \* history: calls of the publisher for each message
  deliveries,  \* history: how often the publisher accepted each message
  refusals,
  faults

vars == <<now, outbox, pc, claimNow, candidates, held, tries, deliveries, refusals, faults>>

(***************************************************************************)
(* idle: no run; claim: claimDue works through its candidates; publish:    *)
(* the publisher is next; save: the publisher accepted, the save of the    *)
(* published message is next; catch: something threw, the save of the      *)
(* failed message is next.                                                 *)
(***************************************************************************)
PCs == {"idle", "claim", "publish", "save", "catch"}

Nothing == [m \in Messages |-> None]

Init ==
  /\ now = 0
  /\ outbox = Nothing
  /\ pc = [w \in Workers |-> "idle"]
  /\ claimNow = [w \in Workers |-> 0]
  /\ candidates = [w \in Workers |-> {}]
  /\ held = [w \in Workers |-> Nothing]
  /\ tries = [m \in Messages |-> 0]
  /\ deliveries = [m \in Messages |-> 0]
  /\ refusals = 0
  /\ faults = 0

Goto(w, label) == pc' = [pc EXCEPT ![w] = label]

Fault ==
  /\ faults < MaxFaults
  /\ faults' = faults + 1

Held(w) == {m \in Messages : held[w][m] # None}

Saved == {m \in Messages : outbox[m] # None}

First(ids) == CHOOSE m \in ids : \A n \in ids : m <= n

\* slice(0, limit) of a list in the order of its ids.
Slice(ids, limit) == {m \in ids : Cardinality({n \in ids : n < m}) < limit}

-----------------------------------------------------------------------------
\* createOutboxMessage and save: the next message of a mutation.
Enqueue ==
  /\ Saved # Messages
  /\ outbox' = [outbox EXCEPT ![First(Messages \ Saved)] =
                  [status |-> "pending", attempts |-> 0, availableAt |-> now]]
  /\ UNCHANGED <<now, pc, claimNow, candidates, held, tries, deliveries, refusals, faults>>

\* Mutant of IsDue: a message that is being published counts as due.
IsDueWhilePublishing(message, t) ==
  /\ message # None
  /\ message.status \in {"pending", "publishing", "failed"}
  /\ message.availableAt <= t

\* Mutant of IsDue: the availability of the message is not looked at.
IsDueAtOnce(message, t) ==
  /\ message # None
  /\ message.status \in {"pending", "failed"}

\* Mutant of IsDue: a message that failed is not due again.
IsDueUntried(message, t) ==
  /\ message # None
  /\ message.status = "pending"
  /\ message.availableAt <= t

IsDue(message, t) ==
  /\ message # None
  /\ message.status \in {"pending", "failed"}
  /\ message.availableAt <= t

\* A run begins; claimDue lists the messages that are due.
Begin(w) ==
  /\ pc[w] = "idle"
  /\ claimNow' = [claimNow EXCEPT ![w] = now]
  /\ \E limit \in Limits :
       candidates' = [candidates EXCEPT ![w] = Slice({m \in Messages : IsDue(outbox[m], now)}, limit)]
  /\ candidates'[w] # {}
  /\ Goto(w, "claim")
  /\ UNCHANGED <<now, outbox, held, tries, deliveries, refusals, faults>>

(***************************************************************************)
(* Under its lock, a candidate that is still due is marked as publishing;  *)
(* one that another worker has claimed meanwhile is passed over.           *)
(***************************************************************************)
Publishing(message) == [message EXCEPT !.status = "publishing"]

\* Mutant of Claim: the message is not looked at again under the lock.
ClaimListed(w) ==
  /\ pc[w] = "claim" /\ candidates[w] # {}
  /\ LET m == First(candidates[w])
     IN  /\ candidates' = [candidates EXCEPT ![w] = @ \ {m}]
         /\ outbox' = [outbox EXCEPT ![m] = Publishing(@)]
         /\ held' = [held EXCEPT ![w][m] = Publishing(outbox[m])]
  /\ UNCHANGED <<now, pc, claimNow, tries, deliveries, refusals, faults>>

Claim(w) ==
  /\ pc[w] = "claim" /\ candidates[w] # {}
  /\ LET m == First(candidates[w])
     IN  /\ candidates' = [candidates EXCEPT ![w] = @ \ {m}]
         /\ IF IsDue(outbox[m], claimNow[w])
              THEN /\ outbox' = [outbox EXCEPT ![m] = Publishing(@)]
                   /\ held' = [held EXCEPT ![w][m] = Publishing(outbox[m])]
              ELSE UNCHANGED <<outbox, held>>
  /\ UNCHANGED <<now, pc, claimNow, tries, deliveries, refusals, faults>>

\* claimDue returns: the loop over the claimed messages begins, if there are any.
Claimed(w) ==
  /\ pc[w] = "claim" /\ candidates[w] = {}
  /\ Goto(w, IF Held(w) = {} THEN "idle" ELSE "publish")
  /\ UNCHANGED <<now, outbox, claimNow, candidates, held, tries, deliveries, refusals, faults>>

Current(w) == First(Held(w))

\* The publisher is called and accepts the message.
Publish(w) ==
  /\ pc[w] = "publish"
  /\ tries' = [tries EXCEPT ![Current(w)] = @ + 1]
  /\ deliveries' = [deliveries EXCEPT ![Current(w)] = @ + 1]
  /\ Goto(w, "save")
  /\ UNCHANGED <<now, outbox, claimNow, candidates, held, refusals, faults>>

\* The publisher throws.
Refuse(w) ==
  /\ pc[w] = "publish"
  /\ refusals < MaxRefusals
  /\ refusals' = refusals + 1
  /\ tries' = [tries EXCEPT ![Current(w)] = @ + 1]
  /\ Goto(w, "catch")
  /\ UNCHANGED <<now, outbox, claimNow, candidates, held, deliveries, faults>>

\* Mutant of NextMessage: the run returns after its first message.
NextMessageReturns(w) ==
  /\ held' = [held EXCEPT ![w] = Nothing]
  /\ Goto(w, "idle")

\* The loop goes on with the next claimed message, or the run is over.
NextMessage(w) ==
  /\ held' = [held EXCEPT ![w][Current(w)] = None]
  /\ Goto(w, IF Held(w) = {Current(w)} THEN "idle" ELSE "publish")

SavePublished(w) ==
  /\ pc[w] = "save"
  /\ outbox' = [outbox EXCEPT ![Current(w)] = [held[w][Current(w)] EXCEPT !.status = "published"]]
  /\ NextMessage(w)
  /\ UNCHANGED <<now, claimNow, candidates, tries, deliveries, refusals, faults>>

\* save throws after the message was published: the catch treats it as not published.
SavePublishedFails(w) ==
  /\ pc[w] = "save"
  /\ Fault
  /\ Goto(w, "catch")
  /\ UNCHANGED <<now, outbox, claimNow, candidates, held, tries, deliveries, refusals>>

\* Mutant of Failed: one attempt too many is allowed.
FailedTooLate(message, t) ==
  [status |-> IF message.attempts + 1 > MaxAttempts THEN "dead" ELSE "failed",
   attempts |-> message.attempts + 1,
   availableAt |-> t + RetryMs]

\* markOutboxFailed
Failed(message, t) ==
  [status |-> IF message.attempts + 1 >= MaxAttempts THEN "dead" ELSE "failed",
   attempts |-> message.attempts + 1,
   availableAt |-> t + RetryMs]

SaveFailed(w) ==
  /\ pc[w] = "catch"
  /\ outbox' = [outbox EXCEPT ![Current(w)] = Failed(held[w][Current(w)], now)]
  /\ NextMessage(w)
  /\ UNCHANGED <<now, claimNow, candidates, tries, deliveries, refusals, faults>>

(***************************************************************************)
(* The process dies, or a store call outside the try throws out of the     *)
(* run (a claim, or the save in the catch): what the worker held stays     *)
(* marked as publishing.                                                   *)
(***************************************************************************)
Abort(w) ==
  /\ pc[w] # "idle"
  /\ Fault
  /\ held' = [held EXCEPT ![w] = Nothing]
  /\ candidates' = [candidates EXCEPT ![w] = {}]
  /\ Goto(w, "idle")
  /\ UNCHANGED <<now, outbox, claimNow, tries, deliveries, refusals>>

Tick ==
  /\ now < MaxTime
  /\ now' = now + 1
  /\ UNCHANGED <<outbox, pc, claimNow, candidates, held, tries, deliveries, refusals, faults>>

Run(w) ==
  \/ Begin(w) \/ Claim(w) \/ Claimed(w) \/ Publish(w) \/ Refuse(w)
  \/ SavePublished(w) \/ SaveFailed(w)

Next ==
  \/ Tick \/ Enqueue
  \/ \E w \in Workers : Run(w) \/ SavePublishedFails(w) \/ Abort(w)

Spec == Init /\ [][Next]_vars

(***************************************************************************)
(* Workers are run again and again, their calls return, time passes.       *)
(***************************************************************************)
FairSpec == Spec /\ WF_vars(Tick) /\ \A w \in Workers : WF_vars(Run(w))
-----------------------------------------------------------------------------
\* Every variable has its type.
TypeOK ==
  /\ now \in 0..MaxTime
  /\ outbox \in [Messages -> OutboxMessages \cup {None}]
  /\ pc \in [Workers -> PCs]
  /\ claimNow \in [Workers -> 0..MaxTime]
  /\ candidates \in [Workers -> SUBSET Messages]
  /\ held \in [Workers -> [Messages -> OutboxMessages \cup {None}]]
  /\ tries \in [Messages -> Nat]
  /\ deliveries \in [Messages -> Nat]
  /\ refusals \in 0..MaxRefusals
  /\ faults \in 0..MaxFaults

(***************************************************************************)
(* The copy a worker works on, and will write back whole, is the stored    *)
(* message, and no other worker has one: claims are exclusive although     *)
(* the list they start from is read without a lock (claimDue).             *)
(***************************************************************************)
ClaimsExclusive ==
  \A w \in Workers, m \in Messages :
    held[w][m] # None =>
      /\ outbox[m] = held[w][m]
      /\ \A v \in Workers \ {w} : held[v][m] = None

(***************************************************************************)
(* A message is published only after the publisher has accepted it, and    *)
(* once unless a save failed after the acceptance.                         *)
(***************************************************************************)
Delivery ==
  \A m \in Messages :
    /\ outbox[m] # None /\ outbox[m].status = "published" => deliveries[m] >= 1
    /\ faults = 0 => deliveries[m] <= 1

(***************************************************************************)
(* The publisher is called at most maxAttempts times for a message, and a  *)
(* message is given up only after that many calls, whatever workers share  *)
(* the outbox and wherever they die (markOutboxFailed, claimDue).          *)
(***************************************************************************)
AttemptsBounded ==
  \A m \in Messages :
    /\ tries[m] <= MaxAttempts
    /\ outbox[m] # None /\ outbox[m].status = "dead" => tries[m] = MaxAttempts

(***************************************************************************)
(* A message that is marked as publishing and held by nobody is never      *)
(* claimed again; only a fault can strand one there.                       *)
(***************************************************************************)
StrandedByFault ==
  \A m \in Messages :
    /\ outbox[m] # None /\ outbox[m].status = "publishing"
    /\ \A w \in Workers : held[w][m] = None
    => faults > 0

\* An outcome is final: no worker's copy is written over it.
OutcomesFinal ==
  [][\A m \in Messages :
       outbox[m] # None /\ outbox[m].status \in {"published", "dead"} =>
         outbox'[m] = outbox[m]]_vars

(***************************************************************************)
(* A failed message is not published again before its retry delay is over. *)
(***************************************************************************)
RetryDelayed ==
  [][\A m \in Messages :
       outbox[m] # None /\ outbox[m].status = "failed" /\ outbox'[m] # outbox[m] =>
         now >= outbox[m].availableAt]_vars

\* So a worker touches a stored message only when it is due.
TouchedWhenDue == OutcomesFinal /\ RetryDelayed

(***************************************************************************)
(* Every message is published or given up in the end, if no worker dies    *)
(* and no save fails: retries terminate and no message is passed over for  *)
(* ever by runs that take only the first few that are due.  A message      *)
(* whose next attempt lies beyond the modelled time is not waited for.     *)
(***************************************************************************)
Settled(m) ==
  /\ outbox[m] # None
  /\ outbox[m].status \in {"published", "dead"} \/ outbox[m].availableAt > MaxTime

EverySettles == \A m \in Messages : outbox[m] # None ~> Settled(m) \/ faults > 0
=============================================================================
