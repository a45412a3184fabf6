----------------------------- MODULE CommandBus -----------------------------
(***************************************************************************)
(* The command bus with idempotency keys: CommandBus.dispatch              *)
(* (src/src/application/command-bus.ts) over a command idempotency store   *)
(* (src/src/adapters/fs/fs-command-idempotency-store.ts and its in-memory  *)
(* twin), whose records follow src/src/primitives/idempotency.ts.          *)
(*                                                                         *)
(* A call of dispatch runs begin, the handler and markSucceeded or         *)
(* markFailed one after the other; between any two of them other calls     *)
(* run, time passes and processes die.  Each of the three store calls is   *)
(* one step here: the filesystem store makes it under the lock of the      *)
(* record (module FileLock), the in-memory store in one turn of the event  *)
(* loop.  Pruning takes no lock, and in the filesystem store it lists the  *)
(* expired records first and removes them afterwards.                      *)
(*                                                                         *)
(* Only commands with a key are modelled; without one dispatch touches no  *)
(* store.  A response is named by the call whose handler computed it.      *)
(***************************************************************************)
EXTENDS Naturals

CONSTANTS
  Calls,          \* calls of dispatch, each made once; a retry is another call
  Keys,           \* idempotency keys
  Fingerprints,   \* commandFingerprint of the commands sent
  None,
  Never,          \* no expiry
  InProgressTtl,  \* idempotencyInProgressTtlMs, or Never
  ReplayTtl,      \* idempotencyReplayTtlMs, or Never
  AtomicPrune,    \* TRUE for the in-memory store
  CallMs,         \* bound on the time a call takes, from its clock reading on
  MaxTime,        \* bound on the clock
  MaxFaults       \* bound on crashes and failing store calls

ASSUME CommandBusAssumption ==
  /\ Never \notin Nat
  /\ None \notin Calls \cup Fingerprints
  /\ Calls \cap {"none", "invalid", "key_conflict", "in_progress", "replayed_failure",
                 "error"} = {}
  /\ InProgressTtl \in (Nat \ {0}) \cup {Never}   \* optionalPositiveIntegerOption
  /\ ReplayTtl \in (Nat \ {0}) \cup {Never}       \* optionalPositiveIntegerOption
  /\ AtomicPrune \in BOOLEAN
  /\ CallMs \in Nat
  /\ MaxTime \in Nat
  /\ MaxFaults \in Nat

VARIABLES
  now,
  records,   \* the store: a record or None for each key
  pc,        \* where each call is in dispatch
  command,   \* key and fingerprint of each call's command
  sentAt,    \* the clock reading each call passed to begin
  markAt,    \* the clock reading each call passes to markSucceeded or markFailed
  sound,     \* whether the handler's result is JSON-serializable
  answer,    \* how each call was answered
  pruning,   \* keys the pruner has listed and not yet removed
  runs,      \* history: how many times a handler was started for each key
  faults

vars == <<now, records, pc, command, sentAt, markAt, sound, answer, pruning, runs, faults>>

Commands == [key : Keys, fingerprint : Fingerprints]

Statuses == {"started", "succeeded", "failed"}

(***************************************************************************)
(* expiresAt is inProgressExpiresAt of a started record and                *)
(* replayExpiresAt of any other: each mark deletes the former.             *)
(***************************************************************************)
Records ==
  [fingerprint : Fingerprints, status : Statuses, expiresAt : Nat \cup {Never},
   response : Calls \cup {None}]

ASSUME NoneAssumption == None \notin Records

(***************************************************************************)
(* idle: not made yet; begin: the clock is read, begin is next; execute:   *)
(* the handler runs; succeed, fail: the handler is over, markSucceeded or  *)
(* markFailed is next; done: settled; dead: lost in a crash.               *)
(***************************************************************************)
PCs == {"idle", "begin", "execute", "succeed", "fail", "done", "dead"}

Active == {"begin", "execute", "succeed", "fail"}

Working == {"execute", "succeed", "fail"}

\* What a call throws; a call that returns is answered by the response's name.
Errors == {"invalid", "key_conflict", "in_progress", "replayed_failure", "error"}

Init ==
  /\ now = 0
  /\ records = [k \in Keys |-> None]
  /\ pc = [c \in Calls |-> "idle"]
  /\ command \in [Calls -> Commands]
  /\ sentAt = [c \in Calls |-> 0]
  /\ markAt = [c \in Calls |-> 0]
  /\ sound = [c \in Calls |-> TRUE]
  /\ answer = [c \in Calls |-> "none"]
  /\ pruning = {}
  /\ runs = [k \in Keys |-> 0]
  /\ faults = 0

Goto(c, label) == pc' = [pc EXCEPT ![c] = label]

\* The call settles.
Answer(c, a) ==
  /\ Goto(c, "done")
  /\ answer' = [answer EXCEPT ![c] = a]

Fault ==
  /\ faults < MaxFaults
  /\ faults' = faults + 1

\* Mutant of After: the lease is not added.
AfterNothing(t, ttl) == IF ttl = Never THEN Never ELSE t

After(t, ttl) == IF ttl = Never THEN Never ELSE t + ttl

Expired(record, t) ==
  /\ record # None
  /\ record.expiresAt # Never
  /\ record.expiresAt <= t

KeyOf(c) == command[c].key

FingerprintOf(c) == command[c].fingerprint

-----------------------------------------------------------------------------
\* dispatch up to begin: the handler exists, the payload is valid, the clock is read.
Dispatch(c) ==
  /\ pc[c] = "idle"
  /\ Goto(c, "begin")
  /\ sentAt' = [sentAt EXCEPT ![c] = now]
  /\ UNCHANGED <<now, records, command, markAt, sound, answer, pruning, runs, faults>>

\* No handler, or a payload its validator refuses: nothing is recorded.
Invalid(c) ==
  /\ pc[c] = "idle"
  /\ Answer(c, "invalid")
  /\ UNCHANGED <<now, records, command, sentAt, markAt, sound, pruning, runs, faults>>

\* Mutant of MayStart: a key whose command failed may be used again.
MayStartAfterFailure(c) ==
  LET record == records[KeyOf(c)]
  IN  record = None \/ (record # None /\ record.status = "failed") \/ Expired(record, sentAt[c])

(***************************************************************************)
(* begin: resolveIdempotency looks at expiry before it looks at the        *)
(* fingerprint, and at both before the status.                             *)
(***************************************************************************)
MayStart(c) ==
  \/ records[KeyOf(c)] = None
  \/ Expired(records[KeyOf(c)], sentAt[c])

Begin(c) ==
  /\ pc[c] = "begin"
  /\ MayStart(c)
  /\ records' = [records EXCEPT ![KeyOf(c)] =
       [fingerprint |-> FingerprintOf(c), status |-> "started",
        expiresAt |-> After(sentAt[c], InProgressTtl), response |-> None]]
  /\ runs' = [runs EXCEPT ![KeyOf(c)] = @ + 1]
  /\ Goto(c, "execute")
  /\ UNCHANGED <<now, command, sentAt, markAt, sound, answer, pruning, faults>>

\* Mutant of Resolution: the fingerprint is not compared.
ResolutionByKey(c, record) ==
  CASE record.status = "started"   -> "in_progress"
    [] record.status = "succeeded" -> record.response
    [] record.status = "failed"    -> "replayed_failure"

\* begin returns an error or a record to replay, and dispatch settles by it.
Resolution(c, record) ==
  IF record.fingerprint # FingerprintOf(c)
    THEN "key_conflict"
    ELSE CASE record.status = "started"   -> "in_progress"
           [] record.status = "succeeded" -> record.response
           [] record.status = "failed"    -> "replayed_failure"

Resolve(c) ==
  /\ pc[c] = "begin"
  /\ ~MayStart(c)
  /\ Answer(c, Resolution(c, records[KeyOf(c)]))
  /\ UNCHANGED <<now, records, command, sentAt, markAt, sound, pruning, runs, faults>>

\* The handler returns, with a result that may not be JSON-serializable.
Return(c, serializable) ==
  /\ pc[c] = "execute"
  /\ sound' = [sound EXCEPT ![c] = serializable]
  /\ markAt' = [markAt EXCEPT ![c] = now]
  /\ Goto(c, "succeed")
  /\ UNCHANGED <<now, records, command, sentAt, answer, pruning, runs, faults>>

\* authorize or the handler throws.
Throw(c) ==
  /\ pc[c] = "execute"
  /\ markAt' = [markAt EXCEPT ![c] = now]
  /\ Goto(c, "fail")
  /\ UNCHANGED <<now, records, command, sentAt, sound, answer, pruning, runs, faults>>

(***************************************************************************)
(* The two marks overwrite whatever record is under the key, and keep its  *)
(* fingerprint; they do not ask whether it is the caller's.                *)
(***************************************************************************)
Marked(record, status, response, t) ==
  [record EXCEPT !.status = status, !.response = response,
                 !.expiresAt = After(t, ReplayTtl)]

\* Mutant of MarkSucceeded: the response is not asserted to be serializable.
MarkSucceededUnchecked(c) ==
  /\ pc[c] = "succeed"
  /\ records[KeyOf(c)] # None
  /\ records' = [records EXCEPT ![KeyOf(c)] = Marked(@, "succeeded", c, markAt[c])]
  /\ Answer(c, c)
  /\ UNCHANGED <<now, command, sentAt, markAt, sound, pruning, runs, faults>>

MarkSucceeded(c) ==
  /\ pc[c] = "succeed"
  /\ sound[c]
  /\ records[KeyOf(c)] # None
  /\ records' = [records EXCEPT ![KeyOf(c)] = Marked(@, "succeeded", c, markAt[c])]
  /\ Answer(c, c)
  /\ UNCHANGED <<now, command, sentAt, markAt, sound, pruning, runs, faults>>

\* markSucceeded throws (assertSerializable, requireRecord): dispatch goes to its catch.
MarkRefused(c) ==
  /\ pc[c] = "succeed"
  /\ ~sound[c] \/ records[KeyOf(c)] = None
  /\ markAt' = [markAt EXCEPT ![c] = now]
  /\ Goto(c, "fail")
  /\ UNCHANGED <<now, records, command, sentAt, sound, answer, pruning, runs, faults>>

MarkFailed(c) ==
  /\ pc[c] = "fail"
  /\ IF records[KeyOf(c)] = None
       THEN UNCHANGED records
       ELSE records' = [records EXCEPT ![KeyOf(c)] = Marked(@, "failed", None, markAt[c])]
  /\ Answer(c, "error")
  /\ UNCHANGED <<now, command, sentAt, markAt, sound, pruning, runs, faults>>

\* A store call throws before it writes: its lock times out, or I/O fails.
StoreFails(c) ==
  /\ Fault
  /\ \/ pc[c] \in {"begin", "fail"} /\ Answer(c, "error") /\ UNCHANGED markAt
     \/ /\ pc[c] = "succeed"
        /\ markAt' = [markAt EXCEPT ![c] = now]
        /\ Goto(c, "fail")
        /\ UNCHANGED answer
  /\ UNCHANGED <<now, records, command, sentAt, sound, pruning, runs>>

Crash(c) ==
  /\ pc[c] \in Active
  /\ Fault
  /\ Goto(c, "dead")
  /\ UNCHANGED <<now, records, command, sentAt, markAt, sound, answer, pruning, runs>>

-----------------------------------------------------------------------------
ExpiredKeys == {k \in Keys : Expired(records[k], now)}

\* pruneExpired of the in-memory store; with a limit it takes only some keys.
Prune(keys) ==
  /\ AtomicPrune
  /\ pruning = {}
  /\ records' = [k \in Keys |-> IF k \in keys THEN None ELSE records[k]]
  /\ UNCHANGED <<now, pc, command, sentAt, markAt, sound, answer, pruning, runs, faults>>

\* pruneExpired of the filesystem store: list, then remove one file after the other.
PruneList(keys) ==
  /\ ~AtomicPrune
  /\ pruning = {}
  /\ pruning' = keys
  /\ UNCHANGED <<now, records, pc, command, sentAt, markAt, sound, answer, runs, faults>>

PruneRemove(k) ==
  /\ k \in pruning
  /\ pruning' = pruning \ {k}
  /\ records' = [records EXCEPT ![k] = None]
  /\ UNCHANGED <<now, pc, command, sentAt, markAt, sound, answer, runs, faults>>

(***************************************************************************)
(* A removal that falls between the read and the write of a mark, which    *)
(* holds the lock the pruner does not take, is undone by the write.        *)
(***************************************************************************)
PruneUndone(k) ==
  /\ k \in pruning
  /\ \E c \in Calls : pc[c] \in {"succeed", "fail"} /\ KeyOf(c) = k
  /\ pruning' = pruning \ {k}
  /\ UNCHANGED <<now, records, pc, command, sentAt, markAt, sound, answer, runs, faults>>

Tick ==
  /\ now < MaxTime
  /\ \A c \in Calls : pc[c] \in Active => now < sentAt[c] + CallMs
  /\ now' = now + 1
  /\ UNCHANGED <<records, pc, command, sentAt, markAt, sound, answer, pruning, runs, faults>>

CallStep(c) ==
  \/ Dispatch(c) \/ Invalid(c) \/ Begin(c) \/ Resolve(c)
  \/ (\E serializable \in BOOLEAN : Return(c, serializable)) \/ Throw(c)
  \/ MarkSucceeded(c) \/ MarkRefused(c) \/ MarkFailed(c)
  \/ StoreFails(c) \/ Crash(c)

\* The keys the pruner is at: those it has listed, or any of those that have expired.
Batches == IF pruning = {} THEN (SUBSET ExpiredKeys) \ {{}} ELSE {pruning}

PruneStep ==
  \E keys \in Batches :
    \/ Prune(keys) \/ PruneList(keys)
    \/ \E k \in keys : PruneRemove(k) \/ PruneUndone(k)

Next == Tick \/ PruneStep \/ \E c \in Calls : CallStep(c)

Spec == Init /\ [][Next]_vars
-----------------------------------------------------------------------------
\* Every variable has its type.
TypeOK ==
  /\ now \in 0..MaxTime
  /\ records \in [Keys -> Records \cup {None}]
  /\ pc \in [Calls -> PCs]
  /\ command \in [Calls -> Commands]
  /\ sentAt \in [Calls -> 0..MaxTime]
  /\ markAt \in [Calls -> 0..MaxTime]
  /\ sound \in [Calls -> BOOLEAN]
  /\ answer \in [Calls -> Calls \cup Errors \cup {"none"}]
  /\ pruning \in SUBSET Keys
  /\ runs \in [Keys -> Nat]
  /\ faults \in 0..MaxFaults

(***************************************************************************)
(* Without leases a handler is started at most once for a key, whatever    *)
(* retries, crashes and failing store calls there are.                     *)
(***************************************************************************)
AtMostOnce == \A k \in Keys : runs[k] <= 1

(***************************************************************************)
(* "active in-progress keys fail instead of running duplicate work": two   *)
(* handlers never run for one key at the same time (dispatch, begin).      *)
(***************************************************************************)
NoOverlap ==
  \A c, d \in Calls :
    pc[c] = "execute" /\ pc[d] = "execute" /\ KeyOf(c) = KeyOf(d) => c = d

(***************************************************************************)
(* "same key and same fingerprint replays the stored result": a call that  *)
(* returns a result returns the one a command with its own fingerprint     *)
(* computed, never another command's (dispatch, markSucceeded).            *)
(***************************************************************************)
ReplayFaithful ==
  \A c \in Calls : answer[c] \in Calls => FingerprintOf(answer[c]) = FingerprintOf(c)

(***************************************************************************)
(* A stored outcome is changed by nothing but its own expiry: no late      *)
(* mark, restart or pruning touches a record that can still be replayed.   *)
(***************************************************************************)
KeepsVerdicts ==
  \A k \in Keys :
    /\ records[k] # None /\ records[k].status # "started"
    /\ records'[k] # records[k]
    => Expired(records[k], now)

VerdictKept == [][KeepsVerdicts]_vars

(***************************************************************************)
(* Whatever leases and pruning do, clients and the store agree.  A stored  *)
(* response was returned to the call that computed it, whose handler       *)
(* therefore neither threw nor gave an unserializable result; and a result *)
(* is returned only at a moment when the store holds it under the client's *)
(* key as succeeded (dispatch returns after markSucceeded or out of the    *)
(* record).                                                                *)
(***************************************************************************)
StoredWasReturned ==
  \A k \in Keys :
    records[k] # None /\ records[k].status = "succeeded" =>
      LET c == records[k].response
      IN  KeyOf(c) = k /\ answer[c] = c /\ sound[c]

ReturnsStored ==
  \A c \in Calls :
    answer'[c] \in Calls /\ answer[c] = "none" =>
      LET record == records'[KeyOf(c)]
      IN  record # None /\ record.status = "succeeded" /\ record.response = answer'[c]

\* Both, after each step; at first the store is empty.
ClientsAndStoreAgree == [][ReturnsStored /\ StoredWasReturned']_vars

(***************************************************************************)
(* The view of a client: which command was run for a key, the verdict on   *)
(* it, and the answers.                                                    *)
(***************************************************************************)
RanOf(record) == IF record = None THEN None ELSE record.fingerprint

VerdictOf(record) ==
  IF record = None \/ record.status = "started" THEN "none"
  ELSE IF record.status = "failed" THEN "failed"
  ELSE record.response

ClientOf(a) ==
  IF a \in Calls \cup {"none"} THEN a
  ELSE IF a = "replayed_failure" THEN "failed"
  ELSE "refused"

Ran == [k \in Keys |-> RanOf(records[k])]

Verdict == [k \in Keys |-> VerdictOf(records[k])]

ClientAnswer == [c \in Calls |-> ClientOf(answer[c])]

Promise == INSTANCE OnceOnly
             WITH sent <- command, ran <- Ran, verdict <- Verdict, answer <- ClientAnswer

OnceOnlySpec == Promise!Spec
=============================================================================
