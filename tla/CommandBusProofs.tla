-------------------------- MODULE CommandBusProofs --------------------------
(***************************************************************************)
(* Theorems about CommandBus, for every set of calls, keys and             *)
(* fingerprints and every bound: type correctness; under leases that are   *)
(* long enough, one handler at a time for a key and faithful replay;       *)
(* without leases, at most one handler for a key; and, whatever leases and *)
(* pruning do, clients and store agree.                                    *)
(***************************************************************************)
EXTENDS CommandBus, TLAPS

\* The initial state is well typed.
LEMMA TypeInit == Init => TypeOK
BY CommandBusAssumption DEF Init, TypeOK, PCs, Records

(***************************************************************************)
(* An expiry is a time or Never.                                           *)
(***************************************************************************)
LEMMA AfterType ==
  ASSUME NEW t \in Nat, NEW ttl \in (Nat \ {0}) \cup {Never}
  PROVE  After(t, ttl) \in Nat \cup {Never}
BY CommandBusAssumption DEF After

(***************************************************************************)
(* Marking a record gives a record, with the fingerprint it had.           *)
(***************************************************************************)
LEMMA MarkedSucceededType ==
  ASSUME NEW record \in Records, NEW c \in Calls, NEW t \in Nat
  PROVE  /\ Marked(record, "succeeded", c, t) \in Records
         /\ Marked(record, "succeeded", c, t).fingerprint = record.fingerprint
         /\ Marked(record, "succeeded", c, t).status = "succeeded"
         /\ Marked(record, "succeeded", c, t).response = c
<1>1. After(t, ReplayTtl) \in Nat \cup {Never}
  BY AfterType, CommandBusAssumption
<1> QED
  BY <1>1 DEF Marked, Records, Statuses

\* markIdempotencyFailed turns a record into a failed one of the same fingerprint.
LEMMA MarkedFailedType ==
  ASSUME NEW record \in Records, NEW t \in Nat
  PROVE  /\ Marked(record, "failed", None, t) \in Records
         /\ Marked(record, "failed", None, t).fingerprint = record.fingerprint
         /\ Marked(record, "failed", None, t).status = "failed"
<1>1. After(t, ReplayTtl) \in Nat \cup {Never}
  BY AfterType, CommandBusAssumption
<1> QED
  BY <1>1 DEF Marked, Records, Statuses

(***************************************************************************)
(* What begin answers for a record that exists: an error, or the call      *)
(* whose response is stored.                                               *)
(***************************************************************************)
LEMMA ResolutionType ==
  ASSUME NEW c \in Calls, NEW record \in Records,
         record.status = "succeeded" => record.response \in Calls
  PROVE  Resolution(c, record) \in Calls \cup Errors
BY DEF Resolution, Errors, Records, Statuses

(***************************************************************************)
(* A succeeded record holds the name of a call, a part of the type of the  *)
(* store that the type invariant needs and does not state.                 *)
(***************************************************************************)
ResponseStored ==
  \A k \in Keys :
    records[k] # None /\ records[k].status = "succeeded" => records[k].response \in Calls

\* No response is stored at first.
LEMMA ResponseInit == Init => ResponseStored
BY DEF Init, ResponseStored

(***************************************************************************)
(* A step of the pruner takes keys that have expired, or one it has listed.*)
(***************************************************************************)
LEMMA PruneCases ==
  ASSUME PruneStep
  PROVE  \/ \E keys \in (SUBSET ExpiredKeys) \ {{}} : Prune(keys) \/ PruneList(keys)
         \/ \E k \in pruning : PruneRemove(k) \/ PruneUndone(k)
<1>1. CASE \E keys \in Batches : Prune(keys) \/ PruneList(keys)
  <2>1. PICK keys \in Batches : Prune(keys) \/ PruneList(keys)
    BY <1>1
  <2>2. keys \in (SUBSET ExpiredKeys) \ {{}}
    BY <2>1 DEF Batches, Prune, PruneList
  <2> QED
    BY <2>1, <2>2
<1>2. CASE \E keys \in Batches : \E k \in keys : PruneRemove(k) \/ PruneUndone(k)
  BY <1>2 DEF PruneRemove, PruneUndone
<1> QED
  BY <1>1, <1>2 DEF PruneStep

(***************************************************************************)
(* Every step keeps the types of the variables.                            *)
(***************************************************************************)
LEMMA TypeStep == TypeOK /\ ResponseStored /\ [Next]_vars => TypeOK' /\ ResponseStored'
<1> SUFFICES ASSUME TypeOK, ResponseStored, [Next]_vars
             PROVE  TypeOK' /\ ResponseStored'
  OBVIOUS
<1> USE CommandBusAssumption
<1>k. \A c \in Calls : KeyOf(c) \in Keys /\ FingerprintOf(c) \in Fingerprints
  BY DEF TypeOK, Commands, KeyOf, FingerprintOf
<1>1. CASE Tick
  BY <1>1 DEF Tick, TypeOK, ResponseStored
<1>2. ASSUME NEW c \in Calls, Dispatch(c) PROVE TypeOK' /\ ResponseStored'
  BY <1>2 DEF Dispatch, Goto, TypeOK, PCs, ResponseStored
<1>3. ASSUME NEW c \in Calls, Invalid(c) PROVE TypeOK' /\ ResponseStored'
  BY <1>3 DEF Invalid, Answer, Goto, TypeOK, PCs, Errors, ResponseStored
<1>4. ASSUME NEW c \in Calls, Begin(c) PROVE TypeOK' /\ ResponseStored'
  <2> DEFINE new == [fingerprint |-> FingerprintOf(c), status |-> "started",
                     expiresAt |-> After(sentAt[c], InProgressTtl), response |-> None]
  <2>1. After(sentAt[c], InProgressTtl) \in Nat \cup {Never}
    BY AfterType DEF TypeOK
  <2>2. new \in Records /\ new.status = "started"
    BY <1>k, <2>1 DEF Records, Statuses
  <2> HIDE DEF new
  <2>3. records' = [records EXCEPT ![KeyOf(c)] = new]
    BY <1>4 DEF Begin, new
  <2>4. records' \in [Keys -> Records \cup {None}]
    BY <2>2, <2>3 DEF TypeOK
  <2>5. runs' \in [Keys -> Nat]
    BY <1>4, <1>k DEF Begin, TypeOK
  <2>6. ResponseStored'
    BY <1>k, <2>2, <2>3 DEF TypeOK, ResponseStored
  <2> QED
    BY <1>4, <2>4, <2>5, <2>6 DEF Begin, Goto, TypeOK, PCs
<1>5. ASSUME NEW c \in Calls, Resolve(c) PROVE TypeOK' /\ ResponseStored'
  <2>1. records[KeyOf(c)] \in Records
    BY <1>5, <1>k DEF Resolve, MayStart, TypeOK
  <2>2. Resolution(c, records[KeyOf(c)]) \in Calls \cup Errors
    BY <1>k, <2>1, NoneAssumption, ResolutionType DEF ResponseStored
  <2>3. answer' \in [Calls -> Calls \cup Errors \cup {"none"}]
    BY <1>5, <2>2 DEF Resolve, Answer, TypeOK
  <2> QED
    BY <1>5, <2>3 DEF Resolve, Answer, Goto, TypeOK, PCs, ResponseStored
<1>6. ASSUME NEW c \in Calls, NEW serializable \in BOOLEAN, Return(c, serializable)
      PROVE  TypeOK' /\ ResponseStored'
  BY <1>6 DEF Return, Goto, TypeOK, PCs, ResponseStored
<1>7. ASSUME NEW c \in Calls, Throw(c) \/ MarkRefused(c) PROVE TypeOK' /\ ResponseStored'
  BY <1>7 DEF Throw, MarkRefused, Goto, TypeOK, PCs, ResponseStored
<1>8. ASSUME NEW c \in Calls, MarkSucceeded(c) PROVE TypeOK' /\ ResponseStored'
  <2> DEFINE new == Marked(records[KeyOf(c)], "succeeded", c, markAt[c])
  <2>1. new \in Records /\ new.response = c
    <3>1. records[KeyOf(c)] \in Records /\ markAt[c] \in Nat
      BY <1>8, <1>k DEF MarkSucceeded, TypeOK
    <3> QED
      BY ONLY <3>1, MarkedSucceededType
  <2> HIDE DEF new
  <2>2. records' = [records EXCEPT ![KeyOf(c)] = new]
    BY <1>8 DEF MarkSucceeded, new
  <2>3. records' \in [Keys -> Records \cup {None}]
    BY <2>1, <2>2 DEF TypeOK
  <2>4. ResponseStored'
    BY <1>k, <2>1, <2>2 DEF TypeOK, ResponseStored
  <2> QED
    BY <1>8, <2>3, <2>4 DEF MarkSucceeded, Answer, Goto, TypeOK, PCs
<1>9. ASSUME NEW c \in Calls, MarkFailed(c) PROVE TypeOK' /\ ResponseStored'
  <2>1. CASE records[KeyOf(c)] = None
    BY <1>9, <2>1 DEF MarkFailed, Answer, Goto, TypeOK, PCs, Errors, ResponseStored
  <2>2. CASE records[KeyOf(c)] # None
    <3> DEFINE new == Marked(records[KeyOf(c)], "failed", None, markAt[c])
    <3>1. new \in Records /\ new.status = "failed"
      <4>1. records[KeyOf(c)] \in Records /\ markAt[c] \in Nat
        BY <1>k, <2>2 DEF TypeOK
      <4> QED
        BY <4>1, MarkedFailedType
    <3> HIDE DEF new
    <3>2. records' = [records EXCEPT ![KeyOf(c)] = new]
      BY <1>9, <2>2 DEF MarkFailed, new
    <3>3. records' \in [Keys -> Records \cup {None}]
      BY <3>1, <3>2 DEF TypeOK
    <3>4. ResponseStored'
      BY <1>k, <3>1, <3>2 DEF TypeOK, ResponseStored
    <3> QED
      BY <1>9, <3>3, <3>4 DEF MarkFailed, Answer, Goto, TypeOK, PCs, Errors
  <2> QED
    BY <2>1, <2>2
<1>10. ASSUME NEW c \in Calls, StoreFails(c) \/ Crash(c) PROVE TypeOK' /\ ResponseStored'
  <2>1. faults' \in 0..MaxFaults
    BY <1>10 DEF StoreFails, Crash, Fault, TypeOK
  <2> QED
    BY <1>10, <2>1 DEF StoreFails, Crash, Answer, Goto, TypeOK, PCs, Errors, ResponseStored
<1>11. ASSUME NEW keys \in SUBSET Keys, Prune(keys) PROVE TypeOK' /\ ResponseStored'
  <2>1. records' = [k \in Keys |-> IF k \in keys THEN None ELSE records[k]]
    BY <1>11 DEF Prune
  <2> QED
    BY <1>11, <2>1 DEF Prune, TypeOK, ResponseStored
<1>12. ASSUME NEW keys \in SUBSET Keys, PruneList(keys) PROVE TypeOK' /\ ResponseStored'
  BY <1>12 DEF PruneList, TypeOK, ResponseStored
<1>13. ASSUME NEW k \in Keys, PruneRemove(k) \/ PruneUndone(k) PROVE TypeOK' /\ ResponseStored'
  BY <1>13 DEF PruneRemove, PruneUndone, TypeOK, ResponseStored
<1>14. CASE UNCHANGED vars
  BY <1>14 DEF vars, TypeOK, ResponseStored
<1> QED
  BY <1>1, <1>2, <1>3, <1>4, <1>5, <1>6, <1>7, <1>8, <1>9, <1>10, <1>11, <1>12, <1>13, <1>14,
     PruneCases
     DEF Next, CallStep, ExpiredKeys, TypeOK

(***************************************************************************)
(* The variables of the bus and its store always have their types.         *)
(***************************************************************************)
THEOREM TypeCorrect == Spec => []TypeOK
<1>1. TypeOK /\ ResponseStored /\ [Next]_vars => (TypeOK /\ ResponseStored)'
  BY TypeStep
<1> QED
  BY <1>1, TypeInit, ResponseInit, PTL DEF Spec

-----------------------------------------------------------------------------
(***************************************************************************)
(* The leases are safe when a call always settles before its in-progress   *)
(* lease is over, and when no key is pruned that was listed as expired and *)
(* used again since: pruning is atomic, or nothing ever expires.           *)
(***************************************************************************)
NoLeases == InProgressTtl = Never /\ ReplayTtl = Never

SafeLeases ==
  /\ InProgressTtl = Never \/ CallMs < InProgressTtl
  /\ AtomicPrune \/ NoLeases

\* A call that has begun and not settled finds the record it has written.
OwnRecord ==
  \A c \in Calls : pc[c] \in Working =>
    /\ records[KeyOf(c)] # None
    /\ records[KeyOf(c)].status = "started"
    /\ records[KeyOf(c)].fingerprint = FingerprintOf(c)
    /\ records[KeyOf(c)].expiresAt = After(sentAt[c], InProgressTtl)

OneWorks ==
  \A c, d \in Calls :
    pc[c] \in Working /\ pc[d] \in Working /\ KeyOf(c) = KeyOf(d) => c = d

InTime ==
  \A c \in Calls : sentAt[c] <= now /\ (pc[c] \in Active => now <= sentAt[c] + CallMs)

StoredFaithful ==
  \A k \in Keys :
    records[k] # None /\ records[k].status = "succeeded" =>
      FingerprintOf(records[k].response) = records[k].fingerprint

NothingExpires ==
  NoLeases => \A k \in Keys : records[k] # None => records[k].expiresAt = Never

(***************************************************************************)
(* The inductive invariant.  A mark does not ask whose record it           *)
(* overwrites, so that it is the caller's own (OwnRecord) must follow from *)
(* the lease: nobody may take over or prune a record whose call still      *)
(* works, because it has not expired by then (InTime, NotExpired).         *)
(***************************************************************************)
IInv ==
  /\ TypeOK /\ ResponseStored
  /\ OwnRecord /\ OneWorks /\ InTime
  /\ StoredFaithful /\ ReplayFaithful
  /\ NothingExpires /\ pruning = {}

\* The inductive invariant holds of an empty store.
LEMMA IInvInit == Init => IInv
<1> SUFFICES ASSUME Init PROVE IInv
  OBVIOUS
<1>1. TypeOK /\ ResponseStored
  BY TypeInit, ResponseInit
<1>2. \A c \in Calls : answer[c] \notin Calls
  BY CommandBusAssumption DEF Init
<1>3. OwnRecord /\ OneWorks /\ StoredFaithful /\ NothingExpires /\ pruning = {}
  BY DEF Init, OwnRecord, OneWorks, StoredFaithful, NothingExpires, Working
<1>4. InTime
  <2>1. \A c \in Calls : pc[c] = "idle" /\ sentAt[c] = now
    BY DEF Init
  <2>2. now \in Nat
    BY <1>1, CommandBusAssumption DEF TypeOK
  <2>3. now <= now
    BY ONLY <2>2
  <2>4. \A c \in Calls : pc[c] \notin Active
    BY <2>1 DEF Active
  <2> QED
    BY <2>1, <2>3, <2>4, Zenon DEF InTime
<1> QED
  BY <1>1, <1>2, <1>3, <1>4 DEF IInv, ReplayFaithful

(***************************************************************************)
(* The record of a call that still works has not expired.                  *)
(***************************************************************************)
LEMMA NotExpired ==
  ASSUME SafeLeases, IInv, NEW c \in Calls, pc[c] \in Working, NEW t \in Nat, t <= now
  PROVE  ~Expired(records[KeyOf(c)], t)
<1>1. records[KeyOf(c)].expiresAt = After(sentAt[c], InProgressTtl)
  BY DEF IInv, OwnRecord
<1>2. CASE InProgressTtl = Never
  BY <1>1, <1>2 DEF After, Expired
<1>3. CASE InProgressTtl # Never
  <2>1. /\ sentAt[c] \in Nat /\ now \in Nat /\ InProgressTtl \in Nat /\ CallMs \in Nat
        /\ CallMs < InProgressTtl
    BY <1>3, CommandBusAssumption DEF IInv, TypeOK, SafeLeases
  <2>2. now <= sentAt[c] + CallMs
    BY DEF IInv, InTime, Working, Active
  <2>3. records[KeyOf(c)].expiresAt = sentAt[c] + InProgressTtl
    BY <1>1, <1>3 DEF After
  <2> QED
    BY <2>1, <2>2, <2>3 DEF Expired
<1> QED
  BY <1>2, <1>3

(***************************************************************************)
(* A key for which a call works cannot be started by another one.          *)
(***************************************************************************)
LEMMA StartsAlone ==
  ASSUME SafeLeases, IInv, NEW c \in Calls, MayStart(c), NEW d \in Calls, pc[d] \in Working
  PROVE  KeyOf(d) # KeyOf(c)
<1>1. sentAt[c] \in Nat /\ sentAt[c] <= now
  BY CommandBusAssumption DEF IInv, InTime, TypeOK
<1>2. ~Expired(records[KeyOf(d)], sentAt[c])
  BY <1>1, NotExpired
<1>3. records[KeyOf(d)] # None
  BY DEF IInv, OwnRecord
<1> QED
  BY <1>2, <1>3 DEF MayStart

(***************************************************************************)
(* A step in which only one call moves, to a label where it does not work, *)
(* and the store stands still, keeps the part of the invariant about work. *)
(***************************************************************************)
LEMMA LeavesWork ==
  ASSUME IInv, NEW c \in Calls, NEW label \in PCs,
         pc' = [pc EXCEPT ![c] = label],
         label \in Working => pc[c] \in Working,
         label \in Active => pc[c] \in Active,
         UNCHANGED <<records, command, sentAt, now>>
  PROVE  OwnRecord' /\ OneWorks' /\ InTime' /\ StoredFaithful' /\ NothingExpires'
<1>1. \A d \in Calls : /\ pc'[d] \in Working => pc[d] \in Working
                       /\ pc'[d] \in Active => pc[d] \in Active
  BY DEF IInv, TypeOK
<1>2. OwnRecord' /\ OneWorks'
  BY <1>1 DEF IInv, OwnRecord, OneWorks, KeyOf, FingerprintOf
<1>3. InTime'
  BY <1>1 DEF IInv, InTime
<1> QED
  BY <1>2, <1>3 DEF IInv, StoredFaithful, NothingExpires, FingerprintOf

(***************************************************************************)
(* A call that marks the record it has written, and settles, keeps the     *)
(* same part: the other calls that work do so under other keys.            *)
(***************************************************************************)
LEMMA MarksOwn ==
  ASSUME IInv, TypeOK', NEW c \in Calls, pc[c] \in Working, NEW new \in Records,
         new.status # "started", new.fingerprint = FingerprintOf(c),
         new.status = "succeeded" => FingerprintOf(new.response) = FingerprintOf(c),
         NoLeases => new.expiresAt = Never,
         records' = [records EXCEPT ![KeyOf(c)] = new],
         pc' = [pc EXCEPT ![c] = "done"],
         UNCHANGED <<command, sentAt, now>>
  PROVE  OwnRecord' /\ OneWorks' /\ InTime' /\ StoredFaithful' /\ NothingExpires'
<1>k. KeyOf(c) \in Keys
  BY DEF IInv, TypeOK, Commands, KeyOf
<1>f. \A d \in Calls : KeyOf(d)' = KeyOf(d) /\ FingerprintOf(d)' = FingerprintOf(d)
  BY DEF KeyOf, FingerprintOf
<1>1. \A d \in Calls : /\ pc'[d] \in Working => pc[d] \in Working /\ d # c
                       /\ pc'[d] \in Active => pc[d] \in Active
  BY DEF IInv, TypeOK, Working, Active
<1>2. \A d \in Calls : pc'[d] \in Working => KeyOf(d) # KeyOf(c)
  BY <1>1 DEF IInv, OneWorks
<1>3. OneWorks'
  BY <1>1, <1>f DEF IInv, OneWorks
<1>4. OwnRecord'
  <2> SUFFICES ASSUME NEW d \in Calls, pc'[d] \in Working
               PROVE  /\ records'[KeyOf(d)] # None
                      /\ records'[KeyOf(d)].status = "started"
                      /\ records'[KeyOf(d)].fingerprint = FingerprintOf(d)
                      /\ records'[KeyOf(d)].expiresAt = After(sentAt[d], InProgressTtl)
    BY <1>f DEF OwnRecord
  <2>1. KeyOf(d) \in Keys
    BY DEF IInv, TypeOK, Commands, KeyOf
  <2>2. records'[KeyOf(d)] = records[KeyOf(d)]
    BY <1>2, <2>1 DEF IInv, TypeOK
  <2> QED
    BY <1>1, <2>2 DEF IInv, OwnRecord
<1>5. InTime'
  BY <1>1 DEF IInv, InTime
<1>6. StoredFaithful'
  <2> SUFFICES ASSUME NEW k \in Keys, records'[k] # None, records'[k].status = "succeeded"
               PROVE  FingerprintOf(records'[k].response) = records'[k].fingerprint
    BY DEF StoredFaithful, FingerprintOf
  <2>1. CASE k = KeyOf(c)
    BY <1>k, <2>1 DEF IInv, TypeOK
  <2>2. CASE k # KeyOf(c)
    BY <2>2 DEF IInv, StoredFaithful, TypeOK
  <2> QED
    BY <2>1, <2>2
<1>7. NothingExpires'
  BY <1>k DEF IInv, NothingExpires, TypeOK, NoLeases
<1> QED
  BY <1>3, <1>4, <1>5, <1>6, <1>7

(***************************************************************************)
(* An answer that is an error or no answer names no call.                  *)
(***************************************************************************)
LEMMA ErrorsAreNoCalls == \A a \in Errors \cup {"none"} : a \notin Calls
BY CommandBusAssumption DEF Errors

(***************************************************************************)
(* Answering one call keeps replay faithful when the answer is an error or *)
(* a call with the same fingerprint.                                       *)
(***************************************************************************)
LEMMA AnswersFaithfully ==
  ASSUME IInv, NEW c \in Calls, NEW a,
         a \notin Calls \/ FingerprintOf(a) = FingerprintOf(c),
         answer' = [answer EXCEPT ![c] = a], command' = command
  PROVE  ReplayFaithful'
BY DEF IInv, TypeOK, ReplayFaithful, FingerprintOf

(***************************************************************************)
(* Every step keeps the invariant under safe leases.                       *)
(***************************************************************************)
LEMMA IInvStep == SafeLeases /\ IInv /\ [Next]_vars => IInv'
<1> SUFFICES ASSUME SafeLeases, IInv, [Next]_vars PROVE IInv'
  OBVIOUS
<1>t. /\ TypeOK /\ ResponseStored /\ TypeOK' /\ ResponseStored'
  BY TypeStep DEF IInv
<1>k. \A c \in Calls : KeyOf(c) \in Keys /\ FingerprintOf(c) \in Fingerprints
  BY <1>t DEF TypeOK, Commands, KeyOf, FingerprintOf
<1>c. command' = command
  BY DEF Next, Tick, CallStep, PruneStep, Dispatch, Invalid, Begin, Resolve, Return, Throw,
         MarkSucceeded, MarkRefused, MarkFailed, StoreFails, Crash, Prune, PruneList,
         PruneRemove, PruneUndone, vars
<1>f. \A c \in Calls : KeyOf(c)' = KeyOf(c) /\ FingerprintOf(c)' = FingerprintOf(c)
  BY <1>c DEF KeyOf, FingerprintOf
<1>1. CASE Tick
  <2>1. InTime'
    BY <1>1, <1>t, CommandBusAssumption DEF Tick, IInv, InTime, TypeOK
  <2> QED
    BY <1>1, <1>t, <2>1 DEF Tick, IInv, OwnRecord, OneWorks, StoredFaithful, ReplayFaithful,
                            NothingExpires, KeyOf, FingerprintOf
<1>2. ASSUME NEW c \in Calls, Dispatch(c) PROVE IInv'
  <2>1. /\ pc[c] = "idle" /\ pc' = [pc EXCEPT ![c] = "begin"]
        /\ sentAt' = [sentAt EXCEPT ![c] = now]
        /\ UNCHANGED <<now, records, answer, pruning>>
    BY <1>2 DEF Dispatch, Goto
  <2>2. InTime'
    BY <1>t, <2>1, CommandBusAssumption DEF IInv, InTime, TypeOK
  <2>3. OwnRecord' /\ OneWorks'
    BY <1>t, <1>f, <2>1 DEF IInv, OwnRecord, OneWorks, TypeOK, Working
  <2> QED
    BY <1>c, <1>t, <2>1, <2>2, <2>3 DEF IInv, StoredFaithful, ReplayFaithful, NothingExpires,
                                        FingerprintOf
<1>3. ASSUME NEW c \in Calls, NEW label \in PCs \ Working,
             pc' = [pc EXCEPT ![c] = label], label \notin Active,
             UNCHANGED <<records, sentAt, now, pruning>>,
             ReplayFaithful'
      PROVE  IInv'
  <2>1. OwnRecord' /\ OneWorks' /\ InTime' /\ StoredFaithful' /\ NothingExpires'
    BY <1>3, <1>c, LeavesWork
  <2> QED
    BY <1>3, <1>t, <2>1 DEF IInv
<1>4. ASSUME NEW c \in Calls, NEW label \in {"succeed", "fail"}, pc[c] \in Working,
             pc' = [pc EXCEPT ![c] = label],
             UNCHANGED <<records, sentAt, now, pruning, answer>>
      PROVE  IInv'
  <2>1. OwnRecord' /\ OneWorks' /\ InTime' /\ StoredFaithful' /\ NothingExpires'
    BY <1>4, <1>c, LeavesWork DEF PCs, Working, Active
  <2> QED
    BY <1>4, <1>t, <1>c, <2>1 DEF IInv, ReplayFaithful, FingerprintOf
<1>5. ASSUME NEW c \in Calls, Begin(c) PROVE IInv'
  <2> DEFINE new == [fingerprint |-> FingerprintOf(c), status |-> "started",
                     expiresAt |-> After(sentAt[c], InProgressTtl), response |-> None]
  <2>1. /\ pc[c] = "begin" /\ pc' = [pc EXCEPT ![c] = "execute"]
        /\ MayStart(c)
        /\ UNCHANGED <<now, sentAt, answer, pruning>>
    BY <1>5 DEF Begin, Goto
  <2>2. /\ new.fingerprint = FingerprintOf(c) /\ new.status = "started"
        /\ new.expiresAt = After(sentAt[c], InProgressTtl)
    OBVIOUS
  <2>3. new # None
    <3>1. After(sentAt[c], InProgressTtl) \in Nat \cup {Never}
      BY <1>t, AfterType, CommandBusAssumption DEF TypeOK
    <3>2. new \in Records
      BY <1>k, <3>1 DEF Records, Statuses
    <3> QED
      BY <3>2, NoneAssumption
  <2> HIDE DEF new
  <2>4. records' = [records EXCEPT ![KeyOf(c)] = new]
    BY <1>5 DEF Begin, new
  <2>5. \A d \in Calls : pc[d] \in Working => KeyOf(d) # KeyOf(c)
    BY <2>1, StartsAlone
  <2>6. \A d \in Calls : d # c /\ pc'[d] \in Working => pc[d] \in Working
    BY <1>t, <2>1 DEF TypeOK
  <2>7. OneWorks'
    BY <1>f, <2>5, <2>6 DEF IInv, OneWorks
  <2>8. OwnRecord'
    <3> SUFFICES ASSUME NEW d \in Calls, pc'[d] \in Working
                 PROVE  /\ records'[KeyOf(d)] # None
                        /\ records'[KeyOf(d)].status = "started"
                        /\ records'[KeyOf(d)].fingerprint = FingerprintOf(d)
                        /\ records'[KeyOf(d)].expiresAt = After(sentAt[d], InProgressTtl)
      BY <1>f, <2>1 DEF OwnRecord
    <3>1. CASE d = c
      BY <1>t, <1>k, <2>2, <2>3, <2>4, <3>1 DEF TypeOK
    <3>2. CASE d # c
      BY <1>t, <1>k, <2>4, <2>5, <2>6, <3>2 DEF IInv, OwnRecord, TypeOK
    <3> QED
      BY <3>1, <3>2
  <2>9. InTime'
    BY <1>t, <2>1 DEF IInv, InTime, TypeOK, Active
  <2>10. StoredFaithful' /\ NothingExpires'
    BY <1>t, <1>k, <1>c, <2>2, <2>4
       DEF IInv, StoredFaithful, NothingExpires, NoLeases, After, TypeOK, FingerprintOf
  <2> QED
    BY <1>t, <1>c, <2>1, <2>7, <2>8, <2>9, <2>10 DEF IInv, ReplayFaithful, FingerprintOf
<1>6. ASSUME NEW c \in Calls, Resolve(c) PROVE IInv'
  <2> DEFINE record == records[KeyOf(c)]
  <2>1. record # None
    BY <1>6 DEF Resolve, MayStart
  <2>2. answer' = [answer EXCEPT ![c] = Resolution(c, record)]
    BY <1>6 DEF Resolve, Answer
  <2>3. CASE record.fingerprint # FingerprintOf(c) \/ record.status # "succeeded"
    <3>1. Resolution(c, record) \in Errors
      <4>1. record.status \in Statuses
        BY <1>k, <1>t, <2>1 DEF TypeOK, Records
      <4> QED
        BY <2>3, <4>1 DEF Resolution, Errors, Statuses
    <3>2. ReplayFaithful'
      BY <1>c, <2>2, <3>1, ErrorsAreNoCalls, AnswersFaithfully
    <3> QED
      BY <1>3, <1>6, <3>2 DEF Resolve, Answer, Goto, PCs, Working, Active
  <2>4. CASE record.fingerprint = FingerprintOf(c) /\ record.status = "succeeded"
    <3>1. Resolution(c, record) = record.response
      BY <2>4 DEF Resolution
    <3>2. FingerprintOf(record.response) = FingerprintOf(c)
      BY <1>k, <2>1, <2>4 DEF IInv, StoredFaithful
    <3>3. ReplayFaithful'
      BY <1>c, <2>2, <3>1, <3>2, AnswersFaithfully
    <3> QED
      BY <1>3, <1>6, <3>3 DEF Resolve, Answer, Goto, PCs, Working, Active
  <2> QED
    BY <2>3, <2>4
<1>7. ASSUME NEW c \in Calls, Invalid(c) PROVE IInv'
  <2>1. ReplayFaithful'
    BY <1>7, ErrorsAreNoCalls, AnswersFaithfully DEF Invalid, Answer, Errors
  <2> QED
    BY <1>3, <1>7, <2>1 DEF Invalid, Answer, Goto, PCs, Working, Active
<1>8. ASSUME NEW c \in Calls,
             Throw(c) \/ MarkRefused(c) \/ \E serializable \in BOOLEAN : Return(c, serializable)
      PROVE  IInv'
  BY <1>4, <1>8 DEF Throw, MarkRefused, Return, Goto, Working
<1>9. ASSUME NEW c \in Calls, MarkSucceeded(c) PROVE IInv'
  <2> DEFINE new == Marked(records[KeyOf(c)], "succeeded", c, markAt[c])
  <2>1. /\ new \in Records /\ new.fingerprint = records[KeyOf(c)].fingerprint
        /\ new.status = "succeeded" /\ new.response = c
    <3>1. records[KeyOf(c)] \in Records /\ markAt[c] \in Nat
      BY <1>9, <1>k, <1>t DEF MarkSucceeded, TypeOK
    <3> QED
      BY <3>1, MarkedSucceededType
  <2>2. NoLeases => new.expiresAt = Never
    BY <1>k, <1>t, <1>9 DEF MarkSucceeded, NoLeases, Marked, After, TypeOK, Records
  <2> HIDE DEF new
  <2>3. /\ pc[c] = "succeed" /\ pc' = [pc EXCEPT ![c] = "done"]
        /\ records' = [records EXCEPT ![KeyOf(c)] = new]
        /\ answer' = [answer EXCEPT ![c] = c]
        /\ UNCHANGED <<now, sentAt, pruning>>
    BY <1>9 DEF MarkSucceeded, Answer, Goto, new
  <2>4. new.fingerprint = FingerprintOf(c) /\ FingerprintOf(new.response) = FingerprintOf(c)
    BY <2>1, <2>3 DEF IInv, OwnRecord, Working
  <2>5. OwnRecord' /\ OneWorks' /\ InTime' /\ StoredFaithful' /\ NothingExpires'
    BY <1>c, <1>t, <2>1, <2>2, <2>3, <2>4, MarksOwn DEF Working
  <2>6. ReplayFaithful'
    BY <1>c, <2>3, AnswersFaithfully
  <2> QED
    BY <1>t, <2>3, <2>5, <2>6 DEF IInv
<1>10. ASSUME NEW c \in Calls, MarkFailed(c) PROVE IInv'
  <2> DEFINE new == Marked(records[KeyOf(c)], "failed", None, markAt[c])
  <2>1. pc[c] = "fail" /\ records[KeyOf(c)] # None
    BY <1>10 DEF MarkFailed, IInv, OwnRecord, Working
  <2>2. /\ new \in Records /\ new.fingerprint = records[KeyOf(c)].fingerprint
        /\ new.status = "failed"
    <3>1. records[KeyOf(c)] \in Records /\ markAt[c] \in Nat
      BY <1>k, <1>t, <2>1 DEF TypeOK
    <3> QED
      BY <3>1, MarkedFailedType
  <2>3. NoLeases => new.expiresAt = Never
    BY <1>k, <1>t, <2>1 DEF NoLeases, Marked, After, TypeOK, Records
  <2> HIDE DEF new
  <2>4. /\ pc' = [pc EXCEPT ![c] = "done"]
        /\ records' = [records EXCEPT ![KeyOf(c)] = new]
        /\ answer' = [answer EXCEPT ![c] = "error"]
        /\ UNCHANGED <<now, sentAt, pruning>>
    BY <1>10, <2>1 DEF MarkFailed, Answer, Goto, new
  <2>5. new.fingerprint = FingerprintOf(c)
    BY <2>1, <2>2 DEF IInv, OwnRecord, Working
  <2>6. OwnRecord' /\ OneWorks' /\ InTime' /\ StoredFaithful' /\ NothingExpires'
    BY <1>c, <1>t, <2>1, <2>2, <2>3, <2>4, <2>5, MarksOwn DEF Working
  <2>7. ReplayFaithful'
    BY <1>c, <2>4, ErrorsAreNoCalls, AnswersFaithfully DEF Errors
  <2> QED
    BY <1>t, <2>4, <2>6, <2>7 DEF IInv
<1>11. ASSUME NEW c \in Calls, StoreFails(c) PROVE IInv'
  <2>1. CASE pc[c] \in {"begin", "fail"} /\ Answer(c, "error")
    <3>1. ReplayFaithful'
      BY <1>c, <2>1, ErrorsAreNoCalls, AnswersFaithfully DEF Answer, Errors
    <3> QED
      BY <1>3, <1>11, <2>1, <3>1 DEF StoreFails, Answer, Goto, PCs, Working, Active
  <2>2. CASE pc[c] = "succeed" /\ Goto(c, "fail") /\ UNCHANGED answer
    BY <1>4, <1>11, <2>2 DEF StoreFails, Goto, Working
  <2> QED
    BY <1>11, <2>1, <2>2 DEF StoreFails
<1>12. ASSUME NEW c \in Calls, Crash(c) PROVE IInv'
  <2>1. ReplayFaithful'
    BY <1>c, <1>12 DEF Crash, IInv, ReplayFaithful, FingerprintOf
  <2> QED
    BY <1>3, <1>12, <2>1 DEF Crash, Goto, PCs, Working, Active
<1>13. ASSUME NEW keys \in SUBSET ExpiredKeys, Prune(keys) PROVE IInv'
  <2>1. /\ records' = [k \in Keys |-> IF k \in keys THEN None ELSE records[k]]
        /\ UNCHANGED <<now, pc, sentAt, answer, pruning>>
    BY <1>13 DEF Prune
  <2>2. \A c \in Calls : pc[c] \in Working => KeyOf(c) \notin keys
    <3>1. now \in Nat /\ now <= now
      BY <1>t, CommandBusAssumption DEF TypeOK
    <3> QED
      BY <1>13, <3>1, NotExpired DEF ExpiredKeys
  <2>3. OwnRecord'
    BY <1>k, <1>f, <2>1, <2>2 DEF IInv, OwnRecord
  <2>4. StoredFaithful' /\ NothingExpires'
    BY <1>c, <2>1 DEF IInv, StoredFaithful, NothingExpires, FingerprintOf
  <2> QED
    BY <1>c, <1>t, <2>1, <2>3, <2>4 DEF IInv, OneWorks, InTime, ReplayFaithful, KeyOf,
                                        FingerprintOf
<1>14. ASSUME NEW keys \in (SUBSET ExpiredKeys) \ {{}}, PruneList(keys) PROVE IInv'
  <2>1. \A k \in Keys : records[k] # None => records[k].expiresAt = Never
    BY <1>14 DEF PruneList, SafeLeases, IInv, NothingExpires
  <2>2. ExpiredKeys = {}
    BY <2>1 DEF ExpiredKeys, Expired
  <2>3. keys = {}
    BY <2>2
  <2> QED
    BY <2>3
<1>15. ASSUME NEW k \in Keys, PruneRemove(k) \/ PruneUndone(k) PROVE IInv'
  BY <1>15 DEF PruneRemove, PruneUndone, IInv
<1>16. CASE UNCHANGED vars
  BY <1>16, <1>t DEF vars, IInv, OwnRecord, OneWorks, InTime, StoredFaithful, ReplayFaithful,
                     NothingExpires, KeyOf, FingerprintOf
<1> QED
  BY <1>1, <1>2, <1>5, <1>6, <1>7, <1>8, <1>9, <1>10, <1>11, <1>12, <1>13, <1>14, <1>15, <1>16,
     <1>t, PruneCases
     DEF Next, CallStep, TypeOK

\* With safe leases the inductive invariant always holds.
LEMMA Invariance ==
  ASSUME SafeLeases
  PROVE  Spec => []IInv
<1>1. IInv /\ [Next]_vars => IInv'
  BY IInvStep
<1> QED
  BY <1>1, IInvInit, PTL DEF Spec

(***************************************************************************)
(* Two handlers never run for one key at the same time.                    *)
(***************************************************************************)
THEOREM OneAtATime ==
  ASSUME SafeLeases
  PROVE  Spec => []NoOverlap
<1>1. IInv => NoOverlap
  BY DEF IInv, OneWorks, NoOverlap, Working
<1> QED
  BY <1>1, Invariance, PTL

(***************************************************************************)
(* A client gets the result of a command with its own fingerprint.         *)
(***************************************************************************)
THEOREM FaithfulReplay ==
  ASSUME SafeLeases
  PROVE  Spec => []ReplayFaithful
<1>1. IInv => ReplayFaithful
  BY DEF IInv
<1> QED
  BY <1>1, Invariance, PTL

(***************************************************************************)
(* A stored outcome is changed by nothing but its own expiry.              *)
(***************************************************************************)
THEOREM OutcomesKept ==
  ASSUME SafeLeases
  PROVE  Spec => VerdictKept
<1>1. IInv /\ [Next]_vars => KeepsVerdicts
  <2> SUFFICES ASSUME IInv, [Next]_vars, NEW k \in Keys,
                      records[k] # None, records[k].status # "started",
                      records'[k] # records[k]
               PROVE  Expired(records[k], now)
    BY DEF KeepsVerdicts
  <2>t. \A c \in Calls : KeyOf(c) \in Keys
    BY DEF IInv, TypeOK, Commands, KeyOf
  <2>2. ASSUME NEW c \in Calls, Begin(c) PROVE Expired(records[k], now)
    <3>1. k = KeyOf(c) /\ MayStart(c)
      BY <2>2, <2>t DEF Begin, IInv, TypeOK
    <3>2. Expired(records[k], sentAt[c])
      BY <3>1 DEF MayStart
    <3>3. sentAt[c] <= now /\ sentAt[c] \in Nat /\ now \in Nat
      BY CommandBusAssumption DEF IInv, TypeOK, InTime
    <3>4. records[k].expiresAt \in Nat
      BY <3>2 DEF Expired, IInv, TypeOK, Records
    <3> QED
      BY <3>2, <3>3, <3>4 DEF Expired
  <2>3. ASSUME NEW c \in Calls, MarkSucceeded(c) \/ MarkFailed(c) PROVE FALSE
    <3>1. pc[c] \in Working
      BY <2>3 DEF MarkSucceeded, MarkFailed, Working
    <3>2. k = KeyOf(c)
      BY <2>3, <2>t DEF MarkSucceeded, MarkFailed, IInv, TypeOK
    <3> QED
      BY <3>1, <3>2 DEF IInv, OwnRecord
  <2>4. ASSUME NEW keys \in SUBSET ExpiredKeys, Prune(keys) PROVE Expired(records[k], now)
    BY <2>4 DEF Prune, ExpiredKeys
  <2>5. ASSUME NEW j \in Keys, PruneRemove(j) PROVE FALSE
    BY <2>5 DEF PruneRemove, IInv
  <2>6. ASSUME NEW c \in Calls,
               \/ Dispatch(c) \/ Invalid(c) \/ Resolve(c) \/ Throw(c) \/ MarkRefused(c)
               \/ StoreFails(c) \/ Crash(c) \/ \E b \in BOOLEAN : Return(c, b)
        PROVE  FALSE
    BY <2>6 DEF Dispatch, Invalid, Resolve, Throw, MarkRefused, StoreFails, Crash, Return
  <2>7. CASE \/ Tick \/ UNCHANGED vars
            \/ \E keys \in SUBSET ExpiredKeys : PruneList(keys)
            \/ \E j \in Keys : PruneUndone(j)
    BY <2>7 DEF Tick, vars, PruneList, PruneUndone
  <2> QED
    BY <2>2, <2>3, <2>4, <2>5, <2>6, <2>7, PruneCases DEF Next, CallStep, IInv, TypeOK
<1>2. IInv /\ [Next]_vars => [KeepsVerdicts]_vars
  BY <1>1
<1> QED
  BY <1>2, Invariance, PTL DEF Spec, VerdictKept

-----------------------------------------------------------------------------
\* A handler was started for a key exactly when there is a record for it.
RunsCounted == \A k \in Keys : runs[k] = IF records[k] = None THEN 0 ELSE 1

(***************************************************************************)
(* Without leases a record is never replaced by begin and never removed.   *)
(***************************************************************************)
LEMMA NeverExpired ==
  ASSUME NoLeases, IInv
  PROVE  /\ \A k \in Keys, t \in Nat : ~Expired(records[k], t)
         /\ \A c \in Calls : MayStart(c) <=> records[KeyOf(c)] = None
         /\ ExpiredKeys = {}
<1>1. \A k \in Keys, t \in Nat : ~Expired(records[k], t)
  BY DEF IInv, NothingExpires, Expired
<1>2. \A c \in Calls : KeyOf(c) \in Keys /\ sentAt[c] \in Nat
  BY DEF IInv, TypeOK, Commands, KeyOf
<1>3. now \in Nat
  BY CommandBusAssumption DEF IInv, TypeOK
<1> QED
  BY <1>1, <1>2, <1>3 DEF MayStart, ExpiredKeys

\* Without leases every step keeps the count of the handlers right.
LEMMA RunsStep == NoLeases /\ IInv /\ RunsCounted /\ [Next]_vars => RunsCounted'
<1> SUFFICES ASSUME NoLeases, IInv, RunsCounted, [Next]_vars, NEW k \in Keys
             PROVE  runs'[k] = IF records'[k] = None THEN 0 ELSE 1
  BY DEF RunsCounted
<1>t. TypeOK /\ TypeOK' /\ SafeLeases /\ IInv'
  BY IInvStep DEF IInv, NoLeases, SafeLeases
<1>k. \A c \in Calls : KeyOf(c) \in Keys
  BY <1>t DEF TypeOK, Commands, KeyOf
<1>1. ASSUME NEW c \in Calls, Begin(c)
      PROVE  runs'[k] = IF records'[k] = None THEN 0 ELSE 1
  <2>1. records[KeyOf(c)] = None /\ pc'[c] = "execute" /\ command' = command
    BY <1>1, <1>t, NeverExpired DEF Begin, Goto, TypeOK
  <2>2. records'[KeyOf(c)] # None
    BY <1>t, <2>1 DEF IInv, OwnRecord, Working, KeyOf
  <2>3. /\ runs' = [runs EXCEPT ![KeyOf(c)] = @ + 1]
        /\ k # KeyOf(c) => records'[k] = records[k]
    BY <1>1, <1>t DEF Begin, TypeOK
  <2>4. runs[KeyOf(c)] = 0
    BY <1>k, <2>1 DEF RunsCounted
  <2> QED
    BY <1>k, <1>t, <2>2, <2>3, <2>4 DEF RunsCounted, TypeOK
<1>2. ASSUME runs' = runs, records'[k] = None <=> records[k] = None
      PROVE  runs'[k] = IF records'[k] = None THEN 0 ELSE 1
  BY <1>2 DEF RunsCounted
<1>3. ASSUME NEW c \in Calls, MarkSucceeded(c) \/ MarkFailed(c)
      PROVE  runs' = runs /\ (records'[k] = None <=> records[k] = None)
  <2>1. pc[c] \in Working /\ runs' = runs
    BY <1>3 DEF MarkSucceeded, MarkFailed, Working
  <2>2. /\ records[KeyOf(c)] \in Records /\ markAt[c] \in Nat
        /\ records[KeyOf(c)] # None
    BY <1>k, <1>t, <2>1 DEF IInv, OwnRecord, TypeOK
  <2>3. \/ records' = [records EXCEPT ![KeyOf(c)] =
                          Marked(records[KeyOf(c)], "succeeded", c, markAt[c])]
        \/ records' = [records EXCEPT ![KeyOf(c)] =
                          Marked(records[KeyOf(c)], "failed", None, markAt[c])]
    BY <1>3, <2>2 DEF MarkSucceeded, MarkFailed
  <2>4. /\ Marked(records[KeyOf(c)], "succeeded", c, markAt[c]) # None
        /\ Marked(records[KeyOf(c)], "failed", None, markAt[c]) # None
    BY <2>2, MarkedSucceededType, MarkedFailedType, NoneAssumption
  <2> QED
    BY <1>k, <1>t, <2>1, <2>2, <2>3, <2>4 DEF TypeOK
<1>4. ASSUME NEW c \in Calls,
             \/ Dispatch(c) \/ Invalid(c) \/ Resolve(c) \/ Throw(c) \/ MarkRefused(c)
             \/ StoreFails(c) \/ Crash(c) \/ \E b \in BOOLEAN : Return(c, b)
      PROVE  UNCHANGED <<runs, records>>
  BY <1>4 DEF Dispatch, Invalid, Resolve, Throw, MarkRefused, StoreFails, Crash, Return
<1>5. CASE Tick \/ UNCHANGED vars
  BY <1>2, <1>5 DEF Tick, vars
<1>6. CASE PruneStep
  <2>1. ExpiredKeys = {} /\ pruning = {}
    BY NeverExpired DEF IInv
  <2>2. \A keys : keys \notin (SUBSET ExpiredKeys) \ {{}}
    <3> SUFFICES ASSUME NEW keys \in SUBSET ExpiredKeys PROVE keys = {}
      OBVIOUS
    <3> QED
      BY <2>1
  <2> QED
    BY <1>6, <2>1, <2>2, PruneCases
<1> QED
  BY <1>1, <1>2, <1>3, <1>4, <1>5, <1>6 DEF Next, CallStep

(***************************************************************************)
(* Without leases a handler is started at most once for a key.             *)
(***************************************************************************)
THEOREM RunsOnce ==
  ASSUME NoLeases
  PROVE  Spec => []AtMostOnce
<1>1. SafeLeases
  BY DEF NoLeases, SafeLeases
<1>2. Init => RunsCounted
  BY DEF Init, RunsCounted
<1>3. IInv /\ RunsCounted /\ [Next]_vars => RunsCounted'
  BY RunsStep
<1>4. RunsCounted => AtMostOnce
  BY DEF RunsCounted, AtMostOnce
<1> QED
  BY <1>1, <1>2, <1>3, <1>4, Invariance, PTL DEF Spec

-----------------------------------------------------------------------------
\* A call that has not settled has no answer.
AnsweredLast == \A c \in Calls : pc[c] \in Active \cup {"idle"} => answer[c] = "none"

\* A call that has been answered stays answered in every step.
LEMMA AnsweredStep == TypeOK /\ AnsweredLast /\ [Next]_vars => AnsweredLast'
<1> SUFFICES ASSUME TypeOK, AnsweredLast, [Next]_vars PROVE AnsweredLast'
  OBVIOUS
<1>1. ASSUME NEW c \in Calls, NEW label \in Active, pc[c] \in Active \cup {"idle"},
             pc' = [pc EXCEPT ![c] = label], answer' = answer
      PROVE  AnsweredLast'
  BY <1>1 DEF AnsweredLast, TypeOK
<1>2. ASSUME NEW c \in Calls, NEW a, Answer(c, a) PROVE AnsweredLast'
  BY <1>2 DEF AnsweredLast, Answer, Goto, TypeOK, Active
<1>3. ASSUME NEW c \in Calls, Crash(c) PROVE AnsweredLast'
  BY <1>3 DEF AnsweredLast, Crash, Goto, TypeOK, Active
<1>4. ASSUME NEW c \in Calls, CallStep(c) PROVE AnsweredLast'
  <2>1. ASSUME \/ Dispatch(c) \/ Begin(c) \/ Throw(c) \/ MarkRefused(c)
               \/ \E b \in BOOLEAN : Return(c, b)
        PROVE  AnsweredLast'
    BY <1>1, <2>1 DEF Dispatch, Begin, Throw, MarkRefused, Return, Goto, Active
  <2>2. ASSUME Invalid(c) \/ Resolve(c) \/ MarkSucceeded(c) \/ MarkFailed(c)
        PROVE  AnsweredLast'
    BY <1>2, <2>2 DEF Invalid, Resolve, MarkSucceeded, MarkFailed
  <2>3. ASSUME StoreFails(c) PROVE AnsweredLast'
    BY <1>1, <1>2, <2>3 DEF StoreFails, Goto, Active
  <2> QED
    BY <1>3, <1>4, <2>1, <2>2, <2>3 DEF CallStep
<1>5. CASE Tick \/ PruneStep \/ UNCHANGED vars
  BY <1>5 DEF Tick, PruneStep, Prune, PruneList, PruneRemove, PruneUndone, vars, AnsweredLast
<1> QED
  BY <1>4, <1>5 DEF Next

\* Initially the client sees what the promise begins with.
LEMMA PromiseInit == Init => Promise!Init
<1> SUFFICES ASSUME Init PROVE Promise!Init
  OBVIOUS
<1>1. /\ command \in [Calls -> [key : Keys, fingerprint : Fingerprints]]
      /\ \A k \in Keys : records[k] = None
      /\ \A c \in Calls : answer[c] = "none"
  BY DEF Init, Commands
<1>2. Ran = [k \in Keys |-> None] /\ Verdict = [k \in Keys |-> "none"]
  BY <1>1 DEF Ran, RanOf, Verdict, VerdictOf
<1>3. ClientAnswer = [c \in Calls |-> "none"]
  BY <1>1 DEF ClientAnswer, ClientOf
<1> QED
  BY <1>1, <1>2, <1>3 DEF Promise!Init

(***************************************************************************)
(* What a client sees when one call is answered, and when one record is    *)
(* written.                                                                *)
(***************************************************************************)
LEMMA ClientSees ==
  ASSUME TypeOK, NEW c \in Calls, NEW a, answer' = [answer EXCEPT ![c] = a]
  PROVE  ClientAnswer' = [ClientAnswer EXCEPT ![c] = ClientOf(a)]
BY DEF ClientAnswer, TypeOK

\* What a client sees of a changed record.
LEMMA RecordSeen ==
  ASSUME TypeOK, NEW k \in Keys, NEW r, records' = [records EXCEPT ![k] = r]
  PROVE  /\ Ran' = [Ran EXCEPT ![k] = RanOf(r)]
         /\ Verdict' = [Verdict EXCEPT ![k] = VerdictOf(r)]
BY DEF Ran, Verdict, TypeOK

\* What a client does not see: a step that changes no record, or no answer.
LEMMA Unseen ==
  ASSUME NEW c \in Calls
  PROVE  /\ answer[c] = "none" => ClientAnswer[c] = "none"
         /\ records' = records => UNCHANGED <<Ran, Verdict>>
         /\ answer' = answer => UNCHANGED ClientAnswer
BY DEF ClientAnswer, ClientOf, Ran, Verdict

(***************************************************************************)
(* An error other than a replayed failure is a refusal to the client.      *)
(***************************************************************************)
LEMMA Refusal ==
  ASSUME TypeOK, NEW c \in Calls, NEW a \in Errors \ {"replayed_failure"},
         answer[c] = "none", answer' = [answer EXCEPT ![c] = a],
         UNCHANGED <<command, records>>
  PROVE  Promise!Refuse(c)
<1>1. ClientOf(a) = "refused"
  BY ErrorsAreNoCalls DEF ClientOf, Errors
<1> QED
  BY <1>1, ClientSees, Unseen DEF Promise!Refuse

(***************************************************************************)
(* Without leases every step is a step of the promise, or the client does  *)
(* not see it.                                                             *)
(***************************************************************************)
LEMMA PromiseStep ==
  NoLeases /\ IInv /\ AnsweredLast /\ [Next]_vars => [Promise!Next]_(Promise!vars)
<1> SUFFICES ASSUME NoLeases, IInv, AnsweredLast, [Next]_vars
             PROVE  Promise!Next \/ UNCHANGED Promise!vars
  OBVIOUS
<1>t. TypeOK
  BY DEF IInv
<1>k. \A c \in Calls : /\ KeyOf(c) \in Keys /\ KeyOf(c) = command[c].key
                       /\ FingerprintOf(c) = command[c].fingerprint
                       /\ FingerprintOf(c) \in Fingerprints
  BY <1>t DEF TypeOK, Commands, KeyOf, FingerprintOf
<1>s. ASSUME UNCHANGED <<command, records, answer>> PROVE UNCHANGED Promise!vars
  BY <1>s DEF Promise!vars, Ran, Verdict, ClientAnswer
<1>1. ASSUME NEW c \in Calls, Begin(c) PROVE Promise!Run(c)
  <2> DEFINE new == [fingerprint |-> FingerprintOf(c), status |-> "started",
                     expiresAt |-> After(sentAt[c], InProgressTtl), response |-> None]
  <2>1. records[KeyOf(c)] = None
    BY <1>1, NeverExpired DEF Begin
  <2>2. RanOf(new) = FingerprintOf(c) /\ VerdictOf(new) = "none"
    <3>1. After(sentAt[c], InProgressTtl) \in Nat \cup {Never}
      BY <1>t, AfterType, CommandBusAssumption DEF TypeOK
    <3>2. new \in Records
      BY <1>k, <3>1 DEF Records, Statuses
    <3>3. new # None
      BY <3>2, NoneAssumption
    <3> QED
      BY <3>3 DEF RanOf, VerdictOf
  <2> HIDE DEF new
  <2>3. records' = [records EXCEPT ![KeyOf(c)] = new] /\ UNCHANGED <<command, answer>>
    BY <1>1 DEF Begin, new
  <2>4. /\ Ran' = [Ran EXCEPT ![KeyOf(c)] = FingerprintOf(c)]
        /\ Verdict' = [Verdict EXCEPT ![KeyOf(c)] = "none"]
    <3>1. KeyOf(c) \in Keys
      BY <1>k
    <3>2. /\ Ran' = [Ran EXCEPT ![KeyOf(c)] = RanOf(new)]
          /\ Verdict' = [Verdict EXCEPT ![KeyOf(c)] = VerdictOf(new)]
      BY <1>t, <2>3, <3>1, RecordSeen
    <3> QED
      BY <2>2, <3>2
  <2>5. Ran[KeyOf(c)] = None /\ Verdict[KeyOf(c)] = "none"
    BY <1>k, <2>1 DEF Ran, RanOf, Verdict, VerdictOf
  <2>6. Verdict' = Verdict
    BY <2>4, <2>5 DEF Verdict
  <2> QED
    BY <1>k, <2>3, <2>4, <2>5, <2>6, Unseen DEF Promise!Run
<1>2. ASSUME NEW c \in Calls, Resolve(c) PROVE Promise!Refuse(c) \/ Promise!Replay(c)
  <2> DEFINE record == records[KeyOf(c)]
  <2>1. /\ record # None /\ record \in Records
        /\ answer' = [answer EXCEPT ![c] = Resolution(c, record)]
        /\ answer[c] = "none"
        /\ UNCHANGED <<command, records>>
    BY <1>2, <1>k, <1>t DEF Resolve, MayStart, Answer, TypeOK, AnsweredLast, Active
  <2>2. record.status \in Statuses
    BY <2>1 DEF Records
  <2>3. CASE record.fingerprint # FingerprintOf(c) \/ record.status = "started"
    <3>1. Resolution(c, record) \in Errors \ {"replayed_failure"}
      BY <2>3 DEF Resolution, Errors
    <3> QED
      BY <1>t, <2>1, <3>1, Refusal
  <2>4. CASE record.fingerprint = FingerprintOf(c) /\ record.status # "started"
    <3>1. /\ Ran[KeyOf(c)] = FingerprintOf(c)
          /\ Verdict[KeyOf(c)] = VerdictOf(record)
      BY <1>k, <2>1, <2>4 DEF Ran, RanOf, Verdict
    <3>2. ClientOf(Resolution(c, record)) = VerdictOf(record) /\ VerdictOf(record) # "none"
      <4>1. CASE record.status = "succeeded"
        <5>1. record.response \in Calls
          BY <1>k, <2>1, <4>1 DEF IInv, ResponseStored
        <5>2. record.response # "none"
          BY <5>1, ErrorsAreNoCalls
        <5> QED
          BY <2>1, <2>4, <4>1, <5>1, <5>2 DEF Resolution, VerdictOf, ClientOf
      <4>2. CASE record.status = "failed"
        <5>1. "replayed_failure" \notin Calls \cup {"none"}
          BY ErrorsAreNoCalls DEF Errors
        <5> QED
          BY <2>1, <2>4, <4>2, <5>1 DEF Resolution, VerdictOf, ClientOf
      <4> QED
        BY <2>2, <2>4, <4>1, <4>2 DEF Statuses
    <3>3. ClientAnswer' = [ClientAnswer EXCEPT ![c] = VerdictOf(record)]
      BY <1>t, <2>1, <3>2, ClientSees
    <3> QED
      BY <1>k, <2>1, <3>1, <3>2, <3>3, Unseen DEF Promise!Replay
  <2> QED
    BY <2>3, <2>4
<1>3. ASSUME NEW c \in Calls, MarkSucceeded(c) PROVE Promise!Succeed(c)
  <2> DEFINE new == Marked(records[KeyOf(c)], "succeeded", c, markAt[c])
  <2>1. /\ records[KeyOf(c)] \in Records /\ records[KeyOf(c)] # None /\ markAt[c] \in Nat
        /\ records[KeyOf(c)].status = "started"
        /\ records[KeyOf(c)].fingerprint = FingerprintOf(c)
        /\ answer[c] = "none"
    BY <1>3, <1>k, <1>t DEF MarkSucceeded, TypeOK, IInv, OwnRecord, Working, AnsweredLast, Active
  <2>2. new # None /\ RanOf(new) = FingerprintOf(c) /\ VerdictOf(new) = c
    <3>1. /\ new \in Records /\ new.fingerprint = FingerprintOf(c)
          /\ new.status = "succeeded" /\ new.response = c
      BY <2>1, MarkedSucceededType
    <3>2. new # None
      BY <3>1, NoneAssumption
    <3> QED
      BY <3>1, <3>2 DEF RanOf, VerdictOf
  <2> HIDE DEF new
  <2>3. /\ records' = [records EXCEPT ![KeyOf(c)] = new]
        /\ answer' = [answer EXCEPT ![c] = c]
        /\ command' = command
    BY <1>3 DEF MarkSucceeded, Answer, new
  <2>4. /\ Ran' = [Ran EXCEPT ![KeyOf(c)] = FingerprintOf(c)]
        /\ Verdict' = [Verdict EXCEPT ![KeyOf(c)] = c]
    <3>1. KeyOf(c) \in Keys
      BY <1>k
    <3>2. /\ Ran' = [Ran EXCEPT ![KeyOf(c)] = RanOf(new)]
          /\ Verdict' = [Verdict EXCEPT ![KeyOf(c)] = VerdictOf(new)]
      BY <1>t, <2>3, <3>1, RecordSeen
    <3> QED
      BY <2>2, <3>2
  <2>5. Ran[KeyOf(c)] = FingerprintOf(c) /\ Verdict[KeyOf(c)] = "none"
    BY <1>k, <2>1 DEF Ran, RanOf, Verdict, VerdictOf
  <2>6. Ran' = Ran
    BY <2>4, <2>5 DEF Ran
  <2>7. ClientAnswer' = [ClientAnswer EXCEPT ![c] = c]
    BY <1>t, <2>3, ClientSees DEF ClientOf
  <2> QED
    BY <1>k, <2>1, <2>3, <2>4, <2>5, <2>6, <2>7, Unseen DEF Promise!Succeed, Promise!MayDecide
<1>4. ASSUME NEW c \in Calls, MarkFailed(c) PROVE Promise!Fail(c)
  <2> DEFINE new == Marked(records[KeyOf(c)], "failed", None, markAt[c])
  <2>1. /\ records[KeyOf(c)] \in Records /\ records[KeyOf(c)] # None /\ markAt[c] \in Nat
        /\ records[KeyOf(c)].status = "started"
        /\ records[KeyOf(c)].fingerprint = FingerprintOf(c)
        /\ answer[c] = "none"
    BY <1>4, <1>k, <1>t DEF MarkFailed, TypeOK, IInv, OwnRecord, Working, AnsweredLast, Active
  <2>2. new # None /\ RanOf(new) = FingerprintOf(c) /\ VerdictOf(new) = "failed"
    <3>1. /\ new \in Records /\ new.fingerprint = FingerprintOf(c)
          /\ new.status = "failed"
      BY <2>1, MarkedFailedType
    <3>2. new # None
      BY <3>1, NoneAssumption
    <3> QED
      BY <3>1, <3>2 DEF RanOf, VerdictOf
  <2> HIDE DEF new
  <2>3. /\ records' = [records EXCEPT ![KeyOf(c)] = new]
        /\ answer' = [answer EXCEPT ![c] = "error"]
        /\ command' = command
    BY <1>4, <2>1 DEF MarkFailed, Answer, new
  <2>4. /\ Ran' = [Ran EXCEPT ![KeyOf(c)] = FingerprintOf(c)]
        /\ Verdict' = [Verdict EXCEPT ![KeyOf(c)] = "failed"]
    <3>1. KeyOf(c) \in Keys
      BY <1>k
    <3>2. /\ Ran' = [Ran EXCEPT ![KeyOf(c)] = RanOf(new)]
          /\ Verdict' = [Verdict EXCEPT ![KeyOf(c)] = VerdictOf(new)]
      BY <1>t, <2>3, <3>1, RecordSeen
    <3> QED
      BY <2>2, <3>2
  <2>5. Ran[KeyOf(c)] = FingerprintOf(c) /\ Verdict[KeyOf(c)] = "none"
    BY <1>k, <2>1 DEF Ran, RanOf, Verdict, VerdictOf
  <2>6. Ran' = Ran
    BY <2>4, <2>5 DEF Ran
  <2>7. ClientAnswer' = [ClientAnswer EXCEPT ![c] = "refused"]
    <3>1. ClientOf("error") = "refused"
      BY ErrorsAreNoCalls DEF ClientOf, Errors
    <3> QED
      BY <1>t, <2>3, <3>1, ClientSees
  <2> QED
    BY <1>k, <2>1, <2>3, <2>4, <2>5, <2>6, <2>7, Unseen DEF Promise!Fail, Promise!MayDecide
<1>5. ASSUME NEW c \in Calls, Invalid(c) PROVE Promise!Refuse(c)
  BY <1>5, <1>t, Refusal DEF Invalid, Answer, Errors, AnsweredLast
<1>6. ASSUME NEW c \in Calls, StoreFails(c) PROVE Promise!Refuse(c) \/ UNCHANGED Promise!vars
  <2>1. CASE pc[c] \in {"begin", "fail"} /\ Answer(c, "error")
    BY <1>6, <1>t, <2>1, Refusal DEF StoreFails, Answer, Errors, AnsweredLast, Active
  <2>2. CASE UNCHANGED answer
    BY <1>6, <1>s, <2>2 DEF StoreFails
  <2> QED
    BY <1>6, <2>1, <2>2 DEF StoreFails
<1>7. ASSUME NEW c \in Calls,
             \/ Dispatch(c) \/ Throw(c) \/ MarkRefused(c) \/ Crash(c)
             \/ \E b \in BOOLEAN : Return(c, b)
      PROVE  UNCHANGED Promise!vars
  BY <1>7, <1>s DEF Dispatch, Throw, MarkRefused, Crash, Return
<1>8. CASE Tick \/ UNCHANGED vars
  BY <1>8, <1>s DEF Tick, vars
<1>9. CASE PruneStep
  <2>1. ExpiredKeys = {} /\ pruning = {}
    BY NeverExpired DEF IInv
  <2>2. \A keys : keys \notin (SUBSET ExpiredKeys) \ {{}}
    <3> SUFFICES ASSUME NEW keys \in SUBSET ExpiredKeys PROVE keys = {}
      OBVIOUS
    <3> QED
      BY <2>1
  <2> QED
    BY <1>9, <2>1, <2>2, PruneCases
<1> QED
  BY <1>1, <1>2, <1>3, <1>4, <1>5, <1>6, <1>7, <1>8, <1>9
     DEF Next, CallStep, Promise!Next

(***************************************************************************)
(* Without leases the bus implements the promise of idempotency keys.      *)
(***************************************************************************)
THEOREM Refinement ==
  ASSUME NoLeases
  PROVE  Spec => OnceOnlySpec
<1>1. SafeLeases
  BY DEF NoLeases, SafeLeases
<1>2. Init => AnsweredLast
  BY DEF Init, AnsweredLast
<1>3. TypeOK /\ AnsweredLast /\ [Next]_vars => AnsweredLast'
  BY AnsweredStep
<1>4. IInv /\ AnsweredLast /\ [Next]_vars => [Promise!Next]_(Promise!vars)
  BY PromiseStep
<1>5. IInv => TypeOK
  BY DEF IInv
<1> QED
  BY <1>1, <1>2, <1>3, <1>4, <1>5, PromiseInit, Invariance, PTL
     DEF Spec, OnceOnlySpec, Promise!Spec

-----------------------------------------------------------------------------
(***************************************************************************)
(* What a client was given stays: no step changes the command of a call,   *)
(* nor the answer or the result of one that has returned.                  *)
(***************************************************************************)
LEMMA ReturnedStays ==
  TypeOK /\ AnsweredLast /\ [Next]_vars =>
    /\ command' = command
    /\ \A c \in Calls :
         answer[c] \in Calls => answer'[c] = answer[c] /\ sound'[c] = sound[c]
<1> SUFFICES ASSUME TypeOK, AnsweredLast, [Next]_vars
             PROVE  /\ command' = command
                    /\ \A c \in Calls : answer[c] \in Calls =>
                         answer'[c] = answer[c] /\ sound'[c] = sound[c]
  OBVIOUS
<1> DEFINE Kept == \A c \in Calls :
                     answer[c] \in Calls => answer'[c] = answer[c] /\ sound'[c] = sound[c]
<1>1. \A c \in Calls : pc[c] \in Active \cup {"idle"} => answer[c] \notin Calls
  BY ErrorsAreNoCalls DEF AnsweredLast
<1>2. ASSUME UNCHANGED <<answer, sound>> PROVE Kept
  BY <1>2
<1>3. ASSUME NEW c \in Calls, NEW a, pc[c] \in Active \cup {"idle"}, Answer(c, a),
             UNCHANGED sound
      PROVE  Kept
  <2>1. answer' = [answer EXCEPT ![c] = a]
    BY <1>3 DEF Answer
  <2> QED
    BY <1>1, <1>3, <2>1 DEF TypeOK
<1>4. ASSUME NEW c \in Calls, NEW serializable \in BOOLEAN, Return(c, serializable)
      PROVE  Kept
  <2>1. /\ sound' = [sound EXCEPT ![c] = serializable]
        /\ pc[c] \in Active
        /\ answer' = answer
    BY <1>4 DEF Return, Active
  <2> QED
    BY <1>1, <2>1 DEF TypeOK
<1> HIDE DEF Kept
<1>5. ASSUME NEW c \in Calls, CallStep(c) PROVE command' = command /\ Kept
  <2>1. CASE Dispatch(c) \/ Begin(c) \/ Throw(c) \/ MarkRefused(c) \/ Crash(c)
    BY <1>2, <2>1 DEF Dispatch, Begin, Throw, MarkRefused, Crash
  <2>2. CASE Invalid(c) \/ Resolve(c) \/ MarkSucceeded(c) \/ MarkFailed(c)
    BY <1>3, <2>2 DEF Invalid, Resolve, MarkSucceeded, MarkFailed, Active
  <2>3. CASE StoreFails(c)
    BY <1>2, <1>3, <2>3 DEF StoreFails, Active
  <2>4. CASE \E serializable \in BOOLEAN : Return(c, serializable)
    BY <1>4, <2>4 DEF Return
  <2> QED
    BY <1>5, <2>1, <2>2, <2>3, <2>4 DEF CallStep
<1>6. CASE Tick \/ PruneStep \/ UNCHANGED vars
  BY <1>2, <1>6 DEF Tick, PruneStep, Prune, PruneList, PruneRemove, PruneUndone, vars
<1> QED
  BY <1>5, <1>6 DEF Next, Kept

(***************************************************************************)
(* Only markSucceeded stores a response.  Any other step leaves a record   *)
(* as it was, drops it, or leaves one that has not succeeded.              *)
(***************************************************************************)
LEMMA StoresNothing ==
  ASSUME TypeOK, [Next]_vars, \A c \in Calls : ~MarkSucceeded(c)
  PROVE  \A k \in Keys :
           records'[k] # None /\ records'[k].status = "succeeded" => records'[k] = records[k]
<1> DEFINE Same == \A k \in Keys : records'[k] # None /\ records'[k].status = "succeeded" =>
                                     records'[k] = records[k]
<1>1. ASSUME UNCHANGED records PROVE Same
  BY <1>1
<1>2. ASSUME NEW k \in Keys, NEW r, records' = [records EXCEPT ![k] = r],
             r = None \/ r.status # "succeeded"
      PROVE  Same
  BY <1>2 DEF TypeOK
<1>3. ASSUME NEW c \in Calls, Begin(c) PROVE Same
  <2> DEFINE new == [fingerprint |-> FingerprintOf(c), status |-> "started",
                     expiresAt |-> After(sentAt[c], InProgressTtl), response |-> None]
  <2>1. KeyOf(c) \in Keys /\ new.status # "succeeded"
    BY DEF TypeOK, Commands, KeyOf
  <2>2. records' = [records EXCEPT ![KeyOf(c)] = new]
    BY <1>3 DEF Begin
  <2> HIDE DEF new, Same
  <2> QED
    BY <1>2, <2>1, <2>2
<1>4. ASSUME NEW c \in Calls, MarkFailed(c), records[KeyOf(c)] # None PROVE Same
  <2> DEFINE new == Marked(records[KeyOf(c)], "failed", None, markAt[c])
  <2>1. KeyOf(c) \in Keys
    BY DEF TypeOK, Commands, KeyOf
  <2>2. records[KeyOf(c)] \in Records /\ markAt[c] \in Nat
    BY <1>4, <2>1, CommandBusAssumption DEF TypeOK
  <2>3. new.status # "succeeded"
    BY <2>2, MarkedFailedType
  <2>4. records' = [records EXCEPT ![KeyOf(c)] = new]
    BY <1>4 DEF MarkFailed
  <2> HIDE DEF new, Same
  <2> QED
    BY <1>2, <2>1, <2>3, <2>4
<1>5. ASSUME NEW keys, Prune(keys) PROVE Same
  BY <1>5 DEF Prune
<1>6. ASSUME NEW k \in pruning, PruneRemove(k) PROVE Same
  BY <1>6 DEF PruneRemove, TypeOK
<1> HIDE DEF Same
<1>7. ASSUME NEW c \in Calls, CallStep(c) PROVE Same
  <2>1. CASE \/ Dispatch(c) \/ Invalid(c) \/ Resolve(c) \/ Throw(c) \/ MarkRefused(c)
             \/ StoreFails(c) \/ Crash(c) \/ \E b \in BOOLEAN : Return(c, b)
    BY <1>1, <2>1 DEF Dispatch, Invalid, Resolve, Throw, MarkRefused, StoreFails, Crash, Return
  <2>2. CASE MarkFailed(c)
    BY <1>1, <1>4, <2>2 DEF MarkFailed
  <2> QED
    BY <1>3, <1>7, <2>1, <2>2 DEF CallStep
<1>8. ASSUME PruneStep PROVE Same
  <2>1. CASE \E keys \in (SUBSET ExpiredKeys) \ {{}} : Prune(keys) \/ PruneList(keys)
    <3>1. PICK keys \in (SUBSET ExpiredKeys) \ {{}} : Prune(keys) \/ PruneList(keys)
      BY <2>1
    <3>2. CASE Prune(keys)
      BY <1>5, <3>2
    <3>3. CASE PruneList(keys)
      BY <1>1, <3>3 DEF PruneList
    <3> QED
      BY <3>1, <3>2, <3>3
  <2>2. CASE \E k \in pruning : PruneRemove(k) \/ PruneUndone(k)
    <3>1. PICK k \in pruning : PruneRemove(k) \/ PruneUndone(k)
      BY <2>2
    <3>2. CASE PruneRemove(k)
      BY <1>6, <3>2
    <3>3. CASE PruneUndone(k)
      BY <1>1, <3>3 DEF PruneUndone
    <3> QED
      BY <3>1, <3>2, <3>3
  <2> QED
    BY <1>8, <2>1, <2>2, PruneCases
<1>9. ASSUME Tick \/ UNCHANGED vars PROVE Same
  BY <1>1, <1>9 DEF Tick, vars
<1> QED
  BY <1>7, <1>8, <1>9 DEF Next, Same

(***************************************************************************)
(* A step returns a result that the store holds after it, and leaves a     *)
(* store whose responses were all returned.                                *)
(***************************************************************************)
LEMMA AgreeStep ==
  TypeOK /\ ResponseStored /\ AnsweredLast /\ StoredWasReturned /\ [Next]_vars =>
    ReturnsStored /\ StoredWasReturned'
<1> SUFFICES ASSUME TypeOK, ResponseStored, AnsweredLast, StoredWasReturned, [Next]_vars
             PROVE  ReturnsStored /\ StoredWasReturned'
  OBVIOUS
<1>k. \A c \in Calls : KeyOf(c) \in Keys /\ command'[c].key = KeyOf(c)
  BY ReturnedStays DEF TypeOK, Commands, KeyOf
<1>r. \A c \in Calls : answer[c] \in Calls => answer'[c] = answer[c] /\ sound'[c] = sound[c]
  BY ReturnedStays
<1>1. ASSUME NEW c \in Calls, MarkSucceeded(c) PROVE ReturnsStored /\ StoredWasReturned'
  <2> DEFINE new == Marked(records[KeyOf(c)], "succeeded", c, markAt[c])
  <2>1. records[KeyOf(c)] \in Records /\ markAt[c] \in Nat
    BY <1>1, <1>k, CommandBusAssumption DEF MarkSucceeded, TypeOK
  <2>2. new \in Records /\ new.status = "succeeded" /\ new.response = c
    BY <2>1, MarkedSucceededType
  <2>3. new # None
    BY <2>2, NoneAssumption
  <2>4. /\ records' = [records EXCEPT ![KeyOf(c)] = new]
        /\ answer' = [answer EXCEPT ![c] = c]
        /\ sound[c] /\ sound' = sound /\ command' = command
    BY <1>1 DEF MarkSucceeded, Answer
  <2> HIDE DEF new
  <2>5. /\ records'[KeyOf(c)] = new
        /\ \A k \in Keys \ {KeyOf(c)} : records'[k] = records[k]
        /\ answer'[c] = c
        /\ \A d \in Calls \ {c} : answer'[d] = answer[d]
    BY <1>k, <2>4 DEF TypeOK
  <2>6. ReturnsStored
    <3> SUFFICES ASSUME NEW d \in Calls, answer'[d] \in Calls, answer[d] = "none"
                 PROVE  /\ records'[KeyOf(d)] # None
                        /\ records'[KeyOf(d)].status = "succeeded"
                        /\ records'[KeyOf(d)].response = answer'[d]
      BY DEF ReturnsStored
    <3>1. d = c
      BY <2>5, ErrorsAreNoCalls
    <3> QED
      BY <2>2, <2>3, <2>5, <3>1
  <2>7. StoredWasReturned'
    <3> SUFFICES ASSUME NEW k \in Keys, records'[k] # None, records'[k].status = "succeeded"
                 PROVE  LET d == records'[k].response
                        IN  command'[d].key = k /\ answer'[d] = d /\ sound'[d]
      BY DEF StoredWasReturned, KeyOf
    <3>1. CASE k = KeyOf(c)
      BY <1>k, <2>2, <2>4, <2>5, <3>1
    <3>2. CASE k # KeyOf(c)
      <4>1. records'[k] = records[k]
        BY <2>5, <3>2
      <4> DEFINE d == records[k].response
      <4>2. d \in Calls /\ KeyOf(d) = k /\ answer[d] = d /\ sound[d]
        BY <4>1 DEF StoredWasReturned, ResponseStored
      <4> QED
        BY <1>k, <1>r, <4>1, <4>2
    <3> QED
      BY <3>1, <3>2
  <2> QED
    BY <2>6, <2>7
<1>2. CASE \A c \in Calls : ~MarkSucceeded(c)
  <2>1. \A k \in Keys :
          records'[k] # None /\ records'[k].status = "succeeded" => records'[k] = records[k]
    BY <1>2, StoresNothing
  <2>2. StoredWasReturned'
    <3> SUFFICES ASSUME NEW k \in Keys, records'[k] # None, records'[k].status = "succeeded"
                 PROVE  LET d == records'[k].response
                        IN  command'[d].key = k /\ answer'[d] = d /\ sound'[d]
      BY DEF StoredWasReturned, KeyOf
    <3>1. records'[k] = records[k]
      BY <2>1
    <3> DEFINE d == records[k].response
    <3>2. d \in Calls /\ KeyOf(d) = k /\ answer[d] = d /\ sound[d]
      BY <3>1 DEF StoredWasReturned, ResponseStored
    <3> QED
      BY <1>k, <1>r, <3>1, <3>2
  <2>3. ReturnsStored
    <3> SUFFICES ASSUME NEW d \in Calls, answer'[d] \in Calls, answer[d] = "none"
                 PROVE  /\ records'[KeyOf(d)] # None
                        /\ records'[KeyOf(d)].status = "succeeded"
                        /\ records'[KeyOf(d)].response = answer'[d]
      BY DEF ReturnsStored
    <3>1. answer' # answer
      BY ErrorsAreNoCalls
    <3>2. PICK c \in Calls : Resolve(c) \/ \E a \in Errors : Answer(c, a)
      <4>1. ASSUME NEW c \in Calls, CallStep(c)
            PROVE  Resolve(c) \/ \E a \in Errors : Answer(c, a)
        BY <1>2, <3>1, <4>1
           DEF CallStep, Dispatch, Invalid, Begin, Return, Throw, MarkRefused, MarkFailed,
               StoreFails, Crash, Errors
      <4>2. ~Tick /\ ~PruneStep /\ ~UNCHANGED vars
        BY <3>1 DEF Tick, PruneStep, Prune, PruneList, PruneRemove, PruneUndone, vars
      <4> QED
        BY <4>1, <4>2 DEF Next
    <3>3. d = c
      BY <3>2, ErrorsAreNoCalls DEF Resolve, Answer, TypeOK
    <3>4. Resolve(d)
      BY <3>2, <3>3, ErrorsAreNoCalls DEF Answer, TypeOK
    <3> DEFINE record == records[KeyOf(d)]
    <3>5. record \in Records /\ record # None /\ records' = records
      BY <1>k, <3>4 DEF Resolve, MayStart, TypeOK
    <3>6. answer'[d] = Resolution(d, record)
      BY <3>4 DEF Resolve, Answer, TypeOK
    <3>7. record.status = "succeeded" /\ Resolution(d, record) = record.response
      <4>1. Resolution(d, record) \notin Errors
        BY <3>6, ErrorsAreNoCalls
      <4>2. record.status \in Statuses
        BY <3>5 DEF Records
      <4> HIDE DEF record
      <4> QED
        BY <4>1, <4>2 DEF Resolution, Errors, Statuses
    <3> QED
      BY <3>5, <3>6, <3>7
  <2> QED
    BY <2>2, <2>3
<1> QED
  BY <1>1, <1>2

(***************************************************************************)
(* Whatever leases, pruning, crashes and failing store calls do, clients   *)
(* and the store agree: what is stored as succeeded was returned, and what *)
(* is returned is stored.                                                  *)
(***************************************************************************)
THEOREM Agreement == Spec => ClientsAndStoreAgree
<1>1. Init => AnsweredLast /\ StoredWasReturned
  BY DEF Init, AnsweredLast, StoredWasReturned
<1>2. TypeOK /\ AnsweredLast /\ [Next]_vars => AnsweredLast'
  BY AnsweredStep
<1>3. TypeOK /\ ResponseStored /\ [Next]_vars => TypeOK' /\ ResponseStored'
  BY TypeStep
<1>4. TypeOK /\ ResponseStored /\ AnsweredLast /\ StoredWasReturned /\ [Next]_vars =>
        ReturnsStored /\ StoredWasReturned'
  BY AgreeStep
<1> QED
  BY <1>1, <1>2, <1>3, <1>4, TypeInit, ResponseInit, PTL DEF Spec, ClientsAndStoreAgree
=============================================================================
