---------------------------- MODULE OutboxProofs ----------------------------
(***************************************************************************)
(* Theorems about Outbox, for any number of workers, messages, attempts    *)
(* and faults: type correctness, exclusive claims, final outcomes, bounded *)
(* attempts, delayed retries, delivery and what strands a message.         *)
(***************************************************************************)
EXTENDS Outbox, WellFoundedInduction, TLAPS

\* What First chooses of a set of messages is one of them.
LEMMA FirstIn ==
  ASSUME NEW S \in SUBSET Messages, S # {}
  PROVE  First(S) \in S
<1>0. S \subseteq Nat
  BY OutboxAssumption DEF Messages
<1>1. \A m, n \in Nat : <<n, m>> \in OpToRel(<, Nat) <=> n < m
  BY DEF OpToRel
<1>2. PICK m \in S : \A n \in S : ~(<<n, m>> \in OpToRel(<, Nat))
  BY <1>0, NatLessThanWellFounded, WFMin
<1>3. ASSUME NEW n \in S PROVE m <= n
  <2>1. ~(<<n, m>> \in OpToRel(<, Nat))
    BY <1>2
  <2>2. ~(n < m) /\ m \in Nat /\ n \in Nat
    BY <1>0, <1>1, <2>1
  <2> QED
    BY <2>2
<1> QED
  BY <1>3 DEF First

\* What the four ways to write a message back make of its fields.
LEMMA Written ==
  ASSUME NEW x \in OutboxMessages, NEW t \in Nat
  PROVE  /\ Publishing(x) \in OutboxMessages
         /\ Publishing(x).status = "publishing" /\ Publishing(x).attempts = x.attempts
         /\ [x EXCEPT !.status = "published"] \in OutboxMessages
         /\ [x EXCEPT !.status = "published"].status = "published"
         /\ Failed(x, t) \in OutboxMessages
         /\ Failed(x, t).attempts = x.attempts + 1
         /\ Failed(x, t).status = IF x.attempts + 1 >= MaxAttempts THEN "dead" ELSE "failed"
BY OutboxAssumption DEF Failed, Publishing, OutboxMessages, Statuses

\* A worker that publishes or saves holds a message; one that is idle holds none.
Busy ==
  \A w \in Workers :
    /\ pc[w] \in {"publish", "save", "catch"} => Held(w) # {}
    /\ pc[w] = "idle" => Held(w) = {}

TypeInv == TypeOK /\ Busy

\* The initial state is well typed, and nobody holds a message.
LEMMA TypeInit == Init => TypeInv
<1> SUFFICES ASSUME Init PROVE TypeInv
  OBVIOUS
<1>1. TypeOK
  BY OutboxAssumption DEF Init, TypeOK, PCs, Nothing
<1>2. Busy
  BY DEF Init, Busy, Held, Nothing
<1> QED
  BY <1>1, <1>2 DEF TypeInv

\* The message a worker is at is one it holds.
LEMMA CurrentHeld ==
  ASSUME TypeInv, NEW w \in Workers, pc[w] \in {"publish", "save", "catch"}
  PROVE  /\ Current(w) \in Messages
         /\ held[w][Current(w)] # None /\ held[w][Current(w)] \in OutboxMessages
<1>1. Held(w) \subseteq Messages /\ Held(w) # {}
  BY DEF TypeInv, Busy, Held
<1>2. Current(w) \in Held(w)
  BY <1>1, FirstIn DEF Current
<1> QED
  BY <1>2 DEF Held, TypeInv, TypeOK

(***************************************************************************)
(* What the actions that touch the repository or the copies do.            *)
(***************************************************************************)
\* createOutboxMessage
LEMMA EnqueueStep ==
  ASSUME TypeInv, Enqueue
  PROVE  \E m \in Messages :
           /\ outbox[m] = None
           /\ outbox' = [outbox EXCEPT ![m] =
                           [status |-> "pending", attempts |-> 0, availableAt |-> now]]
           /\ UNCHANGED <<now, pc, claimNow, candidates, held, tries, deliveries, refusals,
                          faults>>
<1>1. Messages \ Saved # {} /\ Messages \ Saved \subseteq Messages
  BY DEF Enqueue, Saved
<1>2. First(Messages \ Saved) \in Messages \ Saved
  BY <1>1, FirstIn
<1> QED
  BY <1>2 DEF Enqueue, Saved

\* A claim either takes one due message or passes it over.
LEMMA ClaimStep ==
  ASSUME TypeInv, NEW w \in Workers, Claim(w)
  PROVE  /\ pc[w] = "claim"
         /\ candidates' \in [Workers -> SUBSET Messages]
         /\ UNCHANGED <<now, pc, claimNow, tries, deliveries, refusals, faults>>
         /\ \/ UNCHANGED <<outbox, held>>
            \/ \E m \in Messages :
                 /\ IsDue(outbox[m], claimNow[w])
                 /\ outbox[m] \in OutboxMessages
                 /\ outbox' = [outbox EXCEPT ![m] = Publishing(outbox[m])]
                 /\ held' = [held EXCEPT ![w][m] = Publishing(outbox[m])]
<1>1. First(candidates[w]) \in candidates[w] /\ candidates[w] \subseteq Messages
  BY FirstIn DEF Claim, TypeInv, TypeOK
<1> DEFINE m == First(candidates[w])
<1>2. candidates' \in [Workers -> SUBSET Messages]
  BY <1>1 DEF Claim, TypeInv, TypeOK
<1>3. CASE IsDue(outbox[m], claimNow[w])
  BY <1>1, <1>2, <1>3 DEF Claim, IsDue, TypeInv, TypeOK
<1>4. CASE ~IsDue(outbox[m], claimNow[w])
  BY <1>2, <1>4 DEF Claim
<1> QED
  BY <1>3, <1>4

\* A save ends the work on one message.
LEMMA SaveStep ==
  ASSUME TypeInv, NEW w \in Workers, SavePublished(w) \/ SaveFailed(w)
  PROVE  LET m == Current(w)
         IN  /\ m \in Messages
             /\ held[w][m] # None /\ held[w][m] \in OutboxMessages
             /\ \/ /\ pc[w] = "save"
                   /\ outbox' = [outbox EXCEPT ![m] = [held[w][m] EXCEPT !.status = "published"]]
                \/ /\ pc[w] = "catch"
                   /\ outbox' = [outbox EXCEPT ![m] = Failed(held[w][m], now)]
             /\ held' = [held EXCEPT ![w][m] = None]
             /\ \/ pc' = [pc EXCEPT ![w] = "idle"] /\ Held(w) = {m}
                \/ pc' = [pc EXCEPT ![w] = "publish"] /\ Held(w) # {m}
             /\ UNCHANGED <<now, claimNow, candidates, tries, deliveries, refusals, faults>>
<1>1. pc[w] \in {"save", "catch"}
  BY DEF SavePublished, SaveFailed
<1>2. /\ Current(w) \in Messages
      /\ held[w][Current(w)] # None /\ held[w][Current(w)] \in OutboxMessages
  BY <1>1, CurrentHeld
<1> QED
  BY <1>2 DEF SavePublished, SaveFailed, NextMessage, Goto

\* A publisher accepts or throws, or a save throws: only the worker goes on.
Calling(w) == Publish(w) \/ Refuse(w) \/ SavePublishedFails(w)

\* The three leave the repository and the copies alone.
LEMMA CallingStep ==
  ASSUME TypeInv, NEW w \in Workers, Calling(w)
  PROVE  /\ UNCHANGED <<now, outbox, claimNow, candidates, held>>
         /\ Current(w) \in Messages
         /\ pc[w] \in {"publish", "save"}
         /\ pc'[w] \in {"save", "catch"} /\ pc' = [pc EXCEPT ![w] = pc'[w]]
BY CurrentHeld DEF Calling, Publish, Refuse, SavePublishedFails, Goto, TypeInv, TypeOK

-----------------------------------------------------------------------------
\* Every step keeps the types, and workers at work hold a message.
LEMMA TypeStep == TypeInv /\ [Next]_vars => TypeInv'
<1> SUFFICES ASSUME TypeInv, [Next]_vars PROVE TypeInv'
  OBVIOUS
<1> USE OutboxAssumption DEF TypeInv
<1>1. CASE UNCHANGED vars
  BY <1>1 DEF vars, TypeOK, Busy, Held
<1>2. CASE Tick
  BY <1>2 DEF Tick, TypeOK, Busy, Held
<1>3. CASE Enqueue
  <2>1. PICK m \in Messages : outbox' = [outbox EXCEPT ![m] =
                           [status |-> "pending", attempts |-> 0, availableAt |-> now]]
    BY <1>3, EnqueueStep
  <2>2. [status |-> "pending", attempts |-> 0, availableAt |-> now] \in OutboxMessages
    BY DEF TypeOK, OutboxMessages, Statuses
  <2>3. TypeOK'
    BY <1>3, <2>1, <2>2 DEF Enqueue, TypeOK
  <2> QED
    BY <1>3, <2>3 DEF Enqueue, Busy, Held
<1>4. ASSUME NEW w \in Workers, Begin(w) PROVE TypeInv'
  <2>1. PICK limit \in Limits : candidates' = [candidates EXCEPT ![w] =
                       Slice({m \in Messages : IsDue(outbox[m], now)}, limit)]
    BY <1>4 DEF Begin
  <2>2. Slice({m \in Messages : IsDue(outbox[m], now)}, limit) \subseteq Messages
    BY DEF Slice
  <2>3. TypeOK'
    BY <1>4, <2>1, <2>2 DEF Begin, Goto, TypeOK, PCs
  <2> QED
    BY <1>4, <2>3 DEF Begin, Goto, Busy, Held, TypeOK
<1>5. ASSUME NEW w \in Workers, Claim(w) PROVE TypeInv'
  <2>1. CASE UNCHANGED <<outbox, held>>
    BY <1>5, <2>1, ClaimStep DEF TypeOK, Busy, Held
  <2>2. CASE ~UNCHANGED <<outbox, held>>
    <3>1. PICK m \in Messages :
            /\ outbox[m] \in OutboxMessages
            /\ outbox' = [outbox EXCEPT ![m] = Publishing(outbox[m])]
            /\ held' = [held EXCEPT ![w][m] = Publishing(outbox[m])]
      BY <1>5, <2>2, ClaimStep
    <3>2. Publishing(outbox[m]) \in OutboxMessages
      BY <3>1, Written
    <3>3. TypeOK'
      BY <1>5, <3>1, <3>2, ClaimStep DEF TypeOK
    <3>4. pc[w] = "claim" /\ pc' = pc /\ \A v \in Workers : v # w => held'[v] = held[v]
      BY <1>5, <3>1, ClaimStep DEF TypeOK
    <3> QED
      BY <3>3, <3>4 DEF Busy, Held
  <2> QED
    BY <2>1, <2>2
<1>6. ASSUME NEW w \in Workers, Claimed(w) PROVE TypeInv'
  BY <1>6 DEF Claimed, Goto, TypeOK, PCs, Busy, Held
<1>7. ASSUME NEW w \in Workers, Calling(w) PROVE TypeInv'
  <2>1. /\ UNCHANGED <<now, outbox, claimNow, candidates, held>>
        /\ Current(w) \in Messages
        /\ pc[w] \in {"publish", "save"}
        /\ pc'[w] \in {"save", "catch"} /\ pc' = [pc EXCEPT ![w] = pc'[w]]
    BY <1>7, CallingStep
  <2>2. /\ tries' \in [Messages -> Nat] /\ deliveries' \in [Messages -> Nat]
        /\ refusals' \in 0..MaxRefusals /\ faults' \in 0..MaxFaults
    BY <1>7, <2>1 DEF Calling, Publish, Refuse, SavePublishedFails, Fault, TypeOK
  <2>3. TypeOK'
    BY <2>1, <2>2 DEF TypeOK, PCs
  <2> QED
    BY <2>1, <2>3 DEF TypeOK, Busy, Held
<1>8. ASSUME NEW w \in Workers, SavePublished(w) \/ SaveFailed(w) PROVE TypeInv'
  <2> DEFINE m == Current(w)
  <2>1. /\ m \in Messages
        /\ held[w][m] # None /\ held[w][m] \in OutboxMessages
        /\ \/ outbox' = [outbox EXCEPT ![m] = [held[w][m] EXCEPT !.status = "published"]]
           \/ outbox' = [outbox EXCEPT ![m] = Failed(held[w][m], now)]
        /\ held' = [held EXCEPT ![w][m] = None]
        /\ \/ pc' = [pc EXCEPT ![w] = "idle"] /\ Held(w) = {m}
           \/ pc' = [pc EXCEPT ![w] = "publish"] /\ Held(w) # {m}
        /\ UNCHANGED <<now, claimNow, candidates, tries, deliveries, refusals, faults>>
    BY <1>8, SaveStep
  <2> HIDE DEF m
  <2>2. /\ [held[w][m] EXCEPT !.status = "published"] \in OutboxMessages
        /\ Failed(held[w][m], now) \in OutboxMessages
    <3>1. now \in Nat
      BY DEF TypeOK
    <3> QED
      BY <2>1, <3>1, Written
  <2>3. outbox' \in [Messages -> OutboxMessages \cup {None}]
    BY <2>1, <2>2 DEF TypeOK
  <2>4. /\ held' \in [Workers -> [Messages -> OutboxMessages \cup {None}]]
        /\ pc' \in [Workers -> PCs]
    BY <2>1 DEF TypeOK, PCs
  <2>5. Held(w)' = Held(w) \ {m} /\ \A v \in Workers : v # w => Held(v)' = Held(v)
    BY <2>1 DEF Held, TypeOK
  <2>6. m \in Held(w)
    BY <2>1 DEF Held
  <2>7. Busy'
    BY <2>1, <2>5, <2>6 DEF Busy, TypeOK
  <2> QED
    BY <2>1, <2>3, <2>4, <2>7 DEF TypeOK
<1>9. ASSUME NEW w \in Workers, Abort(w) PROVE TypeInv'
  <2>1. TypeOK'
    BY <1>9 DEF Abort, Fault, Goto, TypeOK, PCs, Nothing
  <2> QED
    BY <1>9, <2>1 DEF Abort, Goto, Nothing, Busy, Held, TypeOK
<1> QED
  BY <1>1, <1>2, <1>3, <1>4, <1>5, <1>6, <1>7, <1>8, <1>9 DEF Next, Run, Calling

\* Every variable keeps its type: messages stay whole, whoever writes them back.
THEOREM TypeCorrect == Spec => []TypeOK
<1>1. Spec => []TypeInv
  BY TypeInit, TypeStep, PTL DEF Spec
<1>2. TypeInv => TypeOK
  BY DEF TypeInv
<1> QED
  BY <1>1, <1>2, PTL

-----------------------------------------------------------------------------
\* The worker has called the publisher for the message and not yet saved the outcome.
At(w, m) == pc[w] \in {"save", "catch"} /\ m = Current(w)

\* A worker that holds the same messages is at the same one.
LEMMA SameCurrent ==
  ASSUME NEW w \in Workers, held'[w] = held[w]
  PROVE  Current(w)' = Current(w)
BY DEF Current, Held

\* Time passes, a run begins, or a run turns to what it has claimed.
Quiet == UNCHANGED vars \/ Tick \/ \E w \in Workers : Begin(w) \/ Claimed(w)

\* None of these steps touches a message or a copy, or calls anything.
LEMMA QuietStep ==
  ASSUME TypeInv, Quiet
  PROVE  /\ UNCHANGED <<outbox, held, tries, deliveries, faults>>
         /\ \A w \in Workers : pc'[w] = pc[w] \/ (/\ pc[w] \in {"idle", "claim"}
                                                 /\ pc'[w] \notin {"save", "catch"})
         /\ \A w \in Workers, m \in Messages : (At(w, m)' <=> At(w, m))
<1>1. /\ UNCHANGED <<outbox, held, tries, deliveries, faults>>
      /\ \A w \in Workers : pc'[w] = pc[w] \/ (/\ pc[w] \in {"idle", "claim"}
                                              /\ pc'[w] \notin {"save", "catch"})
  BY DEF Quiet, vars, Tick, Begin, Claimed, Goto, TypeInv, TypeOK
<1>2. \A w \in Workers : Current(w)' = Current(w)
  BY <1>1, SameCurrent
<1> QED
  BY <1>1, <1>2 DEF At

(***************************************************************************)
(* Every step is one of six kinds.                                         *)
(***************************************************************************)
LEMMA Kinds ==
  ASSUME [Next]_vars
  PROVE  \/ Quiet \/ Enqueue
         \/ \E w \in Workers : \/ Claim(w) \/ Calling(w) \/ Abort(w)
                              \/ SavePublished(w) \/ SaveFailed(w)
BY DEF Quiet, Next, Run, Calling

\* The copies are claims: they equal the stored messages, which are being published.
Copies ==
  /\ ClaimsExclusive
  /\ \A w \in Workers, m \in Messages : held[w][m] # None => outbox[m].status = "publishing"

\* No step breaks the claims.
LEMMA CopiesStep == TypeInv /\ Copies /\ [Next]_vars => Copies'
<1> SUFFICES ASSUME TypeInv, Copies, [Next]_vars PROVE Copies'
  OBVIOUS
<1> USE DEF Copies, ClaimsExclusive
<1>1. CASE Quiet
  BY <1>1, QuietStep
<1>2. CASE Enqueue
  <2>1. PICK m \in Messages :
           /\ outbox[m] = None
           /\ outbox' = [outbox EXCEPT ![m] =
                           [status |-> "pending", attempts |-> 0, availableAt |-> now]]
           /\ held' = held
    BY <1>2, EnqueueStep
  <2>2. \A n \in Messages : n # m => outbox'[n] = outbox[n]
    BY <2>1 DEF TypeInv, TypeOK
  <2>3. \A w \in Workers : held[w][m] = None
    BY <2>1
  <2> QED
    BY <2>1, <2>2, <2>3
<1>3. ASSUME NEW w \in Workers, Claim(w) PROVE Copies'
  <2>1. CASE UNCHANGED <<outbox, held>>
    BY <2>1
  <2>2. CASE ~UNCHANGED <<outbox, held>>
    <3>1. PICK m \in Messages :
            /\ IsDue(outbox[m], claimNow[w])
            /\ outbox[m] \in OutboxMessages
            /\ outbox' = [outbox EXCEPT ![m] = Publishing(outbox[m])]
            /\ held' = [held EXCEPT ![w][m] = Publishing(outbox[m])]
      BY <1>3, <2>2, ClaimStep
    <3>2. /\ outbox'[m] = Publishing(outbox[m]) /\ held'[w][m] = Publishing(outbox[m])
          /\ \A n \in Messages : n # m => outbox'[n] = outbox[n]
          /\ \A v \in Workers, n \in Messages : v # w \/ n # m => held'[v][n] = held[v][n]
      BY <3>1 DEF TypeInv, TypeOK
    <3>3. \A v \in Workers : held[v][m] = None
      BY <3>1 DEF IsDue
    <3>4. Publishing(outbox[m]).status = "publishing"
      BY <3>1 DEF Publishing, OutboxMessages
    <3> QED
      BY <3>2, <3>3, <3>4
  <2> QED
    BY <2>1, <2>2
<1>4. ASSUME NEW w \in Workers, Calling(w) PROVE Copies'
  BY <1>4, CallingStep
<1>5. ASSUME NEW w \in Workers, SavePublished(w) \/ SaveFailed(w) PROVE Copies'
  <2>1. PICK m \in Messages :
          /\ held[w][m] # None
          /\ \E x : outbox' = [outbox EXCEPT ![m] = x]
          /\ held' = [held EXCEPT ![w][m] = None]
    BY <1>5, SaveStep
  <2>2. /\ \A n \in Messages : n # m => outbox'[n] = outbox[n]
        /\ held'[w][m] = None
        /\ \A v \in Workers, n \in Messages : v # w \/ n # m => held'[v][n] = held[v][n]
    BY <2>1 DEF TypeInv, TypeOK
  <2>3. \A v \in Workers : held'[v][m] = None
    BY <2>1, <2>2
  <2> QED
    BY <2>2, <2>3
<1>6. ASSUME NEW w \in Workers, Abort(w) PROVE Copies'
  BY <1>6 DEF Abort, Nothing, TypeInv, TypeOK
<1> QED
  BY <1>1, <1>2, <1>3, <1>4, <1>5, <1>6, Kinds

\* The clock reading a run claims with lies in the past.
Timely == \A w \in Workers : claimNow[w] <= now

\* Nobody turns the clock back.
LEMMA TimelyStep == TypeInv /\ Timely /\ [Next]_vars => Timely'
<1> SUFFICES ASSUME TypeInv, Timely, [Next]_vars PROVE Timely'
  OBVIOUS
<1>1. CASE UNCHANGED <<now, claimNow>>
  BY <1>1 DEF Timely
<1>2. CASE Tick
  BY <1>2, OutboxAssumption DEF Tick, Timely, TypeInv, TypeOK
<1>3. CASE \E w \in Workers : Begin(w)
  BY <1>3, OutboxAssumption DEF Begin, Timely, TypeInv, TypeOK
<1> QED
  BY <1>1, <1>2, <1>3 DEF Next, Run, vars, Enqueue, Claim, Claimed, Publish, Refuse, SavePublished,
     SavePublishedFails, SaveFailed, Abort

-----------------------------------------------------------------------------
\* The attempts a message tells of are the calls that were made for it.
Counted ==
  \A m \in Messages :
    /\ outbox[m] = None => tries[m] = 0 /\ deliveries[m] = 0
    /\ outbox[m] # None =>
         /\ outbox[m].status \in {"pending", "failed"} =>
              tries[m] = outbox[m].attempts /\ tries[m] < MaxAttempts
         /\ outbox[m].status = "dead" => tries[m] = MaxAttempts
         /\ outbox[m].status = "published" => tries[m] <= MaxAttempts /\ deliveries[m] >= 1
         /\ outbox[m].status = "publishing" =>
              /\ outbox[m].attempts < MaxAttempts
              /\ tries[m] \in {outbox[m].attempts, outbox[m].attempts + 1}

\* A copy is one call behind while the outcome of that call is not saved.
Tried ==
  \A w \in Workers, m \in Messages :
    held[w][m] # None =>
      /\ At(w, m) => tries[m] = held[w][m].attempts + 1
      /\ ~At(w, m) => tries[m] = held[w][m].attempts

\* Only a message that the publisher has accepted is saved as published.
Accepted == \A w \in Workers : pc[w] = "save" => deliveries[Current(w)] >= 1

Counting == Counted /\ Tried /\ Accepted

\* What a call does to the histories, and where it leaves the worker.
LEMMA CallCounts ==
  ASSUME TypeInv, NEW w \in Workers, Calling(w)
  PROVE  LET m == Current(w)
         IN  /\ m \in Messages /\ held[w][m] # None
             /\ \A n \in Messages : n # m => tries'[n] = tries[n] /\ deliveries'[n] = deliveries[n]
             /\ \A n \in Messages : deliveries'[n] \in Nat /\ deliveries'[n] >= deliveries[n]
             /\ (At(w, m) => tries'[m] = tries[m]) /\ (~At(w, m) => tries'[m] = tries[m] + 1)
             /\ pc'[w] = "save" => ~At(w, m) /\ deliveries'[m] = deliveries[m] + 1
             /\ pc'[w] # "save" => deliveries'[m] = deliveries[m]
             /\ pc[w] = "save" => faults' # 0
             /\ \A v \in Workers, n \in Messages :
                  At(v, n)' <=> IF v = w THEN n = m ELSE At(v, n)
<1>1. /\ Current(w) \in Messages /\ held[w][Current(w)] # None
      /\ pc[w] \in {"publish", "save"} /\ held' = held
      /\ pc'[w] \in {"save", "catch"} /\ pc' = [pc EXCEPT ![w] = pc'[w]]
  BY CallingStep, CurrentHeld
<1>2. \A v \in Workers : Current(v)' = Current(v)
  BY <1>1, SameCurrent
<1>3. \A v \in Workers, n \in Messages : (At(v, n)' <=> IF v = w THEN n = Current(w) ELSE At(v, n))
  BY <1>1, <1>2 DEF At, TypeInv, TypeOK
<1> DEFINE m == Current(w)
<1>4. m \in Messages /\ tries[m] \in Nat /\ deliveries \in [Messages -> Nat]
      /\ tries \in [Messages -> Nat] /\ faults \in Nat /\ pc \in [Workers -> PCs]
  BY <1>1, OutboxAssumption DEF TypeInv, TypeOK
<1>5. At(w, m) <=> pc[w] = "save"
  BY <1>1 DEF At
<1>6. CASE Publish(w)
  <2>1. /\ pc[w] = "publish" /\ pc'[w] = "save"
        /\ tries' = [tries EXCEPT ![m] = @ + 1] /\ deliveries' = [deliveries EXCEPT ![m] = @ + 1]
    BY <1>6, <1>4 DEF Publish, Goto
  <2> HIDE DEF m
  <2> QED
    BY <1>1, <1>3, <1>4, <1>5, <2>1 DEF m
<1>7. CASE Refuse(w)
  <2>1. /\ pc[w] = "publish" /\ pc'[w] = "catch"
        /\ tries' = [tries EXCEPT ![m] = @ + 1] /\ deliveries' = deliveries
    BY <1>7, <1>4 DEF Refuse, Goto
  <2> QED
    BY <1>1, <1>3, <1>4, <1>5, <2>1
<1>8. CASE SavePublishedFails(w)
  <2>1. /\ pc[w] = "save" /\ pc'[w] = "catch"
        /\ tries' = tries /\ deliveries' = deliveries /\ faults' = faults + 1
    BY <1>8, <1>4 DEF SavePublishedFails, Goto, Fault
  <2> QED
    BY <1>1, <1>3, <1>4, <1>5, <2>1
<1> QED
  BY <1>6, <1>7, <1>8 DEF Calling

\* What a save does: the worker is done with the message.
LEMMA SaveCounts ==
  ASSUME TypeInv, Copies, NEW w \in Workers, SavePublished(w) \/ SaveFailed(w)
  PROVE  LET m == Current(w)
         IN  /\ m \in Messages
             /\ held[w][m] \in OutboxMessages /\ held[w][m] # None /\ outbox[m] = held[w][m]
             /\ outbox[m].status = "publishing" /\ At(w, m)
             /\ outbox'[m] \in OutboxMessages
             /\ \/ pc[w] = "save" /\ outbox'[m].status = "published"
                \/ /\ pc[w] = "catch" /\ outbox'[m].attempts = outbox[m].attempts + 1
                   /\ outbox'[m].status =
                        IF outbox[m].attempts + 1 >= MaxAttempts THEN "dead" ELSE "failed"
             /\ \A n \in Messages : n # m => outbox'[n] = outbox[n]
             /\ \A v \in Workers : held'[v][m] = None
             /\ \A v \in Workers, n \in Messages : v # w \/ n # m => held'[v][n] = held[v][n]
             /\ pc'[w] \in {"idle", "publish"} /\ \A v \in Workers : v # w => pc'[v] = pc[v]
             /\ \A v \in Workers, n \in Messages : (At(v, n)' <=> v # w /\ At(v, n))
             /\ UNCHANGED <<tries, deliveries, faults>>
<1> DEFINE m == Current(w)
<1>1. /\ m \in Messages
      /\ held[w][m] # None /\ held[w][m] \in OutboxMessages
      /\ \/ /\ pc[w] = "save"
            /\ outbox' = [outbox EXCEPT ![m] = [held[w][m] EXCEPT !.status = "published"]]
         \/ /\ pc[w] = "catch"
            /\ outbox' = [outbox EXCEPT ![m] = Failed(held[w][m], now)]
      /\ held' = [held EXCEPT ![w][m] = None]
      /\ pc' = [pc EXCEPT ![w] = "idle"] \/ pc' = [pc EXCEPT ![w] = "publish"]
      /\ UNCHANGED <<tries, deliveries, faults>>
  BY SaveStep
<1>2. At(w, m)
  BY <1>1 DEF At
<1> HIDE DEF m
<1>3. outbox[m] = held[w][m] /\ outbox[m].status = "publishing"
      /\ \A v \in Workers \ {w} : held[v][m] = None
  BY <1>1 DEF Copies, ClaimsExclusive
<1>4. now \in Nat /\ outbox \in [Messages -> OutboxMessages \cup {None}]
  BY OutboxAssumption DEF TypeInv, TypeOK
<1>5. /\ outbox'[m] \in OutboxMessages
      /\ \/ pc[w] = "save" /\ outbox'[m].status = "published"
         \/ /\ pc[w] = "catch" /\ outbox'[m].attempts = outbox[m].attempts + 1
            /\ outbox'[m].status =
                 IF outbox[m].attempts + 1 >= MaxAttempts THEN "dead" ELSE "failed"
  <2>1. CASE outbox'[m] = [held[w][m] EXCEPT !.status = "published"] /\ pc[w] = "save"
    BY <1>1, <2>1, <1>4, Written
  <2>2. CASE outbox'[m] = Failed(held[w][m], now) /\ pc[w] = "catch"
    <3>1. /\ Failed(held[w][m], now) \in OutboxMessages
          /\ Failed(held[w][m], now).attempts = held[w][m].attempts + 1
          /\ Failed(held[w][m], now).status =
               IF held[w][m].attempts + 1 >= MaxAttempts THEN "dead" ELSE "failed"
      BY <1>1, <1>4, Written
    <3> QED
      BY <1>3, <2>2, <3>1
  <2> QED
    BY <1>1, <1>4, <2>1, <2>2
<1>6. /\ \A n \in Messages : n # m => outbox'[n] = outbox[n]
      /\ held'[w][m] = None
      /\ \A v \in Workers : v # w => held'[v] = held[v]
      /\ \A n \in Messages : n # m => held'[w][n] = held[w][n]
      /\ pc'[w] \in {"idle", "publish"} /\ \A v \in Workers : v # w => pc'[v] = pc[v]
  BY <1>1 DEF TypeInv, TypeOK
<1>7. \A v \in Workers : v # w => Current(v)' = Current(v)
  BY <1>6, SameCurrent
<1>8. \A v \in Workers, n \in Messages : (At(v, n)' <=> v # w /\ At(v, n))
  BY <1>6, <1>7 DEF At
<1>9. /\ \A v \in Workers : held'[v][m] = None
      /\ \A v \in Workers, n \in Messages : v # w \/ n # m => held'[v][n] = held[v][n]
  BY <1>3, <1>6
<1> USE DEF m
<1> QED
  BY <1>1, <1>2, <1>3, <1>5, <1>6, <1>8, <1>9

\* What a claim that takes a message does to the other pieces of state.
LEMMA ClaimTakes ==
  ASSUME TypeInv, Copies, NEW w \in Workers, Claim(w), ~UNCHANGED <<outbox, held>>
  PROVE  \E m \in Messages :
           /\ IsDue(outbox[m], claimNow[w])
           /\ outbox[m] # None /\ outbox[m] \in OutboxMessages
           /\ outbox[m].status \in {"pending", "failed"}
           /\ \A v \in Workers : held[v][m] = None
           /\ outbox'[m] # None /\ held'[w][m] = outbox'[m]
           /\ outbox'[m].status = "publishing" /\ outbox'[m].attempts = outbox[m].attempts
           /\ \A n \in Messages : n # m => outbox'[n] = outbox[n]
           /\ \A v \in Workers, n \in Messages : v # w \/ n # m => held'[v][n] = held[v][n]
           /\ ~At(w, m)'
           /\ \A v \in Workers, n \in Messages : (At(v, n)' <=> At(v, n))
<1>1. PICK m \in Messages :
            /\ IsDue(outbox[m], claimNow[w])
            /\ outbox[m] \in OutboxMessages
            /\ outbox' = [outbox EXCEPT ![m] = Publishing(outbox[m])]
            /\ held' = [held EXCEPT ![w][m] = Publishing(outbox[m])]
  BY ClaimStep
<1>2. pc[w] = "claim" /\ pc' = pc
  BY ClaimStep
<1>3. outbox[m] # None /\ outbox[m].status \in {"pending", "failed"}
  BY <1>1 DEF IsDue
<1>4. \A v \in Workers : held[v][m] = None
  BY <1>3 DEF Copies
<1>5. /\ outbox'[m] = Publishing(outbox[m]) /\ held'[w][m] = Publishing(outbox[m])
      /\ \A n \in Messages : n # m => outbox'[n] = outbox[n]
      /\ \A v \in Workers : v # w => held'[v] = held[v]
      /\ \A n \in Messages : n # m => held'[w][n] = held[w][n]
  BY <1>1 DEF TypeInv, TypeOK
<1>6. /\ Publishing(outbox[m]) \in OutboxMessages
      /\ Publishing(outbox[m]).status = "publishing"
      /\ Publishing(outbox[m]).attempts = outbox[m].attempts
  <2> 0 \in Nat
    OBVIOUS
  <2> QED
    BY <1>1, Written
<1>7. \A v \in Workers : v # w => Current(v)' = Current(v)
  BY <1>5, SameCurrent
<1>8. \A v \in Workers, n \in Messages : (At(v, n)' <=> At(v, n))
  BY <1>2, <1>7 DEF At
<1>9. ~At(w, m)'
  BY <1>2 DEF At
<1> QED
  BY <1>1, <1>3, <1>4, <1>5, <1>6, <1>8, <1>9, NoneAssumption

\* No step makes the histories and the attempts disagree.
LEMMA CountingStep == TypeInv /\ Copies /\ Counting /\ [Next]_vars => Counting'
<1> SUFFICES ASSUME TypeInv, Copies, Counting, [Next]_vars PROVE Counting'
  OBVIOUS
<1>0. /\ tries \in [Messages -> Nat] /\ deliveries \in [Messages -> Nat]
      /\ outbox \in [Messages -> OutboxMessages \cup {None}] /\ MaxAttempts \in Nat \ {0}
      /\ \A x \in OutboxMessages : x.attempts \in Nat
  BY OutboxAssumption DEF TypeInv, TypeOK, OutboxMessages
<1>1. CASE Quiet
  <2>1. \A w \in Workers : pc'[w] = "save" => pc[w] = "save"
    BY <1>1, QuietStep
  <2>2. \A w \in Workers : Current(w)' = Current(w)
    BY <1>1, QuietStep, SameCurrent
  <2>3. Counted'
    BY <1>1, QuietStep DEF Counting, Counted
  <2>4. Tried'
    BY <1>1, QuietStep DEF Counting, Tried
  <2>5. Accepted'
    BY <1>1, <2>1, <2>2, QuietStep DEF Counting, Accepted
  <2> QED
    BY <2>3, <2>4, <2>5 DEF Counting
<1>2. CASE Enqueue
  <2>1. PICK m \in Messages :
           /\ outbox[m] = None
           /\ outbox' = [outbox EXCEPT ![m] =
                           [status |-> "pending", attempts |-> 0, availableAt |-> now]]
           /\ UNCHANGED <<pc, held, tries, deliveries>>
    BY <1>2, EnqueueStep
  <2>2. outbox'[m].status = "pending" /\ outbox'[m].attempts = 0
        /\ \A n \in Messages : n # m => outbox'[n] = outbox[n]
    BY <1>0, <2>1
  <2>3. \A w \in Workers : Current(w)' = Current(w)
    BY <2>1, SameCurrent
  <2>4. Counted'
    BY <1>0, <2>1, <2>2 DEF Counting, Counted
  <2>5. \A w \in Workers, n \in Messages : (At(w, n)' <=> At(w, n))
    BY <2>1, <2>3 DEF At
  <2>6. Tried'
    BY <2>1, <2>5 DEF Counting, Tried
  <2> QED
    BY <2>1, <2>3, <2>4, <2>6 DEF Counting, Accepted
<1>3. ASSUME NEW w \in Workers, Claim(w) PROVE Counting'
  <2>0. pc[w] = "claim" /\ UNCHANGED <<pc, tries, deliveries>>
    BY <1>3, ClaimStep
  <2>1. \A v \in Workers : pc[v] = "save" => Current(v)' = Current(v)
    BY <1>3, <2>0, SameCurrent DEF Claim, TypeInv, TypeOK
  <2>2. Accepted'
    BY <2>0, <2>1 DEF Counting, Accepted
  <2>3. CASE UNCHANGED <<outbox, held>>
    <3>1. \A v \in Workers, n \in Messages : (At(v, n)' <=> At(v, n))
      BY <2>0, <2>3, SameCurrent DEF At
    <3> QED
      BY <2>0, <2>2, <2>3, <3>1 DEF Counting, Counted, Tried
  <2>4. CASE ~UNCHANGED <<outbox, held>>
    <3>1. PICK m \in Messages :
           /\ outbox[m] # None /\ outbox[m] \in OutboxMessages
           /\ outbox[m].status \in {"pending", "failed"}
           /\ \A v \in Workers : held[v][m] = None
           /\ outbox'[m] # None /\ held'[w][m] = outbox'[m]
           /\ outbox'[m].status = "publishing" /\ outbox'[m].attempts = outbox[m].attempts
           /\ \A n \in Messages : n # m => outbox'[n] = outbox[n]
           /\ \A v \in Workers, n \in Messages : v # w \/ n # m => held'[v][n] = held[v][n]
           /\ ~At(w, m)'
           /\ \A v \in Workers, n \in Messages : (At(v, n)' <=> At(v, n))
      BY <1>3, <2>4, ClaimTakes
    <3>2. Counted'
      BY <1>0, <2>0, <3>1 DEF Counting, Counted
    <3>3. tries[m] = outbox[m].attempts
      BY <3>1 DEF Counting, Counted
    <3>4. Tried'
      BY <1>0, <2>0, <3>1, <3>3 DEF Counting, Tried
    <3> QED
      BY <2>2, <3>2, <3>4 DEF Counting
  <2> QED
    BY <2>3, <2>4
<1>4. ASSUME NEW w \in Workers, Calling(w) PROVE Counting'
  <2> DEFINE m == Current(w)
  <2>1. /\ m \in Messages /\ held[w][m] # None
        /\ \A n \in Messages : n # m => tries'[n] = tries[n] /\ deliveries'[n] = deliveries[n]
        /\ \A n \in Messages : deliveries'[n] \in Nat /\ deliveries'[n] >= deliveries[n]
        /\ (At(w, m) => tries'[m] = tries[m]) /\ (~At(w, m) => tries'[m] = tries[m] + 1)
        /\ pc'[w] = "save" => ~At(w, m) /\ deliveries'[m] = deliveries[m] + 1
        /\ \A v \in Workers, n \in Messages : (At(v, n)' <=> IF v = w THEN n = m ELSE At(v, n))
    BY <1>4, CallCounts
  <2>2. /\ UNCHANGED <<outbox, held>>
        /\ pc'[w] \in {"save", "catch"} /\ \A v \in Workers : v # w => pc'[v] = pc[v]
    BY <1>4, CallingStep DEF TypeInv, TypeOK
  <2>3. \A v \in Workers : Current(v)' = Current(v)
    BY <2>2, SameCurrent
  <2>4. \A n \in Messages : n # m => ~At(w, n)
    BY DEF At
  <2>5. \A v \in Workers : pc[v] = "save" => Current(v) \in Messages
    BY CurrentHeld
  <2> HIDE DEF m
  <2>6. /\ outbox[m] = held[w][m] /\ outbox[m].status = "publishing" /\ outbox[m] \in OutboxMessages
        /\ \A v \in Workers : v # w => held[v][m] = None
    BY <1>0, <2>1 DEF Copies, ClaimsExclusive
  <2>7. /\ At(w, m) => tries[m] = outbox[m].attempts + 1
        /\ ~At(w, m) => tries[m] = outbox[m].attempts
    BY <2>1, <2>6 DEF Counting, Tried
  <2>8. Counted'
    BY <1>0, <2>1, <2>2, <2>6, <2>7 DEF Counting, Counted
  <2>9. tries'[m] = outbox[m].attempts + 1
    BY <1>0, <2>1, <2>6, <2>7
  <2>10. Tried'
    BY <1>0, <2>1, <2>2, <2>4, <2>6, <2>9 DEF Counting, Tried
  <2>11. Accepted'
    <3>1. ASSUME NEW v \in Workers, pc'[v] = "save" PROVE deliveries'[Current(v)'] >= 1
      <4>1. CASE v = w
        BY <1>0, <2>1, <2>3, <3>1, <4>1 DEF m
      <4>2. CASE v # w
        BY <1>0, <2>1, <2>2, <2>3, <2>5, <3>1, <4>2, OutboxAssumption DEF Counting, Accepted
      <4> QED
        BY <4>1, <4>2
    <3> QED
      BY <3>1 DEF Accepted
  <2> QED
    BY <2>8, <2>10, <2>11 DEF Counting
<1>5. ASSUME NEW w \in Workers, SavePublished(w) \/ SaveFailed(w) PROVE Counting'
  <2> DEFINE m == Current(w)
  <2>1. /\ m \in Messages
        /\ held[w][m] \in OutboxMessages /\ held[w][m] # None /\ outbox[m] = held[w][m]
        /\ outbox[m].status = "publishing" /\ At(w, m)
        /\ outbox'[m] \in OutboxMessages
        /\ \/ pc[w] = "save" /\ outbox'[m].status = "published"
           \/ /\ pc[w] = "catch" /\ outbox'[m].attempts = outbox[m].attempts + 1
              /\ outbox'[m].status =
                   IF outbox[m].attempts + 1 >= MaxAttempts THEN "dead" ELSE "failed"
        /\ \A n \in Messages : n # m => outbox'[n] = outbox[n]
        /\ \A v \in Workers : held'[v][m] = None
        /\ \A v \in Workers, n \in Messages : v # w \/ n # m => held'[v][n] = held[v][n]
        /\ pc'[w] \in {"idle", "publish"} /\ \A v \in Workers : v # w => pc'[v] = pc[v]
        /\ \A v \in Workers, n \in Messages : (At(v, n)' <=> v # w /\ At(v, n))
        /\ UNCHANGED <<tries, deliveries>>
    BY <1>5, SaveCounts
  <2>2. \A v \in Workers : v # w => Current(v)' = Current(v)
    BY <1>5, SameCurrent DEF SavePublished, SaveFailed, NextMessage, TypeInv, TypeOK
  <2>3. \A n \in Messages : n # m => ~At(w, n)
    BY DEF At
  <2>4. pc[w] = "save" => deliveries[m] >= 1
    BY DEF Counting, Accepted
  <2> HIDE DEF m
  <2>5. tries[m] = outbox[m].attempts + 1 /\ outbox[m].attempts < MaxAttempts /\ outbox[m] # None
    BY <2>1 DEF Counting, Tried, Counted
  <2>6. outbox[m].attempts \in Nat /\ outbox'[m] # None
    BY <1>0, <2>1, NoneAssumption
  <2>7. Counted'
    BY <1>0, <2>1, <2>4, <2>5, <2>6 DEF Counting, Counted
  <2>8. Tried'
    BY <1>0, <2>1, <2>3 DEF Counting, Tried
  <2>9. Accepted'
    BY <2>1, <2>2 DEF Counting, Accepted
  <2> QED
    BY <2>7, <2>8, <2>9 DEF Counting
<1>6. ASSUME NEW w \in Workers, Abort(w) PROVE Counting'
  <2>1. /\ pc'[w] = "idle" /\ \A v \in Workers : v # w => pc'[v] = pc[v] /\ held'[v] = held[v]
        /\ \A n \in Messages : held'[w][n] = None
        /\ UNCHANGED <<outbox, tries, deliveries>>
    BY <1>6 DEF Abort, Goto, Nothing, TypeInv, TypeOK
  <2>2. \A v \in Workers : v # w => Current(v)' = Current(v)
    BY <2>1, SameCurrent
  <2>3. \A v \in Workers, n \in Messages : v # w => (At(v, n)' <=> At(v, n))
    BY <2>1, <2>2 DEF At
  <2>4. Counted'
    BY <2>1 DEF Counting, Counted
  <2>5. Tried'
    BY <2>1, <2>3 DEF Counting, Tried
  <2>6. Accepted'
    BY <2>1, <2>2 DEF Counting, Accepted
  <2> QED
    BY <2>4, <2>5, <2>6 DEF Counting
<1> QED
  BY <1>1, <1>2, <1>3, <1>4, <1>5, <1>6, Kinds

-----------------------------------------------------------------------------
\* The publisher has accepted the message the worker is at.
Done(w, m) == pc[w] = "save" /\ m = Current(w)

(***************************************************************************)
(* Without a fault, an acceptance is followed by a save as published, and  *)
(* whatever is being published is held by somebody.                        *)
(***************************************************************************)
InTurn(m) ==
  /\ outbox[m] = None => deliveries[m] = 0
  /\ outbox[m] # None =>
       /\ outbox[m].status \in {"pending", "failed", "dead"} => deliveries[m] = 0
       /\ outbox[m].status = "published" => deliveries[m] = 1
       /\ outbox[m].status = "publishing" => \E w \in Workers : held[w][m] # None
  /\ \A w \in Workers :
       held[w][m] # None =>
         /\ Done(w, m) => deliveries[m] = 1
         /\ ~Done(w, m) => deliveries[m] = 0

Unfaulted == faults = 0 => \A m \in Messages : InTurn(m)

\* Only a fault breaks this.
LEMMA UnfaultedStep == TypeInv /\ Copies /\ Unfaulted /\ [Next]_vars => Unfaulted'
<1> SUFFICES ASSUME TypeInv, Copies, Unfaulted, [Next]_vars PROVE Unfaulted'
  OBVIOUS
<1>0. /\ deliveries \in [Messages -> Nat] /\ faults \in Nat
      /\ outbox \in [Messages -> OutboxMessages \cup {None}]
  BY OutboxAssumption DEF TypeInv, TypeOK
<1>1. CASE Quiet
  <2>1. \A w \in Workers : pc'[w] = "save" <=> pc[w] = "save"
    BY <1>1, QuietStep
  <2>2. \A w \in Workers : Current(w)' = Current(w)
    BY <1>1, QuietStep, SameCurrent
  <2>3. \A w \in Workers, m \in Messages : Done(w, m)' <=> Done(w, m)
    BY <2>1, <2>2 DEF Done
  <2> QED
    BY <1>1, <2>3, QuietStep DEF Unfaulted, InTurn
<1>2. CASE Enqueue
  <2>1. PICK m \in Messages :
           /\ outbox[m] = None
           /\ outbox' = [outbox EXCEPT ![m] =
                           [status |-> "pending", attempts |-> 0, availableAt |-> now]]
           /\ UNCHANGED <<pc, held, deliveries, faults>>
    BY <1>2, EnqueueStep
  <2>2. outbox'[m].status = "pending" /\ \A n \in Messages : n # m => outbox'[n] = outbox[n]
    BY <1>0, <2>1
  <2>3. \A w \in Workers : Current(w)' = Current(w)
    BY <2>1, SameCurrent
  <2>4. \A w \in Workers, n \in Messages : Done(w, n)' <=> Done(w, n)
    BY <2>1, <2>3 DEF Done
  <2>5. outbox'[m] # None
    BY <1>0, <2>1, NoneAssumption DEF TypeInv, TypeOK, OutboxMessages, Statuses
  <2> QED
    BY <2>1, <2>2, <2>4, <2>5 DEF Unfaulted, InTurn
<1>3. ASSUME NEW w \in Workers, Claim(w) PROVE Unfaulted'
  <2>0. pc[w] = "claim" /\ UNCHANGED <<pc, deliveries, faults>>
    BY <1>3, ClaimStep
  <2>1. \A v \in Workers : pc[v] = "save" => Current(v)' = Current(v)
    BY <1>3, <2>0, SameCurrent DEF Claim, TypeInv, TypeOK
  <2>2. \A v \in Workers, n \in Messages : Done(v, n)' <=> Done(v, n)
    BY <2>0, <2>1 DEF Done
  <2>3. CASE UNCHANGED <<outbox, held>>
    BY <2>0, <2>2, <2>3 DEF Unfaulted, InTurn
  <2>4. CASE ~UNCHANGED <<outbox, held>>
    <3>1. PICK m \in Messages :
           /\ outbox[m] # None
           /\ outbox[m].status \in {"pending", "failed"}
           /\ \A v \in Workers : held[v][m] = None
           /\ outbox'[m] # None /\ held'[w][m] = outbox'[m]
           /\ outbox'[m].status = "publishing"
           /\ \A n \in Messages : n # m => outbox'[n] = outbox[n]
           /\ \A v \in Workers, n \in Messages : v # w \/ n # m => held'[v][n] = held[v][n]
      BY <1>3, <2>4, ClaimTakes
    <3>2. ~Done(w, m)'
      BY <2>0 DEF Done
    <3> QED
      BY <2>0, <2>2, <3>1, <3>2 DEF Unfaulted, InTurn
  <2> QED
    BY <2>3, <2>4
<1>4. ASSUME NEW w \in Workers, Calling(w) PROVE Unfaulted'
  <2>0. PICK m \in Messages : m = Current(w)
    BY <1>4, CallingStep
  <2>1. /\ held[w][m] # None
        /\ \A n \in Messages : n # m => deliveries'[n] = deliveries[n]
        /\ pc'[w] = "save" => deliveries'[m] = deliveries[m] + 1
        /\ pc'[w] # "save" => deliveries'[m] = deliveries[m]
        /\ pc[w] = "save" => faults' # 0
    BY <1>4, <2>0, CallCounts
  <2>2. /\ UNCHANGED <<outbox, held>> /\ pc[w] \in {"publish", "save"}
        /\ \A v \in Workers : v # w => pc'[v] = pc[v]
    BY <1>4, CallingStep DEF TypeInv, TypeOK
  <2>3. \A v \in Workers : Current(v)' = Current(v)
    BY <2>2, SameCurrent
  <2>4. /\ Done(w, m)' <=> pc'[w] = "save"
        /\ \A n \in Messages : n # m => ~Done(w, n) /\ ~Done(w, n)'
        /\ \A v \in Workers, n \in Messages : v # w => (Done(v, n)' <=> Done(v, n))
    BY <2>0, <2>2, <2>3 DEF Done
  <2>5. pc[w] # "save" => ~Done(w, m)
    BY DEF Done
  <2>6. faults' = 0 => faults = 0
    BY <1>0, <1>4 DEF Calling, Publish, Refuse, SavePublishedFails, Fault
  <2>7. /\ outbox[m] # None /\ outbox[m].status = "publishing"
        /\ \A v \in Workers : v # w => held[v][m] = None
    BY <2>1 DEF Copies, ClaimsExclusive
  <2>8. ASSUME faults' = 0 PROVE Unfaulted'
    <3>1. faults = 0 /\ deliveries[m] = 0
      BY <2>1, <2>2, <2>5, <2>6, <2>8 DEF Unfaulted, InTurn
    <3>2. (Done(w, m)' => deliveries'[m] = 1) /\ (~Done(w, m)' => deliveries'[m] = 0)
      BY <2>1, <2>4, <3>1
    <3>3. ASSUME NEW n \in Messages, n # m
          PROVE  /\ outbox'[n] = outbox[n] /\ deliveries'[n] = deliveries[n]
                 /\ \A v \in Workers : held'[v][n] = held[v][n] /\ (Done(v, n)' <=> Done(v, n))
      BY <2>1, <2>2, <2>4, <3>3
    <3>4. /\ outbox'[m] # None /\ outbox'[m].status = "publishing" /\ held'[w][m] # None
          /\ \A v \in Workers : v # w => held'[v][m] = None
      BY <2>1, <2>2, <2>7
    <3>5. InTurn(m)'
      BY <3>2, <3>4 DEF InTurn
    <3>6. ASSUME NEW n \in Messages, n # m PROVE InTurn(n)'
      <4>1. InTurn(n)
        BY <3>1 DEF Unfaulted
      <4> QED
        BY <3>3, <3>6, <4>1 DEF InTurn
    <3> QED
      BY <3>5, <3>6 DEF Unfaulted
  <2> QED
    BY <2>8 DEF Unfaulted
<1>5. ASSUME NEW w \in Workers, SavePublished(w) \/ SaveFailed(w) PROVE Unfaulted'
  <2> DEFINE m == Current(w)
  <2>1. /\ m \in Messages
        /\ held[w][m] # None
        /\ outbox'[m] \in OutboxMessages
        /\ \/ pc[w] = "save" /\ outbox'[m].status = "published"
           \/ /\ pc[w] = "catch"
              /\ outbox'[m].status =
                   IF outbox[m].attempts + 1 >= MaxAttempts THEN "dead" ELSE "failed"
        /\ \A n \in Messages : n # m => outbox'[n] = outbox[n]
        /\ \A v \in Workers : held'[v][m] = None
        /\ \A v \in Workers, n \in Messages : v # w \/ n # m => held'[v][n] = held[v][n]
        /\ pc'[w] \in {"idle", "publish"} /\ \A v \in Workers : v # w => pc'[v] = pc[v]
        /\ UNCHANGED <<deliveries, faults>>
    BY <1>5, SaveCounts
  <2>2. \A v \in Workers : v # w => Current(v)' = Current(v)
    BY <1>5, SameCurrent DEF SavePublished, SaveFailed, NextMessage, TypeInv, TypeOK
  <2>3. /\ \A n \in Messages : n # m => ~Done(w, n)
        /\ \A n \in Messages : ~Done(w, n)'
        /\ Done(w, m) <=> pc[w] = "save"
        /\ \A v \in Workers, n \in Messages : v # w => (Done(v, n)' <=> Done(v, n))
    BY <2>1, <2>2 DEF Done
  <2> HIDE DEF m
  <2>4. outbox'[m] # None
    BY <2>1, NoneAssumption
  <2> QED
    BY <2>1, <2>3, <2>4 DEF Unfaulted, InTurn
<1>6. ASSUME NEW w \in Workers, Abort(w) PROVE Unfaulted'
  BY <1>0, <1>6 DEF Abort, Fault, Unfaulted
<1> QED
  BY <1>1, <1>2, <1>3, <1>4, <1>5, <1>6, Kinds

-----------------------------------------------------------------------------
\* The inductive invariant.
IInv == TypeInv /\ Copies /\ Timely /\ Counting /\ Unfaulted

\* It holds in every state of every behaviour.
LEMMA Invariance == Spec => []IInv
<1>1. Init => IInv
  <2> SUFFICES ASSUME Init PROVE IInv
    OBVIOUS
  <2>1. TypeInv
    BY TypeInit
  <2>2. Copies /\ Timely /\ Counting /\ Unfaulted
    BY DEF Init, Nothing, Copies, ClaimsExclusive, Timely, Counting, Counted, Tried, Accepted,
       Unfaulted, InTurn
  <2> QED
    BY <2>1, <2>2 DEF IInv
<1>2. IInv /\ [Next]_vars => IInv'
  BY TypeStep, CopiesStep, TimelyStep, CountingStep, UnfaultedStep DEF IInv
<1> QED
  BY <1>1, <1>2, PTL DEF Spec

\* The copy a worker writes back is the stored message, and it is the only one.
THEOREM ExclusiveClaims == Spec => []ClaimsExclusive
<1>1. IInv => ClaimsExclusive
  BY DEF IInv, Copies
<1> QED
  BY <1>1, Invariance, PTL

\* Published messages were accepted, and once unless there was a fault.
THEOREM DeliveredOnce == Spec => []Delivery
<1>1. IInv => Delivery
  <2> SUFFICES ASSUME IInv, NEW m \in Messages
               PROVE  /\ outbox[m] # None /\ outbox[m].status = "published" => deliveries[m] >= 1
                      /\ faults = 0 => deliveries[m] <= 1
    BY DEF Delivery
  <2>1. outbox[m] # None => outbox[m].status \in Statuses
    BY DEF IInv, TypeInv, TypeOK, OutboxMessages
  <2>2. outbox[m] # None /\ outbox[m].status = "published" => deliveries[m] >= 1
    BY DEF IInv, Counting, Counted
  <2>3. faults = 0 => deliveries[m] \in {0, 1}
    BY <2>1 DEF IInv, Unfaulted, InTurn, Statuses
  <2> QED
    BY <2>2, <2>3
<1> QED
  BY <1>1, Invariance, PTL

\* A message is tried at most maxAttempts times, and given up only after that many calls.
THEOREM BoundedAttempts == Spec => []AttemptsBounded
<1>1. IInv => AttemptsBounded
  <2> SUFFICES ASSUME IInv, NEW m \in Messages
               PROVE  /\ tries[m] <= MaxAttempts
                      /\ outbox[m] # None /\ outbox[m].status = "dead" => tries[m] = MaxAttempts
    BY DEF AttemptsBounded
  <2>1. outbox[m] # None => outbox[m].status \in Statuses /\ outbox[m].attempts \in Nat
    BY DEF IInv, TypeInv, TypeOK, OutboxMessages
  <2>2. tries[m] \in Nat /\ MaxAttempts \in Nat
    BY OutboxAssumption DEF IInv, TypeInv, TypeOK
  <2> QED
    BY <2>1, <2>2 DEF IInv, Counting, Counted, Statuses
<1> QED
  BY <1>1, Invariance, PTL

\* Only a fault leaves a message marked as publishing in nobody's hands.
THEOREM FaultsStrand == Spec => []StrandedByFault
<1>1. IInv => StrandedByFault
  <2>1. IInv => faults \in Nat
    BY OutboxAssumption DEF IInv, TypeInv, TypeOK
  <2> QED
    BY <2>1 DEF IInv, Unfaulted, InTurn, StrandedByFault
<1> QED
  BY <1>1, Invariance, PTL

\* What a step does to a stored message tells what the message was.
LEMMA Overwritten ==
  ASSUME IInv, [Next]_vars, NEW m \in Messages, outbox[m] # None, outbox'[m] # outbox[m]
  PROVE  \/ outbox[m].status = "publishing"
         \/ \E w \in Workers : IsDue(outbox[m], claimNow[w])
<1> USE DEF IInv
<1>1. CASE Quiet
  BY <1>1, QuietStep
<1>2. CASE Enqueue
  BY <1>2, EnqueueStep DEF TypeInv, TypeOK
<1>3. ASSUME NEW w \in Workers, Claim(w) PROVE \E v \in Workers : IsDue(outbox[m], claimNow[v])
  BY <1>3, ClaimStep, ClaimTakes
<1>4. ASSUME NEW w \in Workers, Calling(w) PROVE FALSE
  BY <1>4, CallingStep
<1>5. ASSUME NEW w \in Workers, SavePublished(w) \/ SaveFailed(w)
      PROVE  outbox[m].status = "publishing"
  BY <1>5, SaveCounts
<1>6. ASSUME NEW w \in Workers, Abort(w) PROVE FALSE
  BY <1>6 DEF Abort
<1> QED
  BY <1>1, <1>2, <1>3, <1>4, <1>5, <1>6, Kinds

\* A message that is published or given up is never written again.
THEOREM FinalOutcomes == Spec => OutcomesFinal
<1>1. ASSUME IInv, [Next]_vars
      PROVE  \A m \in Messages :
               outbox[m] # None /\ outbox[m].status \in {"published", "dead"} =>
                 outbox'[m] = outbox[m]
  BY <1>1, Overwritten DEF IsDue
<1> QED
  BY <1>1, Invariance, PTL DEF Spec, OutcomesFinal

\* No worker takes a failed message before its delay is over, however old its clock reading is.
THEOREM DelayedRetry == Spec => RetryDelayed
<1>1. ASSUME IInv, [Next]_vars
      PROVE  \A m \in Messages :
               outbox[m] # None /\ outbox[m].status = "failed" /\ outbox'[m] # outbox[m] =>
                 now >= outbox[m].availableAt
  <2>1. ASSUME NEW m \in Messages, outbox[m] # None, outbox[m].status = "failed",
               outbox'[m] # outbox[m]
        PROVE  now >= outbox[m].availableAt
    <3>1. PICK w \in Workers : IsDue(outbox[m], claimNow[w])
      BY <1>1, <2>1, Overwritten
    <3>2. outbox[m].availableAt \in Nat /\ claimNow[w] \in Nat /\ now \in Nat
      BY <1>1, <2>1, OutboxAssumption DEF IInv, TypeInv, TypeOK, OutboxMessages
    <3>3. claimNow[w] <= now
      BY <1>1 DEF IInv, Timely
    <3> QED
      BY <3>1, <3>2, <3>3 DEF IsDue
  <2> QED
    BY <2>1
<1> QED
  BY <1>1, Invariance, PTL DEF Spec, RetryDelayed

\* A stored message is touched only when it is due: never again when it is over, and after a
\* failure not before the delay is.
THEOREM OnlyWhenDue == Spec => TouchedWhenDue
BY FinalOutcomes, DelayedRetry DEF TouchedWhenDue
=============================================================================
