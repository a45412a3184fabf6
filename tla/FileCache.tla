------------------------------ MODULE FileCache ------------------------------
(***************************************************************************)
(* One namespace of the cache of src/primitives/file-cache.ts: an entry is *)
(* a file, and the process keeps a copy of it in memory (freshness) and the *)
(* order in which keys were used (lruOrder).  Every operation awaits the    *)
(* file system several times; between two awaits other operations run, so  *)
(* the clock reading, the file and the memory an operation goes by may be  *)
(* out of date.  Keys stand for their resolved paths; the data of an entry  *)
(* is when it was stored and of what kind it is.                            *)
(***************************************************************************)
EXTENDS Integers, Sequences, FiniteSets, SequencesExt

CONSTANTS Ops,          \* operations under way at once
          Keys,
          Ttl,          \* ttlMs
          NegativeTtl,  \* negative.ttlMs
          MaxEntries,   \* maxEntries
          MaxTime,      \* bound of the clock
          MaxBegun,     \* bound: operations begun
          None

CacheAssumption == /\ Ttl \in Nat \ {0} /\ NegativeTtl \in Nat \ {0}
                   /\ MaxEntries \in Nat \ {0} /\ MaxTime \in Nat

VARIABLES file,       \* the file of each key, or None
          freshness,  \* the copy in memory of each key, or None
          lruOrder,   \* the keys in the order of their last use, oldest first
          inflight,   \* the keys a factory is running for (the Singleflight)
          ops,        \* what each operation does
          now,        \* the clock
          begun,      \* how many operations have begun
          inherited   \* history: there are files of an earlier process

cacheVars == <<file, freshness, lruOrder, inflight, ops, now, begun, inherited>>

Times == 0..MaxTime
Kinds == {"value", "negative", "invalid"}  \* invalid: it does not parse or validate

\* checked is the reading the writer took, stored the time of the rename.
Content == [kind : Kinds, checked : Times, stored : Times, mtime : Times]
Copy == [stored : Times, expiresAt : 0..(2 * MaxTime)]

\* flight: the operation runs for the callers of orSet.
Op == [at : {"idle", "stat", "read", "decide", "remove", "miss", "factory", "write",
             "touch", "evict", "purge", "served"},
       key : Keys \cup {None}, time : Times, kind : Kinds, then : {"idle", "miss", "evict"},
       flight : Keys \cup {None}, seen : Content \cup {None}, age : Int]

TypeOK == /\ file \in [Keys -> Content \cup {None}]
          /\ freshness \in [Keys -> Copy \cup {None}]
          /\ lruOrder \in Seq(Keys) /\ IsInjective(lruOrder)
          /\ inflight \subseteq Keys
          /\ ops \in [Ops -> Op]
          /\ now \in Times
          /\ begun \in 0..MaxBegun
          /\ inherited \in BOOLEAN

Idle == [at |-> "idle", key |-> None, time |-> 0, kind |-> "value", then |-> "idle",
         flight |-> None, seen |-> None, age |-> 0]

Init == /\ file \in [Keys -> {None} \cup
                       {[kind |-> k, checked |-> 0, stored |-> 0, mtime |-> 0] : k \in Kinds}]
        /\ freshness = [k \in Keys |-> None]
        /\ lruOrder = <<>>
        /\ inflight = {}
        /\ ops = [o \in Ops |-> Idle]
        /\ now = 0
        /\ begun = 0
        /\ inherited = (\E k \in Keys : file[k] # None)

At(o, where) == ops[o].at = where
Ready(o) == ops[o].at \in {"idle", "served", "miss"}

\* The next operation begins; a result that was answered is taken by its caller.
Begin(o) == Ready(o) /\ begun < MaxBegun /\ begun' = begun + 1

Goto(o, op) == ops' = [ops EXCEPT ![o] = op]

\* A hit: age is how old the entry was when the operation began.
Answer(o, stored, time) == Goto(o, [Idle EXCEPT !.at = "served", !.age = time - stored])

Without(k) == RemoveFirst(lruOrder, k)
TouchLru(k) == lruOrder' = Append(Without(k), k)
Forget(k) == /\ freshness' = [freshness EXCEPT ![k] = None]
             /\ lruOrder' = Without(k)

\* The end of an operation; the one a Singleflight runs leaves it.
Finish(o) == /\ Goto(o, Idle)
             /\ inflight' = inflight \ {ops[o].flight}

(***************************************************************************)
(* get.                                                                    *)
(***************************************************************************)
GetFresh(o) == /\ Begin(o)
               /\ \E k \in Keys : /\ freshness[k] # None
                                  /\ now < freshness[k].expiresAt
                                  /\ TouchLru(k)
                                  /\ Answer(o, freshness[k].stored, now)
               /\ UNCHANGED <<file, freshness, inflight, now, inherited>>

GetFile(o) == /\ Begin(o)
              /\ \E k \in Keys : /\ freshness[k] # None => now >= freshness[k].expiresAt
                                 /\ Goto(o, [Idle EXCEPT !.at = "stat", !.key = k, !.time = now])
              /\ UNCHANGED <<file, freshness, lruOrder, inflight, now, inherited>>

\* deleteResolved forgets the key at once and removes the file a turn later.
Discard(o, k, then) == /\ Forget(k)
                       /\ Goto(o, [ops[o] EXCEPT !.at = "remove", !.key = k, !.then = then])

\* isExpired, by the modification time of the file.
Stat(o) == /\ At(o, "stat")
           /\ LET k == ops[o].key
              IN  IF file[k] # None /\ ops[o].time - file[k].mtime > Ttl
                  THEN Discard(o, k, "miss")
                  ELSE /\ Goto(o, [ops[o] EXCEPT !.at = "read"])
                       /\ UNCHANGED <<freshness, lruOrder>>
           /\ UNCHANGED <<file, inflight, now, begun, inherited>>

Read(o) == /\ At(o, "read")
           /\ LET k == ops[o].key
              IN  Goto(o, IF file[k] = None THEN [Idle EXCEPT !.at = "miss", !.key = k]
                          ELSE [ops[o] EXCEPT !.at = "decide", !.seen = file[k]])
           /\ UNCHANGED <<file, freshness, lruOrder, inflight, now, begun, inherited>>

\* Mutant of Decide: the clock is read again for the expiry of the copy.
DecideLate(o) ==
  /\ At(o, "decide")
  /\ LET op == ops[o]
         expired == op.seen.kind = "negative" /\ op.time - op.seen.checked >= NegativeTtl
     IN  IF op.seen.kind = "invalid" \/ expired
         THEN Discard(o, op.key, "miss")
         ELSE /\ freshness' = IF op.seen.kind = "negative" THEN freshness
                              ELSE [freshness EXCEPT ![op.key] =
                                      [stored |-> op.seen.stored, expiresAt |-> now + Ttl]]
              /\ TouchLru(op.key)
              /\ Answer(o, op.seen.stored, op.time)
  /\ UNCHANGED <<file, inflight, now, begun, inherited>>

\* What was read is a negative entry, does not parse or validate, or is kept in
\* memory for another ttlMs from when the operation began.
Decide(o) ==
  /\ At(o, "decide")
  /\ LET op == ops[o]
         expired == op.seen.kind = "negative" /\ op.time - op.seen.checked >= NegativeTtl
     IN  IF op.seen.kind = "invalid" \/ expired
         THEN Discard(o, op.key, "miss")
         ELSE /\ freshness' = IF op.seen.kind = "negative" THEN freshness
                              ELSE [freshness EXCEPT ![op.key] =
                                      [stored |-> op.seen.stored, expiresAt |-> op.time + Ttl]]
              /\ TouchLru(op.key)
              /\ Answer(o, op.seen.stored, op.time)
  /\ UNCHANGED <<file, inflight, now, begun, inherited>>

\* rm, and what the operation does after it.
RemoveFile(o) ==
  /\ At(o, "remove")
  /\ file' = [file EXCEPT ![ops[o].key] = None]
  /\ \/ ops[o].then = "idle" /\ Finish(o)
     \/ /\ ops[o].then # "idle"
        /\ Goto(o, [Idle EXCEPT !.at = ops[o].then, !.key = ops[o].key, !.flight = ops[o].flight])
        /\ UNCHANGED inflight
  /\ UNCHANGED <<freshness, lruOrder, now, begun, inherited>>

(***************************************************************************)
(* set, setNegative and orSet, which end in the same write.                *)
(***************************************************************************)
BeginWrite(o) ==
  /\ Begin(o)
  /\ \E k \in Keys, kind \in {"value", "negative"} :
       Goto(o, [Idle EXCEPT !.at = "write", !.key = k, !.kind = kind, !.time = now])
  /\ UNCHANGED <<file, freshness, lruOrder, inflight, now, inherited>>

\* orSet of a miss: the first caller runs the factory, the others share its result.
OrSet(o) ==
  /\ At(o, "miss")
  /\ LET k == ops[o].key
     IN  \/ /\ k \notin inflight
            /\ inflight' = inflight \cup {k}
            /\ Goto(o, [Idle EXCEPT !.at = "factory", !.key = k, !.flight = k])
         \/ /\ k \in inflight
            /\ Goto(o, Idle)
            /\ UNCHANGED inflight
  /\ UNCHANGED <<file, freshness, lruOrder, now, begun, inherited>>

FactoryEnds(o) ==
  /\ At(o, "factory")
  /\ Goto(o, [ops[o] EXCEPT !.at = "write", !.time = now])
  /\ UNCHANGED <<file, freshness, lruOrder, inflight, now, begun, inherited>>

\* The factory, the validation or the serialisation fails, or writeFileAtomic
\* fails before the rename.
WriteFails(o) == /\ At(o, "factory") \/ At(o, "write")
                 /\ Finish(o)
                 /\ UNCHANGED <<file, freshness, lruOrder, now, begun, inherited>>

\* writeFileAtomic: the rename, whose file has the time of the rename ...
Rename(o) ==
  /\ At(o, "write")
  /\ file' = [file EXCEPT ![ops[o].key] =
       [kind |-> ops[o].kind, stored |-> now, mtime |-> now,
        checked |-> IF ops[o].kind = "negative" THEN ops[o].time ELSE 0]]
  /\ Goto(o, [ops[o] EXCEPT !.at = "touch"])
  /\ UNCHANGED <<freshness, lruOrder, inflight, now, begun, inherited>>

\* ... until utimes sets it back to the reading; then memory follows.
Touch(o) ==
  /\ At(o, "touch")
  /\ LET op == ops[o]
         k  == op.key
     IN  /\ file[k] # None
         /\ file' = [file EXCEPT ![k].mtime = op.time]
         /\ freshness' = [freshness EXCEPT ![k] =
              IF op.kind = "negative" THEN None
              ELSE [stored |-> op.time, expiresAt |-> op.time + Ttl]]
         /\ TouchLru(k)
         /\ Goto(o, [Idle EXCEPT !.at = "evict", !.flight = op.flight])
  /\ UNCHANGED <<inflight, now, begun, inherited>>

\* Somebody has removed the file between the two: the write is reported as failed.
TouchFails(o) == /\ At(o, "touch")
                 /\ file[ops[o].key] = None
                 /\ Finish(o)
                 /\ UNCHANGED <<file, freshness, lruOrder, now, begun, inherited>>

\* evictIfNeeded: the oldest key goes, as long as there are too many.
Evict(o) ==
  /\ At(o, "evict")
  /\ \/ /\ Len(lruOrder) > MaxEntries
        /\ Discard(o, Head(lruOrder), "evict")
        /\ UNCHANGED inflight
     \/ /\ Len(lruOrder) <= MaxEntries
        /\ Finish(o)
        /\ UNCHANGED <<freshness, lruOrder>>
  /\ UNCHANGED <<file, now, begun, inherited>>

(***************************************************************************)
(* delete, purgeExpired, the clock and a restart of the process.           *)
(***************************************************************************)
Delete(o) == /\ Begin(o)
             /\ \E k \in Keys : /\ Forget(k)
                                /\ Goto(o, [Idle EXCEPT !.at = "remove", !.key = k])
             /\ UNCHANGED <<file, inflight, now, inherited>>

BeginPurge(o) == /\ Begin(o)
                 /\ Goto(o, [Idle EXCEPT !.at = "purge", !.time = now])
                 /\ UNCHANGED <<file, freshness, lruOrder, inflight, now, inherited>>

\* An expired file is removed, and memory is left as it is.
Purge(o) == /\ At(o, "purge")
            /\ \/ /\ \E k \in Keys : /\ file[k] # None
                                     /\ ops[o].time - file[k].mtime > Ttl
                                     /\ Goto(o, [ops[o] EXCEPT !.at = "remove", !.key = k])
                  /\ UNCHANGED inflight
               \/ Finish(o)
            /\ UNCHANGED <<file, freshness, lruOrder, now, begun, inherited>>

Restart == /\ freshness' = [k \in Keys |-> None]
           /\ lruOrder' = <<>>
           /\ inflight' = {}
           /\ ops' = [o \in Ops |-> Idle]
           /\ inherited' = TRUE
           /\ UNCHANGED <<file, now, begun>>

Tick == /\ now < MaxTime
        /\ now' = now + 1
        /\ UNCHANGED <<file, freshness, lruOrder, inflight, ops, begun, inherited>>

Next == \/ \E o \in Ops : \/ GetFresh(o) \/ GetFile(o) \/ Stat(o) \/ Read(o) \/ Decide(o)
                          \/ RemoveFile(o) \/ BeginWrite(o) \/ OrSet(o) \/ FactoryEnds(o)
                          \/ WriteFails(o) \/ Rename(o) \/ Touch(o) \/ TouchFails(o)
                          \/ Evict(o) \/ Delete(o) \/ BeginPurge(o) \/ Purge(o)
        \/ Restart \/ Tick

Spec == Init /\ [][Next]_cacheVars

(***************************************************************************)
(* What a get answers was stored less than twice ttlMs before the get      *)
(* began, however operations overlap.  (Twice: a file that has not expired *)
(* is kept in memory for another ttlMs.)                                   *)
(***************************************************************************)
ServedInTime == \A o \in Ops : At(o, "served") => ops[o].age < 2 * Ttl

(***************************************************************************)
(* Between operations a process that began with an empty directory leaves  *)
(* at most maxEntries files in it, although a key leaves lruOrder before   *)
(* its file is removed and enters it after its file is written.            *)
(***************************************************************************)
EntriesBounded == (\A o \in Ops : Ready(o)) /\ ~inherited =>
                    Cardinality({k \in Keys : file[k] # None}) <= MaxEntries

\* The cache keeps its limits of time and of space.
LimitsKept == ServedInTime /\ EntriesBounded
=============================================================================
