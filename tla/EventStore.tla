----------------------------- MODULE EventStore -----------------------------
(***************************************************************************)
(* The event store of src/adapters/fs/fs-event-store.ts: one JSONL file per *)
(* stream, written under the lock of the file and read without it.  Events  *)
(* are appended in batches with an expected revision; a batch is one        *)
(* appendFile, of which a crash may leave a part.  A reader that comes      *)
(* while a batch is being written finds a broken line at its end; that it   *)
(* may find whole lines of the batch before that is left out.  An event is  *)
(* named by its rank in the order of search (occurredAt, then id): the      *)
(* clock was read before the lock was taken, so events arrive in any order. *)
(***************************************************************************)
EXTENDS Integers, Sequences, FiniteSets, SequencesExt

CONSTANTS Writers,
          Events,       \* a set of ranks
          Streams,
          StreamOf,     \* the stream of each event
          Expectations, \* ExpectedStreamRevision: the current revisions a caller is
                        \* content with, which are all of them, that of no stream,
                        \* those of a stream that exists, or just one
          MaxCrashes,   \* bound: writers that die while they append
          None

VARIABLES stored,    \* the whole lines of each file: an event and its revision
          torn,      \* the files that end in a part of a line
          holder,    \* who holds the lock of each file
          writers,   \* what each writer does
          crashes,
          appended   \* history: for each append that has returned, what its writer
                     \* expected and was told

storeVars == <<stored, torn, holder, writers, crashes, appended>>

Line == [event : Events, revision : Nat]

\* The revisions a stream may have; -1 is that of no stream.
Revisions == -1..Cardinality(Events)

StoreAssumption == /\ Events \subseteq Nat /\ IsFiniteSet(Events)
                   /\ None \notin Writers \cup Streams
                   /\ StreamOf \in [Events -> Streams]
                   /\ Expectations \subseteq SUBSET Revisions
                   /\ MaxCrashes \in Nat

Appends == [stream : Streams, expected : Expectations, lines : Seq(Line)]

Free == [stream |-> None, expected |-> {}, lines |-> <<>>]

StoreTypeOK == /\ stored \in [Streams -> Seq(Line)]
               /\ torn \subseteq Streams
               /\ holder \in [Streams -> Writers \cup {None}]
               /\ writers \in [Writers -> Appends \cup {Free}]
               /\ crashes \in 0..MaxCrashes
               /\ appended \subseteq Appends

StoreInit == /\ stored = [s \in Streams |-> <<>>]
             /\ torn = {}
             /\ holder = [s \in Streams |-> None]
             /\ writers = [w \in Writers |-> Free]
             /\ crashes = 0
             /\ appended = {}

\* Events that are nowhere yet: a new event has an id of its own.
Taken == UNION {{stored[s][i].event : i \in DOMAIN stored[s]} : s \in Streams}
           \cup UNION {{writers[w].lines[i].event : i \in DOMAIN writers[w].lines} : w \in Writers}

\* assertExpectedRevision, for a stream of n events.
Expected(n, expected) == n - 1 \in expected

\* The batch with the revisions that follow a stream of n events.
Numbered(batch, n) == [i \in DOMAIN batch |-> [event |-> batch[i], revision |-> n + i - 1]]

\* Mutant of Begin: the file is read before the lock is taken.
BeginUnlocked(w) ==
  \E s \in Streams : \E batch \in SetToAllKPermutations({e \in Events \ Taken : StreamOf[e] = s}) :
    \E expected \in Expectations :
      /\ writers[w] = Free
      /\ batch # <<>>
      /\ s \notin torn
      /\ Expected(Len(stored[s]), expected)
      /\ writers' = [writers EXCEPT ![w] =
           [stream |-> s, expected |-> expected, lines |-> Numbered(batch, Len(stored[s]))]]
      /\ UNCHANGED <<stored, torn, holder, crashes, appended>>

\* appendMany: under the lock of the file the stream is read, which fails on a part
\* of a line, the expected revision is compared and the batch gets its revisions.
Begin(w) ==
  \E s \in Streams : \E batch \in SetToAllKPermutations({e \in Events \ Taken : StreamOf[e] = s}) :
    \E expected \in Expectations :
      /\ writers[w] = Free
      /\ holder[s] = None
      /\ batch # <<>>
      /\ s \notin torn
      /\ Expected(Len(stored[s]), expected)
      /\ holder' = [holder EXCEPT ![s] = w]
      /\ writers' = [writers EXCEPT ![w] =
           [stream |-> s, expected |-> expected, lines |-> Numbered(batch, Len(stored[s]))]]
      /\ UNCHANGED <<stored, torn, crashes, appended>>

\* The end of appendFile: the batch is in the file, the lock is given back.
AppendFile(w) ==
  LET a == writers[w]
      s == a.stream
  IN  /\ a # Free
      /\ stored' = [stored EXCEPT ![s] = @ \o a.lines]
      /\ holder' = [holder EXCEPT ![s] = IF @ = w THEN None ELSE @]
      /\ writers' = [writers EXCEPT ![w] = Free]
      /\ appended' = appended \cup {a}
      /\ UNCHANGED <<torn, crashes>>

\* The process dies in appendFile: some of the lines are written, and perhaps a
\* part of the next one.  The lock file is left behind and cleared once it is stale.
Crash(w) ==
  LET a == writers[w]
      s == a.stream
  IN  /\ a # Free
      /\ crashes < MaxCrashes
      /\ crashes' = crashes + 1
      /\ \E n \in 0..Len(a.lines) :
           /\ stored' = [stored EXCEPT ![s] = @ \o SubSeq(a.lines, 1, n)]
           /\ \/ n < Len(a.lines) /\ torn' = torn \cup {s}
              \/ UNCHANGED torn
      /\ holder' = [holder EXCEPT ![s] = IF @ = w THEN None ELSE @]
      /\ writers' = [writers EXCEPT ![w] = Free]
      /\ UNCHANGED appended

StoreNext == \E w \in Writers : Begin(w) \/ AppendFile(w) \/ Crash(w)

StoreSpec == StoreInit /\ [][StoreNext]_storeVars

\* readStream from a revision on.
ReadStream(s, from) ==
  LET upTo[n \in 0..Len(stored[s])] ==
        IF n = 0 THEN <<>>
        ELSE IF stored[s][n].revision < from THEN upTo[n - 1]
        ELSE Append(upTo[n - 1], stored[s][n])
  IN  upTo[Len(stored[s])]

(***************************************************************************)
(* Whatever appends to a stream at once, and whoever dies in the middle:   *)
(* the revisions of a stream are its positions, and every append that has  *)
(* returned found exactly the stream it expected and is in the stream, as  *)
(* a whole, where it was told.                                             *)
(***************************************************************************)
AppendsExact ==
  /\ \A s \in Streams : \A i \in DOMAIN stored[s] : stored[s][i].revision = i - 1
  /\ \A a \in appended :
       LET first == a.lines[1].revision
       IN  /\ Expected(first, a.expected)
           /\ SubSeq(ReadStream(a.stream, first), 1, Len(a.lines)) = a.lines
=============================================================================
