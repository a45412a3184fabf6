----------------------------- MODULE Projections -----------------------------
(***************************************************************************)
(* Rebuilding a projection (src/application/projection-worker.ts) from the *)
(* event store while events are appended and other rebuilds of the same    *)
(* projection run: pages of events are read by offset in the order of      *)
(* search, and each event is folded into the record of its stream with a   *)
(* read, a second read, a save and a checkpoint, without a lock.  The value *)
(* of a record is the sequence of the events folded into it, which is what  *)
(* the counters of src/application/default-projections.ts depend on.        *)
(***************************************************************************)
EXTENDS EventStore

CONSTANTS Rebuilds,    \* calls of rebuildProjection
          BatchSize    \* events per page

VARIABLES records,     \* the record of each stream: its value and version, or None
          checkpoint,  \* the sequence of the last checkpoint, or None
          rebuilds,    \* what each call does
          disturbed    \* history: calls whose records another call may have written,
                       \* or whose pages have shifted

projectionVars == <<records, checkpoint, rebuilds, disturbed>>

Records == [value : Seq(Events), version : Nat \ {0}]

\* batchSize is a positive integer, and no record is the sentinel for none.
ProjectionAssumption == StoreAssumption /\ BatchSize \in Nat \ {0} /\ None \notin Records

Rebuild == [at : {"idle", "clear", "page", "read", "save", "checkpoint", "done", "failed"},
            clears : SUBSET Streams, page : Seq(Events), offset : Nat, total : Nat,
            processed : Nat, value : Seq(Events), atStart : Nat]

Idle == [at |-> "idle", clears |-> {}, page |-> <<>>, offset |-> 0, total |-> 0,
         processed |-> 0, value |-> <<>>, atStart |-> 0]

TypeOK == /\ StoreTypeOK
          /\ records \in [Streams -> Records \cup {None}]
          /\ checkpoint \in Nat \cup {None}
          /\ rebuilds \in [Rebuilds -> Rebuild]
          /\ disturbed \subseteq Rebuilds

RebuildInit == /\ records = [s \in Streams |-> None]
               /\ checkpoint = None
               /\ rebuilds = [r \in Rebuilds |-> Idle]
               /\ disturbed = {}

Init == StoreInit /\ RebuildInit

Goto(r, s) == rebuilds' = [rebuilds EXCEPT ![r] = s]
Running(r) == rebuilds[r].at \notin {"idle", "done", "failed"}
ValueOf(s) == IF records[s] = None THEN <<>> ELSE records[s].value

\* search: every stored event in the order of occurredAt and id.
StoredEvents == UNION {{stored[s][i].event : i \in DOMAIN stored[s]} : s \in Streams}
Sorted == CHOOSE q \in [1..Cardinality(StoredEvents) -> StoredEvents] :
            \A i, j \in DOMAIN q : i < j => q[i] < q[j]

\* paginate.
FirstOf(n) == SubSeq(Sorted, 1, Min({n, Len(Sorted)}))
Slice(offset) == SubSeq(Sorted, offset + 1, Min({offset + BatchSize, Len(Sorted)}))

\* clear, unless options.clear is false, begins with a list of the records.
Start(r) ==
  /\ rebuilds[r].at = "idle"
  /\ \/ Goto(r, [Idle EXCEPT !.at = "clear", !.atStart = Len(Sorted),
                             !.clears = {s \in Streams : records[s] # None}])
     \/ /\ \A s \in Streams : records[s] = None
        /\ Goto(r, [Idle EXCEPT !.at = "page", !.atStart = Len(Sorted)])
  /\ disturbed' = disturbed \cup {q \in Rebuilds \ {r} : rebuilds[q].at # "idle"}
                          \cup {q \in {r} : \E p \in Rebuilds : Running(p)}
  /\ UNCHANGED <<records, checkpoint>>

\* Mutant of Clear: the checkpoint is cleared and the records are kept.
ClearCheckpoint(r) ==
  /\ rebuilds[r].at = "clear"
  /\ checkpoint' = None
  /\ Goto(r, [rebuilds[r] EXCEPT !.at = "page", !.clears = {}])
  /\ UNCHANGED <<records, disturbed>>

\* The records that were listed and the checkpoint are removed.
Clear(r) ==
  /\ rebuilds[r].at = "clear"
  /\ records' = [s \in Streams |-> IF s \in rebuilds[r].clears THEN None ELSE records[s]]
  /\ checkpoint' = None
  /\ Goto(r, [rebuilds[r] EXCEPT !.at = "page", !.clears = {}])
  /\ UNCHANGED disturbed

\* One turn of the loop: the next page, or the end.
ReadPage(r) ==
  /\ rebuilds[r].at = "page"
  /\ torn = {}
  /\ LET b == rebuilds[r]
         page == Slice(b.offset)
     IN  Goto(r, IF page = <<>>
                 THEN [b EXCEPT !.at = "done"]
                 ELSE [b EXCEPT !.at = "read", !.page = page, !.total = Len(Sorted),
                                !.offset = b.offset + Len(page)])
  /\ UNCHANGED <<records, checkpoint, disturbed>>

\* search fails on a part of a line, left by a crash or by an append under way.
ReadFails(r) ==
  /\ rebuilds[r].at = "page"
  /\ torn # {} \/ \E w \in Writers : writers[w] # Free
  /\ Goto(r, [Idle EXCEPT !.at = "failed"])
  /\ UNCHANGED <<records, checkpoint, disturbed>>

\* upsertRecord: the record is read and the new value made of it ...
ReadRecord(r) ==
  /\ rebuilds[r].at = "read"
  /\ LET e == Head(rebuilds[r].page)
     IN  Goto(r, [rebuilds[r] EXCEPT !.at = "save", !.value = Append(ValueOf(StreamOf[e]), e)])
  /\ UNCHANGED <<records, checkpoint, disturbed>>

\* ... and saved with the version that follows that of the record by now.
SaveRecord(r) ==
  /\ rebuilds[r].at = "save"
  /\ LET s == StreamOf[Head(rebuilds[r].page)]
     IN  records' = [records EXCEPT ![s] =
           [value |-> rebuilds[r].value, version |-> IF @ = None THEN 1 ELSE @.version + 1]]
  /\ Goto(r, [rebuilds[r] EXCEPT !.at = "checkpoint", !.value = <<>>])
  /\ UNCHANGED <<checkpoint, disturbed>>

\* The checkpoint is saved; the page goes on, or the next is read unless the
\* events read are all there were.
SaveCheckpoint(r) ==
  /\ rebuilds[r].at = "checkpoint"
  /\ checkpoint' = rebuilds[r].processed + 1
  /\ LET b == rebuilds[r]
     IN  Goto(r, [b EXCEPT !.page = Tail(@), !.processed = @ + 1,
                           !.at = IF Len(b.page) > 1 THEN "read"
                                  ELSE IF b.offset >= b.total THEN "done" ELSE "page"])
  /\ UNCHANGED <<records, disturbed>>

\* The process dies, and the records and checkpoint stay as they are.
Die(r) == /\ Running(r)
          /\ Goto(r, [Idle EXCEPT !.at = "failed"])
          /\ UNCHANGED <<records, checkpoint, disturbed>>

\* The calls whose pages an event that was just stored has shifted: it comes before
\* events they have read.
Shifted == {r \in Rebuilds : FirstOf(rebuilds[r].offset)' # FirstOf(rebuilds[r].offset)}

Store == /\ StoreNext
         /\ UNCHANGED <<records, checkpoint, rebuilds>>
         /\ disturbed' = disturbed \cup Shifted

Rebuilding(r) == /\ \/ Start(r) \/ Clear(r) \/ ReadPage(r) \/ ReadFails(r) \/ ReadRecord(r)
                    \/ SaveRecord(r) \/ SaveCheckpoint(r) \/ Die(r)
                 /\ UNCHANGED storeVars

Next == Store \/ \E r \in Rebuilds : Rebuilding(r)

Spec == Init /\ [][Next]_<<storeVars, projectionVars>>

\* The events of a stream among those of a sequence, in their order.
EventsOf(s, seq) ==
  LET upTo[n \in 0..Len(seq)] ==
        IF n = 0 THEN <<>>
        ELSE IF StreamOf[seq[n]] = s THEN Append(upTo[n - 1], seq[n])
        ELSE upTo[n - 1]
  IN  upTo[Len(seq)]

(***************************************************************************)
(* When a rebuild ends that no other rebuild has overlapped and no event   *)
(* has come before the events it had read: it has read every event there   *)
(* was when it began, each record is the fold of its events among those it *)
(* read, in order and each once, whatever an earlier rebuild that died or  *)
(* failed has left, and the checkpoint says how many they were.            *)
(***************************************************************************)
RebuiltFaithful ==
  \A r \in Rebuilds \ disturbed :
    LET read == FirstOf(rebuilds[r].offset)
    IN  /\ rebuilds[r].at = "done"
        /\ \A q \in Rebuilds : ~Running(q)
        => /\ Len(read) >= rebuilds[r].atStart
           /\ \A s \in Streams : ValueOf(s) = EventsOf(s, read)
           /\ checkpoint = (IF read = <<>> THEN None ELSE Len(read))
=============================================================================
