------------------------------- MODULE Imports --------------------------------
(***************************************************************************)
(* Imports: the plan of what is done with the records that come, and the  *)
(* export (primitives/import-export.ts); and the checkpoints of an import *)
(* (primitives/sync.ts) kept by the filesystem repository                 *)
(* (adapters/fs/fs-sync-state-repository.ts).                             *)
(*                                                                        *)
(* Importers load a checkpoint, work on their copy with the functions of  *)
(* the primitive, and save it whole: the file's lock makes a save atomic, *)
(* but nothing tells a save that another importer has saved meanwhile.    *)
(* Cursors and watermarks are one number that an importer only raises.    *)
(*                                                                        *)
(* A record comes with a checksum or has that of its value; a value stands*)
(* for its checksum, which is a hash of it.  A given checksum is believed,*)
(* and may be that of another value.                                      *)
(***************************************************************************)
EXTENDS Integers, Sequences, SequencesExt, FiniteSetsExt

CONSTANTS Importers, MaxCursor, MaxSaves, ExternalIds, Values, Checksums, None

VARIABLES
  checkpoint,  \* what is stored
  copy,        \* what an importer has in its hands
  saves

syncVars == <<checkpoint, copy, saves>>

Checkpoint == [cursor : 0..MaxCursor, status : {"active", "stale", "failed"}, lastError : BOOLEAN]

TypeOK ==
  /\ checkpoint \in Checkpoint \cup {None}
  /\ copy \in [Importers -> Checkpoint \cup {None}]
  /\ saves \in 0..MaxSaves

Init ==
  /\ checkpoint = None /\ copy = [i \in Importers |-> None]
  /\ saves = 0

Holds(i, value) == copy' = [copy EXCEPT ![i] = value]

\* createSyncCheckpoint
Create(i) ==
  /\ \E cursor \in 0..MaxCursor :
       Holds(i, [cursor |-> cursor, status |-> "active", lastError |-> FALSE])
  /\ UNCHANGED <<checkpoint, saves>>

\* getCheckpoint
LoadCheckpoint(i) ==
  /\ checkpoint # None
  /\ Holds(i, checkpoint)
  /\ UNCHANGED <<checkpoint, saves>>

\* advanceSyncCheckpoint, with a new cursor or without
Advance(i) ==
  /\ copy[i] # None
  /\ \E cursor \in copy[i].cursor..MaxCursor :
       Holds(i, [cursor |-> cursor, status |-> "active", lastError |-> FALSE])
  /\ UNCHANGED <<checkpoint, saves>>

\* failSyncCheckpoint
MarkFailed(i) ==
  /\ copy[i] # None
  /\ Holds(i, [copy[i] EXCEPT !.status = "failed", !.lastError = TRUE])
  /\ UNCHANGED <<checkpoint, saves>>

\* markSyncCheckpointStale, with an error or without
MarkStale(i) ==
  /\ copy[i] # None
  /\ \E error \in BOOLEAN :
       Holds(i, [copy[i] EXCEPT !.status = "stale", !.lastError = @ \/ error])
  /\ UNCHANGED <<checkpoint, saves>>

\* saveCheckpoint
SaveCheckpoint(i) ==
  /\ copy[i] # None /\ saves < MaxSaves
  /\ checkpoint' = copy[i]
  /\ saves' = saves + 1
  /\ UNCHANGED copy

Next ==
  \E i \in Importers : \/ Create(i) \/ LoadCheckpoint(i) \/ Advance(i)
                       \/ MarkFailed(i) \/ MarkStale(i) \/ SaveCheckpoint(i)

Spec == Init /\ [][Next]_syncVars

-----------------------------------------------------------------------------
(***************************************************************************)
(* Whatever importers save over each other, a stored checkpoint that is    *)
(* active has no error and a failed one has one.  (The cursor may go back: *)
(* a save replaces what another importer has saved meanwhile.)             *)
(***************************************************************************)
ErrorsTold ==
  checkpoint # None => /\ checkpoint.status = "active" => ~checkpoint.lastError
                       /\ checkpoint.status = "failed" => checkpoint.lastError

-----------------------------------------------------------------------------
ImportRecord == [externalId : ExternalIds, value : Values, checksum : Checksums \cup {None}]
ExistingRecord == [externalId : ExternalIds \cup {None}, value : Values,
                   checksum : Checksums \cup {None}]

Checksum(record) == IF record.checksum = None THEN record.value ELSE record.checksum

\* The place of the existing record with an external id: the last one; 0 if there is none.
Current(externalId, existing) ==
  Max({0} \cup {n \in DOMAIN existing : existing[n].externalId = externalId})

Duplicate(incoming, i) == \E j \in 1..i - 1 : incoming[j].externalId = incoming[i].externalId

\* A local id is the place of the record.
Change(action, record, local) ==
  [action |-> action, externalId |-> record.externalId, local |-> local,
   value |-> record.value, checksum |-> Checksum(record)]

PlanImport(incoming, existing, allowUpdates) ==
  [i \in DOMAIN incoming |->
     LET record  == incoming[i]
         current == Current(record.externalId, existing)
     IN  CASE Duplicate(incoming, i) -> Change("conflict", record, None)
           [] ~Duplicate(incoming, i) /\ current = 0 -> Change("create", record, None)
           [] /\ ~Duplicate(incoming, i)
              /\ current # 0 /\ Checksum(existing[current]) = Checksum(record) ->
                Change("skip", record, current)
           [] OTHER -> Change(IF allowUpdates THEN "update" ELSE "conflict", record, current)]

\* summarizePlan, for one action.
Count(plan, action) == Cardinality({i \in DOMAIN plan : plan[i].action = action})

\* exportRecords; the order of the external ids does not matter here.
ExportRecords(existing) ==
  LET exported == SelectSeq(existing, LAMBDA record : record.externalId # None)
  IN  [i \in DOMAIN exported |-> [exported[i] EXCEPT !.checksum = Checksum(exported[i])]]

-----------------------------------------------------------------------------
\* What the caller has when it has done what the plan says.
Imported(plan, existing) ==
  LET changed == [n \in DOMAIN existing |->
                    IF \E i \in DOMAIN plan : plan[i].action = "update" /\ plan[i].local = n
                      THEN LET change == plan[CHOOSE i \in DOMAIN plan :
                                           plan[i].action = "update" /\ plan[i].local = n]
                           IN  [externalId |-> change.externalId, value |-> change.value,
                                checksum |-> change.checksum]
                      ELSE existing[n]]
      created == SelectSeq(plan, LAMBDA change : change.action = "create")
  IN  changed \o [i \in DOMAIN created |->
                    [externalId |-> created[i].externalId, value |-> created[i].value,
                     checksum |-> created[i].checksum]]

(***************************************************************************)
(* A plan touches no record twice and creates none that is there; an       *)
(* import that is done once more has nothing left to create or update; and *)
(* what was exported, when no two records have one external id, is skipped *)
(* by an import into the same records.                                     *)
(***************************************************************************)
ImportsOnce(incoming, existing, allowUpdates) ==
  LET plan == PlanImport(incoming, existing, allowUpdates)
      once == PlanImport(incoming, Imported(plan, existing), allowUpdates)
      own  == PlanImport(ExportRecords(existing), existing, allowUpdates)
      Writes(i) == plan[i].action \in {"create", "update"}
  IN  /\ \A i, j \in DOMAIN plan :
           Writes(i) /\ Writes(j) /\ plan[i].externalId = plan[j].externalId => i = j
      /\ \A i \in DOMAIN plan : plan[i].action = "create" =>
           \A n \in DOMAIN existing : existing[n].externalId # plan[i].externalId
      /\ Count(plan, "create") + Count(plan, "update") + Count(plan, "skip")
           + Count(plan, "conflict") = Len(incoming)
      /\ Count(once, "create") = 0 /\ Count(once, "update") = 0
      /\ (\A m, n \in DOMAIN existing :
            existing[m].externalId = existing[n].externalId /\ existing[m].externalId # None
              => m = n)
           => Count(own, "skip") = Len(own)
=============================================================================
