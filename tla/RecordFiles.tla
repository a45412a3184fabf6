----------------------------- MODULE RecordFiles -----------------------------
(***************************************************************************)
(* A directory of records, one file each, as the repositories of           *)
(* src/src/adapters/fs keep it with the functions of fs-utils.ts: a save   *)
(* writes a temporary file and renames it, under the lock file of the      *)
(* record (work items, projections) or without (resources, the cache); a   *)
(* reader takes no lock.  Saves, removals, gets and listings run in        *)
(* several processes and await the file system between any two steps.      *)
(*                                                                         *)
(* Names of temporary files are random, so each belongs to one operation.  *)
(* Waiting for a lock and taking over a dead process's lock are the        *)
(* business of FileLock.  Versions are checked in WorkItems.               *)
(***************************************************************************)
EXTENDS Naturals, FiniteSets

CONSTANTS
  Ops,        \* operations, each run once
  Ids,
  Values,
  Expired,    \* values that have expired when they are read: the cache removes them
  MaxFaults,  \* bound on writes that fail and processes that die
  None

VARIABLES
  records,   \* the files of the records
  temps,     \* the temporary file of each operation
  locks,     \* the records whose lock file exists
  ops,       \* what each operation does
  faults,
  held,      \* history: what each record has been since a reader began
  vanished   \* history: a file has vanished since a reader began

filesVars == <<records, temps, locks, ops, faults, held, vanished>>

\* A temporary file is empty or part of a value at first.
Temp == Values \cup {"part"}

FileNames == [kind : {"record", "lock"}, of : Ids] \cup [kind : {"temp"}, of : Ops]

\* A listing has still to stat and to read some names, and has read others.
Op == [at : {"new", "lock", "create", "write", "rename", "discard", "unlock", "exists", "read",
             "remove", "expire", "readdir", "list", "saved", "removed", "got", "listed", "failed",
             "unread", "dead"},
       id : Ids \cup {None}, value : Values \cup {None}, locked : BOOLEAN,
       stats : SUBSET FileNames, reads : SUBSET FileNames,
       found : SUBSET [name : FileNames, value : Temp]]

FilesAssumption ==
  /\ None \notin Values \cup Ids /\ "part" \notin Values
  /\ Expired \subseteq Values /\ MaxFaults \in Nat

TypeOK ==
  /\ records \in [Ids -> Values \cup {None}]
  /\ temps \in [Ops -> Temp \cup {None}]
  /\ locks \subseteq Ids
  /\ ops \in [Ops -> Op]
  /\ faults \in 0..MaxFaults
  /\ held \in [Ops -> [Ids -> SUBSET (Values \cup {None})]]
  /\ vanished \in [Ops -> BOOLEAN]

New == [at |-> "new", id |-> None, value |-> None, locked |-> FALSE,
        stats |-> {}, reads |-> {}, found |-> {}]

Init ==
  /\ records \in [Ids -> Values \cup {None}]
  /\ temps = [o \in Ops |-> None]
  /\ locks = {}
  /\ ops = [o \in Ops |-> New]
  /\ faults = 0
  /\ held = [o \in Ops |-> [i \in Ids |-> {}]]
  /\ vanished = [o \in Ops |-> FALSE]

-----------------------------------------------------------------------------
At(o, place) == ops[o].at = place

Goto(o, place) == ops' = [ops EXCEPT ![o].at = place]

\* A save is over, and nothing of it is left in its process.
End(o, place) == ops' = [ops EXCEPT ![o] = [New EXCEPT !.at = place]]

Fault == faults < MaxFaults /\ faults' = faults + 1

Files ==
  {n \in FileNames : CASE n.kind = "record" -> records[n.of] # None
                   [] n.kind = "lock"   -> n.of \in locks
                   [] n.kind = "temp"   -> temps[n.of] # None}

Content(name) == IF name.kind = "temp" THEN temps[name.of] ELSE records[name.of]

\* The histories of the readers under way, after a record has changed or a file gone.
Readers == {"exists", "read", "expire", "readdir", "list"}

Reading(o) == ops[o].at \in Readers

Recorded ==
  held' = [o \in Ops |-> IF Reading(o) THEN [i \in Ids |-> held[o][i] \cup {records'[i]}]
                                      ELSE held[o]]

Gone == vanished' = [o \in Ops |-> vanished[o] \/ Reading(o)]

\* The caller's choice of an operation; what came before it is not its business.
Begin(o, place, id, value, locked) ==
  /\ At(o, "new")
  /\ ops' = [ops EXCEPT ![o] = [@ EXCEPT !.at = place, !.id = id, !.value = value,
                                         !.locked = locked]]
  /\ held' = [held EXCEPT ![o] = [i \in Ids |-> IF place \in Readers THEN {records[i]} ELSE {}]]
  /\ vanished' = [vanished EXCEPT ![o] = FALSE]
  /\ UNCHANGED <<records, temps, locks, faults>>

-----------------------------------------------------------------------------
\* save: withFileLock or at once, then writeJsonAtomic.
BeginSave(o) ==
  \E id \in Ids, value \in Values, locked \in BOOLEAN :
    Begin(o, IF locked THEN "lock" ELSE "create", id, value, locked)

Lock(o) ==
  /\ At(o, "lock") /\ ops[o].id \notin locks
  /\ locks' = locks \cup {ops[o].id}
  /\ Goto(o, "create")
  /\ UNCHANGED <<records, temps, faults, held, vanished>>

\* The lock is not free in time.
LockFails(o) ==
  /\ At(o, "lock") /\ ops[o].id \in locks
  /\ End(o, "failed")
  /\ UNCHANGED <<records, temps, locks, faults, held, vanished>>

\* writeTempThenRename; writeFile creates the file before it writes it.
CreateTemp(o) ==
  /\ At(o, "create")
  /\ temps' = [temps EXCEPT ![o] = "part"]
  /\ Goto(o, "write")
  /\ UNCHANGED <<records, locks, faults, held, vanished>>

WriteTemp(o) ==
  /\ At(o, "write")
  /\ temps' = [temps EXCEPT ![o] = ops[o].value]
  /\ Goto(o, "rename")
  /\ UNCHANGED <<records, locks, faults, held, vanished>>

\* writeFile or rename throws.
WriteFails(o) ==
  /\ ops[o].at \in {"create", "write", "rename"}
  /\ Fault
  /\ Goto(o, "discard")
  /\ UNCHANGED <<records, temps, locks, held, vanished>>

\* Where a save goes when its file is written or has been given up.
Leave(o, value, end) ==
  IF ops[o].locked
    THEN ops' = [ops EXCEPT ![o].at = "unlock", ![o].value = value]
    ELSE End(o, end)

Rename(o) ==
  /\ At(o, "rename")
  /\ records' = [records EXCEPT ![ops[o].id] = temps[o]]
  /\ temps' = [temps EXCEPT ![o] = None]
  /\ Leave(o, ops[o].value, "saved")
  /\ Recorded /\ Gone
  /\ UNCHANGED <<locks, faults>>

Discard(o) ==
  /\ At(o, "discard")
  /\ temps' = [temps EXCEPT ![o] = None]
  /\ Leave(o, None, "failed")
  /\ IF temps[o] # None THEN Gone ELSE UNCHANGED vanished
  /\ UNCHANGED <<records, locks, faults, held>>

Unlock(o) ==
  /\ At(o, "unlock")
  /\ locks' = locks \ {ops[o].id}
  /\ End(o, IF ops[o].value = None THEN "failed" ELSE "saved")
  /\ Gone
  /\ UNCHANGED <<records, temps, faults, held>>

\* The process of a save dies and leaves its files.
Die(o) ==
  /\ ops[o].at \in {"create", "write", "rename", "discard", "unlock"}
  /\ Fault
  /\ Goto(o, "dead")
  /\ UNCHANGED <<records, temps, locks, held, vanished>>

-----------------------------------------------------------------------------
\* removePath, for a delete of the cache or the clear of a projection.
BeginRemove(o) == \E id \in Ids : Begin(o, "remove", id, None, FALSE)

\* An expired value is removed on the word of what was read before.
Remove(o) ==
  /\ ops[o].at \in {"remove", "expire"}
  /\ records' = [records EXCEPT ![ops[o].id] = None]
  /\ Goto(o, IF At(o, "remove") THEN "removed" ELSE "got")
  /\ Recorded
  /\ IF records[ops[o].id] # None THEN Gone ELSE UNCHANGED vanished
  /\ UNCHANGED <<temps, locks, faults>>

-----------------------------------------------------------------------------
\* getById, or get of the cache: pathExists, then readJson.
BeginGet(o) == \E id \in Ids : Begin(o, "exists", id, None, FALSE)

Exists(o) ==
  /\ At(o, "exists")
  /\ Goto(o, IF records[ops[o].id] = None THEN "got" ELSE "read")
  /\ UNCHANGED <<records, temps, locks, faults, held, vanished>>

Read(o) ==
  /\ At(o, "read")
  /\ LET value == records[ops[o].id] IN
       CASE value = None -> Goto(o, "unread")
         [] value \in Expired -> Goto(o, "expire")
         [] OTHER -> ops' = [ops EXCEPT ![o].at = "got", ![o].value = value]
  /\ UNCHANGED <<records, temps, locks, faults, held, vanished>>

-----------------------------------------------------------------------------
\* list of a repository: listFilesRecursive, then readJson of every file.
BeginList(o) == Begin(o, "readdir", None, None, FALSE)

ReadDir(o) ==
  /\ At(o, "readdir")
  /\ ops' = [ops EXCEPT ![o] = [@ EXCEPT !.at = "list", !.stats = Files]]
  /\ UNCHANGED <<records, temps, locks, faults, held, vanished>>

\* Mutant of Left: only lock files are left out.
LeftLock(name) == name.kind = "lock"

\* The files a listing leaves out, once it has seen that they are files.
Left(name) == name.kind \in {"lock", "temp"}

Stat(o, name) ==
  /\ At(o, "list") /\ name \in ops[o].stats
  /\ IF name \notin Files
       THEN Goto(o, "unread")
       ELSE ops' = [ops EXCEPT ![o].stats = @ \ {name},
                               ![o].reads = IF Left(name) THEN @ ELSE @ \cup {name}]
  /\ UNCHANGED <<records, temps, locks, faults, held, vanished>>

\* The files are read when all are known.
ReadFile(o, name) ==
  /\ At(o, "list") /\ ops[o].stats = {} /\ name \in ops[o].reads
  /\ IF name \notin Files
       THEN Goto(o, "unread")
       ELSE ops' = [ops EXCEPT ![o].reads = @ \ {name},
                               ![o].found = @ \cup {[name |-> name, value |-> Content(name)]}]
  /\ UNCHANGED <<records, temps, locks, faults, held, vanished>>

EndList(o) ==
  /\ At(o, "list") /\ ops[o].stats = {} /\ ops[o].reads = {}
  /\ Goto(o, "listed")
  /\ UNCHANGED <<records, temps, locks, faults, held, vanished>>

Next ==
  \E o \in Ops :
    \/ BeginSave(o) \/ Lock(o) \/ LockFails(o) \/ CreateTemp(o) \/ WriteTemp(o)
    \/ WriteFails(o) \/ Rename(o) \/ Discard(o) \/ Unlock(o) \/ Die(o)
    \/ BeginRemove(o) \/ Remove(o)
    \/ BeginGet(o) \/ Exists(o) \/ Read(o)
    \/ BeginList(o) \/ ReadDir(o) \/ EndList(o)
    \/ (\E name \in FileNames : Stat(o, name) \/ ReadFile(o, name))

Spec == Init /\ [][Next]_filesVars

-----------------------------------------------------------------------------
\* What a listing has of a record; None if the record is not in it.
Listed(o, id) ==
  LET of == {f \in ops[o].found : f.name = [kind |-> "record", of |-> id]}
  IN  IF of = {} THEN {None} ELSE {f.value : f \in of}

(***************************************************************************)
(* However saves, removals and readers overlap, a get or a listing answers *)
(* for each record what the record has been since the reader began, or     *)
(* what the cache makes of an expired value; a listing has nothing else in *)
(* it, no half-written file above all; and a reader only fails when a file *)
(* has vanished meanwhile.                                                 *)
(***************************************************************************)
ReadersServed ==
  \A o \in Ops :
    /\ At(o, "got") =>
         \/ ops[o].value \in held[o][ops[o].id]
         \/ ops[o].value = None /\ held[o][ops[o].id] \cap Expired # {}
    /\ At(o, "listed") =>
         /\ \A f \in ops[o].found : f.name.kind = "record"
         /\ \A id \in Ids : Listed(o, id) \subseteq held[o][id]
    /\ At(o, "unread") => vanished[o]

(***************************************************************************)
(* Files of a save are left behind by nothing but the death of its         *)
(* process, and two saves under the lock of a record do not overlap.       *)
(***************************************************************************)
NothingLeft ==
  /\ \A o \in Ops : temps[o] # None => ops[o].at \in {"write", "rename", "discard", "dead"}
  /\ \A id \in locks :
       Cardinality({o \in Ops : /\ ops[o].id = id /\ ops[o].locked
                                /\ ops[o].at \in {"create", "write", "rename", "discard",
                                                  "unlock", "dead"}}) = 1

FilesWhole == ReadersServed /\ NothingLeft
=============================================================================
