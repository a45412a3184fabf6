---------------------------- MODULE MemoryProofs ----------------------------
(***************************************************************************)
(* Theorems about components of MCMemory, for any sets of operations,      *)
(* records, keys and values and any number of faults and calls: who reads  *)
(* a directory of records while others write it is served what the records *)
(* have been, and a save that ends leaves nothing of its files; a map that *)
(* its own hooks and watchers write stays allowed, and they are told; the  *)
(* records of the projections agree with what they show; and exporters are *)
(* told of the end of every trace and span that is recorded.               *)
(***************************************************************************)
EXTENDS MCMemory, Sums

\* The operations that have their record locked, if they lock it.
Holding == {"create", "write", "rename", "discard", "unlock", "dead"}

\* The file of a record, as a listing finds it.
FileOf(i) == [kind |-> "record", of |-> i]

\* What an operation is told to do stays with it, and a listing reads the files of records.
Shape(k) ==
  /\ k.at \in {"lock", "create", "write", "rename", "discard", "unlock",
               "exists", "read", "remove", "expire", "got"} => k.id \in Ids
  /\ k.at \in {"lock", "create", "write", "rename"} => k.value \in Values
  /\ k.at \in {"lock", "unlock"} => k.locked
  /\ k.at \in {"exists", "read", "expire"} => k.value = None
  /\ k.at \in {"new", "readdir"} => k.stats = {} /\ k.reads = {} /\ k.found = {}
  /\ k.at = "listed" => k.stats = {} /\ k.reads = {}
  /\ \A n \in k.reads : n.kind = "record"

\* The temporary file of a save, which is whole when it is renamed.
TempKept(o) ==
  /\ temps[o] # None => ops[o].at \in {"write", "rename", "discard", "dead"}
  /\ ops[o].at = "rename" => temps[o] = ops[o].value

Holds(o) == ops[o].locked /\ ops[o].at \in Holding

\* A lock file is that of one save.
LocksKept ==
  /\ \A o \in Ops : Holds(o) => ops[o].id \in locks
  /\ \A o, p \in Ops : Holds(o) /\ Holds(p) /\ ops[o].id = ops[p].id => o = p
  /\ \A i \in locks : \E o \in Ops : Holds(o) /\ ops[o].id = i

\* What a get can rely on at each of its steps.
GetKept(o) ==
  /\ ops[o].at = "read" => FileOf(ops[o].id) \in Directory!Files \/ vanished[o]
  /\ ops[o].at = "expire" => held[o][ops[o].id] \cap Expired # {}
  /\ ops[o].at = "got" => \/ ops[o].value \in held[o][ops[o].id]
                          \/ ops[o].value = None /\ held[o][ops[o].id] \cap Expired # {}
  /\ ops[o].at = "unread" => vanished[o]

\* What a listing still has to look at was there, and what it has not found was not.
ListKept(o) ==
  /\ ops[o].at = "list" =>
       \A n \in ops[o].stats \cup ops[o].reads : n \in Directory!Files \/ vanished[o]
  /\ ops[o].at \in {"list", "listed"} =>
       /\ \A f \in ops[o].found : /\ f.name.kind = "record" /\ f.name.of \in Ids
                                  /\ f.value \in held[o][f.name.of]
       /\ \A i \in Ids : \/ FileOf(i) \in ops[o].stats \cup ops[o].reads
                         \/ \E f \in ops[o].found : f.name = FileOf(i)
                         \/ None \in held[o][i]

ReaderKept(o) ==
  /\ Directory!Reading(o) => \A i \in Ids : recordFiles[i] \in held[o][i]
  /\ GetKept(o) /\ ListKept(o)

(***************************************************************************)
(* The inductive invariant.  What a get and a listing answer at their end  *)
(* follows only from what they know of every name on their way: that it is *)
(* there still, or that something has vanished.                            *)
(***************************************************************************)
FilesInv ==
  /\ Directory!TypeOK
  /\ \A o \in Ops : Shape(ops[o]) /\ TempKept(o) /\ ReaderKept(o)
  /\ LocksKept

-----------------------------------------------------------------------------
\* The invariant holds before any operation begins.
LEMMA FilesInit ==
  ASSUME Directory!FilesAssumption, Directory!Init PROVE FilesInv
<1>1. Directory!New \in Directory!Op
  BY DEF Directory!New, Directory!Op
<1>2. 0 \in 0..MaxFaults
  BY DEF Directory!FilesAssumption
<1>3. Directory!TypeOK
  BY <1>1, <1>2 DEF Directory!Init, Directory!TypeOK
<1>4. ASSUME NEW o \in Ops PROVE Shape(ops[o]) /\ TempKept(o) /\ ReaderKept(o) /\ ~Holds(o)
  <2>1. ops[o] = Directory!New /\ temps[o] = None
    BY DEF Directory!Init
  <2> QED
    BY <2>1 DEF Directory!New, Shape, TempKept, ReaderKept, GetKept, ListKept, Holds, Holding,
         Directory!Reading, Directory!Readers
<1> QED
  BY <1>3, <1>4 DEF FilesInv, LocksKept, Directory!Init
-----------------------------------------------------------------------------
\* The operation at a step has become k; what it is told has its shape.
Becomes(o, k) ==
  /\ k \in Directory!Op /\ Shape(k)
  /\ ops' = [ops EXCEPT ![o] = k]

\* The others are what they were.
LEMMA OthersStay ==
  ASSUME Directory!TypeOK, NEW o \in Ops, NEW k, Becomes(o, k)
  PROVE  /\ ops' \in [Ops -> Directory!Op] /\ ops'[o] = k
         /\ \A p \in Ops : p # o => ops'[p] = ops[p]
BY DEF Directory!TypeOK, Becomes

Places == {"new", "lock", "create", "write", "rename", "discard", "unlock", "exists", "read",
           "remove", "expire", "readdir", "list", "saved", "removed", "got", "listed", "failed",
           "unread", "dead"}

\* An operation that goes on elsewhere keeps the rest.
LEMMA Going ==
  ASSUME Directory!TypeOK, NEW o \in Ops, NEW place \in Places, Directory!Goto(o, place)
  PROVE  \E k \in Directory!Op :
           /\ ops' = [ops EXCEPT ![o] = k]
           /\ k.at = place /\ k.id = ops[o].id /\ k.value = ops[o].value
           /\ k.locked = ops[o].locked
           /\ k.stats = ops[o].stats /\ k.reads = ops[o].reads /\ k.found = ops[o].found
<1>1. ops[o] \in Directory!Op
  BY DEF Directory!TypeOK
<1>2. [ops[o] EXCEPT !.at = place] \in Directory!Op
  BY <1>1 DEF Directory!Op, Places
<1>3. ops' = [ops EXCEPT ![o] = [ops[o] EXCEPT !.at = place]]
  BY DEF Directory!Goto
<1> QED
  BY <1>1, <1>2, <1>3 DEF Directory!Op

\* A save that ends forgets what it was told.
LEMMA Ending ==
  ASSUME Directory!TypeOK, NEW o \in Ops, NEW place \in {"saved", "failed"},
         Directory!End(o, place)
  PROVE  \E k : Becomes(o, k) /\ k.at = place
<1> DEFINE k == [Directory!New EXCEPT !.at = place]
<1>1. k \in Directory!Op /\ k.at = place /\ Shape(k)
  BY DEF Directory!New, Directory!Op, Shape
<1>2. ops' = [ops EXCEPT ![o] = k]
  BY DEF Directory!End
<1> QED
  BY <1>1, <1>2 DEF Becomes

\* A save that leaves still has to unlock, or has ended.
LEMMA Leaving ==
  ASSUME FilesInv, NEW o \in Ops, ops[o].id \in Ids, NEW value \in Values \cup {None},
         NEW end \in {"saved", "failed"}, Directory!Leave(o, value, end)
  PROVE  \E k : /\ Becomes(o, k)
                /\ IF ops[o].locked THEN k.at = "unlock" /\ k.locked /\ k.id = ops[o].id
                                    ELSE k.at = end
<1>0. Directory!TypeOK /\ Shape(ops[o])
  BY DEF FilesInv
<1>1. ops[o] \in Directory!Op
  BY <1>0 DEF Directory!TypeOK
<1>2. CASE ops[o].locked
  <2> DEFINE k == [ops[o] EXCEPT !.at = "unlock", !.value = value]
  <2>1. k \in Directory!Op
    BY <1>1 DEF Directory!Op
  <2>2. k.at = "unlock" /\ k.locked /\ k.id = ops[o].id /\ k.reads = ops[o].reads
    BY <1>1, <1>2 DEF Directory!Op
  <2>3. Shape(k)
    BY <1>0, <2>2 DEF Shape
  <2>4. ops' = [ops EXCEPT ![o] = k]
    BY <1>2 DEF Directory!Leave
  <2> QED
    BY <1>2, <2>1, <2>2, <2>3, <2>4 DEF Becomes
<1>3. CASE ~ops[o].locked
  <2>1. Directory!End(o, end)
    BY <1>3 DEF Directory!Leave
  <2> QED
    BY <1>0, <1>3, <2>1, Ending
<1> QED
  BY <1>2, <1>3

-----------------------------------------------------------------------------
\* Another operation has been told of every change that concerns it.
Told(p) ==
  /\ Directory!Reading(p) =>
       /\ \A i \in Ids : held[p][i] \subseteq held'[p][i] /\ recordFiles'[i] \in held'[p][i]
       /\ vanished'[p] \/ Directory!Files \subseteq Directory!Files'
  /\ ~Directory!Reading(p) => held'[p] = held[p]
  /\ vanished[p] => vanished'[p]

\* What an operation knows is still so when it has been told what has changed.
LEMMA StillKept ==
  ASSUME NEW p \in Ops, ReaderKept(p), Told(p), ops'[p] = ops[p], Shape(ops[p])
  PROVE  ReaderKept(p)'
<1>1. Directory!Reading(p)' <=> Directory!Reading(p)
  BY DEF Directory!Reading
<1>2. \A i \in Ids : held[p][i] \subseteq held'[p][i]
  BY DEF Told
<1>3. GetKept(p)'
  <2>1. ops[p].at = "read" => FileOf(ops[p].id) \in Directory!Files' \/ vanished'[p]
    BY DEF ReaderKept, GetKept, Told, Directory!Reading, Directory!Readers
  <2>2. ops[p].at \in {"expire", "got"} => held[p][ops[p].id] \subseteq held'[p][ops[p].id]
    BY <1>2 DEF Shape
  <2>3. ops[p].at = "expire" => held'[p][ops[p].id] \cap Expired # {}
    BY <2>2 DEF ReaderKept, GetKept
  <2>4. ops[p].at = "got" => \/ ops[p].value \in held'[p][ops[p].id]
                             \/ ops[p].value = None /\ held'[p][ops[p].id] \cap Expired # {}
    BY <2>2 DEF ReaderKept, GetKept
  <2>5. ops[p].at = "unread" => vanished'[p]
    BY DEF ReaderKept, GetKept, Told
  <2> QED
    BY <2>1, <2>3, <2>4, <2>5 DEF GetKept
<1>4. ListKept(p)'
  <2>1. ops[p].at = "list" =>
          \A n \in ops[p].stats \cup ops[p].reads : n \in Directory!Files' \/ vanished'[p]
    BY DEF ReaderKept, ListKept, Told, Directory!Reading, Directory!Readers
  <2>2. ops[p].at \in {"list", "listed"} =>
          \A f \in ops[p].found : /\ f.name.kind = "record" /\ f.name.of \in Ids
                                  /\ f.value \in held'[p][f.name.of]
    BY <1>2 DEF ReaderKept, ListKept
  <2>3. ops[p].at \in {"list", "listed"} =>
          \A i \in Ids : \/ FileOf(i) \in ops[p].stats \cup ops[p].reads
                         \/ \E f \in ops[p].found : f.name = FileOf(i)
                         \/ None \in held'[p][i]
    BY <1>2 DEF ReaderKept, ListKept
  <2> QED
    BY <2>1, <2>2, <2>3 DEF ListKept, FileOf
<1>5. Directory!Reading(p) => \A i \in Ids : recordFiles'[i] \in held'[p][i]
  BY DEF Told
<1> QED
  BY <1>1, <1>3, <1>4, <1>5 DEF ReaderKept
\* The names of records, and the files that exist under them.
LEMMA RecordNames ==
  /\ \A i \in Ids : FileOf(i) \in Directory!FileNames
  /\ \A n \in Directory!FileNames : n.kind = "record" => n.of \in Ids /\ n = FileOf(n.of)
  /\ \A i \in Ids : FileOf(i) \in Directory!Files <=> recordFiles[i] # None
<1>1. \A i \in Ids : FileOf(i) \in Directory!FileNames
  BY DEF FileOf, Directory!FileNames
<1>2. \A n \in Directory!FileNames : n.kind = "record" => n.of \in Ids /\ n = FileOf(n.of)
  BY DEF FileOf, Directory!FileNames
<1>3. ASSUME NEW i \in Ids PROVE FileOf(i) \in Directory!Files <=> recordFiles[i] # None
  BY <1>1 DEF FileOf, Directory!Files
<1> QED
  BY <1>1, <1>2, <1>3

\* A file is only gone when a record, a temporary file or a lock is.
LEMMA FilesGrow ==
  ASSUME \A i \in Ids : recordFiles[i] # None => recordFiles'[i] # None,
         \A o \in Ops : temps[o] # None => temps'[o] # None,
         locks \subseteq locks'
  PROVE  Directory!Files \subseteq Directory!Files'
<1> SUFFICES ASSUME NEW n \in Directory!Files PROVE n \in Directory!Files'
  OBVIOUS
<1>1. n \in Directory!FileNames
  BY DEF Directory!Files
<1>2. CASE n.kind = "record" /\ n.of \in Ids
  BY <1>1, <1>2 DEF Directory!Files
<1>3. CASE n.kind = "lock" /\ n.of \in Ids
  BY <1>1, <1>3 DEF Directory!Files
<1>4. CASE n.kind = "temp" /\ n.of \in Ops
  BY <1>1, <1>4 DEF Directory!Files
<1> QED
  BY <1>1, <1>2, <1>3, <1>4 DEF Directory!FileNames

\* Nobody need be told when nothing has gone and no record has changed.
LEMMA QuietTold ==
  ASSUME FilesInv, NEW p \in Ops, UNCHANGED <<recordFiles, held>>, vanished'[p] = vanished[p],
         Directory!Files \subseteq Directory!Files'
  PROVE  Told(p)
BY DEF FilesInv, ReaderKept, Told

\* Readers are told what becomes of the records.
LEMMA RecordsTold ==
  ASSUME FilesInv, NEW p \in Ops, Directory!Recorded,
         \/ Directory!Gone
         \/ vanished' = vanished /\ Directory!Files \subseteq Directory!Files'
  PROVE  Told(p)
<1>1. held'[p] = IF Directory!Reading(p) THEN [i \in Ids |-> held[p][i] \cup {recordFiles'[i]}]
                                         ELSE held[p]
  BY DEF Directory!Recorded
<1>2. vanished[p] => vanished'[p]
  BY DEF Directory!Gone
<1>3. Directory!Reading(p) => vanished'[p] \/ Directory!Files \subseteq Directory!Files'
  BY DEF Directory!Gone
<1> QED
  BY <1>1, <1>2, <1>3 DEF Told

\* Readers are told that a file has gone that is no record.
LEMMA GoneTold ==
  ASSUME FilesInv, NEW p \in Ops, UNCHANGED <<recordFiles, held>>, Directory!Gone
  PROVE  Told(p)
BY DEF FilesInv, ReaderKept, Told, Directory!Gone

\* The histories have their types when readers are told.
LEMMA HistoriesTyped ==
  ASSUME Directory!TypeOK, recordFiles' \in [Ids -> Values \cup {None}]
  PROVE  /\ Directory!Recorded =>
              held' \in [Ops -> [Ids -> SUBSET (Values \cup {None})]]
         /\ Directory!Gone => vanished' \in [Ops -> BOOLEAN]
<1>1. ASSUME NEW o \in Ops, NEW i \in Ids
      PROVE  held[o][i] \cup {recordFiles'[i]} \in SUBSET (Values \cup {None})
  BY DEF Directory!TypeOK
<1>2. ASSUME NEW o \in Ops
      PROVE  [i \in Ids |-> held[o][i] \cup {recordFiles'[i]}]
               \in [Ids -> SUBSET (Values \cup {None})]
  BY <1>1
<1>3. \A o \in Ops : held[o] \in [Ids -> SUBSET (Values \cup {None})]
  BY DEF Directory!TypeOK
<1>4. Directory!Recorded => held' \in [Ops -> [Ids -> SUBSET (Values \cup {None})]]
  BY <1>2, <1>3 DEF Directory!Recorded
<1>5. \A o \in Ops : (vanished[o] \/ Directory!Reading(o)) \in BOOLEAN
  BY DEF Directory!TypeOK, Directory!Reading
<1>6. Directory!Gone => vanished' \in [Ops -> BOOLEAN]
  BY <1>5 DEF Directory!Gone
<1> QED
  BY <1>4, <1>6

-----------------------------------------------------------------------------
\* The files and the histories have their types after a step.
RestTyped ==
  /\ recordFiles \in [Ids -> Values \cup {None}]
  /\ temps \in [Ops -> Directory!Temp \cup {None}]
  /\ locks \subseteq Ids
  /\ faults \in 0..MaxFaults
  /\ held \in [Ops -> [Ids -> SUBSET (Values \cup {None})]]
  /\ vanished \in [Ops -> BOOLEAN]

\* A step keeps the invariant when it does for the one who takes it and tells the others.
LEMMA StepKeeps ==
  ASSUME FilesInv, NEW o \in Ops, NEW k, Becomes(o, k), RestTyped', LocksKept',
         \A p \in Ops : p # o => temps'[p] = temps[p] /\ Told(p),
         TempKept(o)', ReaderKept(o)'
  PROVE  FilesInv'
<1>1. /\ ops' \in [Ops -> Directory!Op] /\ ops'[o] = k
      /\ \A p \in Ops : p # o => ops'[p] = ops[p]
  BY OthersStay DEF FilesInv
<1>2. Directory!TypeOK'
  BY <1>1 DEF Directory!TypeOK, RestTyped
<1>3. Shape(ops[o])'
  BY <1>1 DEF Becomes, Shape
<1>4. ASSUME NEW p \in Ops, p # o PROVE (Shape(ops[p]) /\ TempKept(p) /\ ReaderKept(p))'
  <2>1. ops'[p] = ops[p] /\ temps'[p] = temps[p] /\ Told(p)
    BY <1>1, <1>4
  <2>2. Shape(ops[p]) /\ TempKept(p) /\ ReaderKept(p)
    BY DEF FilesInv
  <2>3. ReaderKept(p)'
    BY <2>1, <2>2, StillKept
  <2> QED
    BY <2>1, <2>2, <2>3 DEF Shape, TempKept
<1> QED
  BY <1>2, <1>3, <1>4 DEF FilesInv

\* Nobody takes or leaves a lock.
LEMMA LocksStay ==
  ASSUME FilesInv, NEW o \in Ops, NEW k, Becomes(o, k), locks' = locks,
         k.locked /\ k.at \in Holding <=> Holds(o), Holds(o) => k.id = ops[o].id
  PROVE  LocksKept'
<1>1. ops'[o] = k /\ \A p \in Ops : p # o => ops'[p] = ops[p]
  BY OthersStay DEF FilesInv
<1>2. \A p \in Ops : /\ Holds(p)' <=> Holds(p)
                     /\ Holds(p) => ops'[p].id = ops[p].id
  BY <1>1 DEF Holds
<1> QED
  BY <1>2 DEF LocksKept, FilesInv
\* A step of which the files and the histories of the readers take no notice.
LEMMA AloneKeeps ==
  ASSUME FilesInv, NEW o \in Ops, NEW k, Becomes(o, k),
         UNCHANGED <<recordFiles, temps, locks, held, vanished>>, faults' \in 0..MaxFaults,
         k.locked /\ k.at \in Holding <=> Holds(o), Holds(o) => k.id = ops[o].id,
         TempKept(o)', ReaderKept(o)'
  PROVE  FilesInv'
<1>1. Directory!Files' = Directory!Files
  BY DEF Directory!Files
<1>2. \A p \in Ops : Told(p)
  BY <1>1, QuietTold
<1>3. LocksKept'
  BY LocksStay
<1>4. RestTyped'
  BY DEF FilesInv, Directory!TypeOK, RestTyped
<1> QED
  BY <1>2, <1>3, <1>4, StepKeeps

\* The places where nothing is known of the records.
Careless == {"lock", "create", "write", "rename", "discard", "unlock", "dead", "remove",
             "saved", "removed", "failed"}

\* At such a place an operation has nothing to keep as a reader.
LEMMA CarelessKept ==
  ASSUME NEW o \in Ops, ops[o].at \in Careless PROVE ReaderKept(o)
BY DEF Careless, ReaderKept, GetKept, ListKept, Directory!Reading, Directory!Readers

\* An operation begins with the records it finds.
LEMMA BeginKeeps ==
  ASSUME FilesInv, NEW o \in Ops, NEW id \in Ids \cup {None}, NEW value \in Values \cup {None},
         NEW locked \in BOOLEAN, NEW place \in {"lock", "create", "remove", "exists", "readdir"},
         place # "readdir" => id \in Ids,
         place \in {"lock", "create"} => value \in Values,
         place = "exists" => value = None, place = "lock" => locked,
         place \in {"create", "readdir"} => ~locked,
         Directory!Begin(o, place, id, value, locked)
  PROVE  FilesInv'
<1>0. Directory!TypeOK /\ Shape(ops[o]) /\ ops[o] \in Directory!Op /\ ops[o].at = "new"
  BY DEF FilesInv, Directory!TypeOK, Directory!Begin, Directory!At
<1> DEFINE k == [ops[o] EXCEPT !.at = place, !.id = id, !.value = value, !.locked = locked]
<1>1. /\ k.at = place /\ k.id = id /\ k.value = value /\ k.locked = locked
      /\ k.stats = {} /\ k.reads = {} /\ k.found = {}
  BY <1>0 DEF Directory!Op, Shape
<1>2. k \in Directory!Op
  BY <1>0 DEF Directory!Op
<1>3. Shape(k)
  BY <1>1 DEF Shape
<1>4. Becomes(o, k)
  BY <1>2, <1>3 DEF Becomes, Directory!Begin
<1> HIDE DEF k
<1>5. /\ ops' \in [Ops -> Directory!Op] /\ ops'[o] = k
      /\ \A p \in Ops : p # o => ops'[p] = ops[p]
  BY <1>0, <1>4, OthersStay
<1>6. /\ UNCHANGED <<recordFiles, temps, locks, faults>>
      /\ held' = [held EXCEPT ![o] = [i \in Ids |-> IF place \in Directory!Readers
                                                      THEN {recordFiles[i]} ELSE {}]]
      /\ vanished' = [vanished EXCEPT ![o] = FALSE]
  BY DEF Directory!Begin
<1>7. RestTyped'
  <2>1. [i \in Ids |-> IF place \in Directory!Readers THEN {recordFiles[i]} ELSE {}]
          \in [Ids -> SUBSET (Values \cup {None})]
    BY <1>0 DEF Directory!TypeOK
  <2>2. held' \in [Ops -> [Ids -> SUBSET (Values \cup {None})]]
    BY <1>0, <1>6, <2>1 DEF Directory!TypeOK
  <2> QED
    BY <1>0, <1>6, <2>2 DEF Directory!TypeOK, RestTyped
<1>8. LocksKept'
  BY <1>0, <1>1, <1>4, <1>6, LocksStay DEF Holds, Holding
<1>9. ASSUME NEW p \in Ops, p # o PROVE temps'[p] = temps[p] /\ Told(p)
  <2>1. held'[p] = held[p] /\ vanished'[p] = vanished[p]
    BY <1>0, <1>6, <1>9 DEF Directory!TypeOK
  <2>2. Directory!Files' = Directory!Files
    BY <1>6 DEF Directory!Files
  <2>3. ReaderKept(p)
    BY DEF FilesInv
  <2> QED
    BY <1>6, <2>1, <2>2, <2>3 DEF Told, ReaderKept
<1>10. temps'[o] = None
  BY <1>0, <1>6 DEF FilesInv, TempKept
<1>11. (TempKept(o) /\ ReaderKept(o))'
  <2>1. CASE place \in {"lock", "create", "remove"}
    BY <1>1, <1>5, <1>10, <2>1 DEF Careless, TempKept, ReaderKept, GetKept, ListKept,
       Directory!Reading, Directory!Readers
  <2>2. CASE place \in {"exists", "readdir"}
    <3>1. \A i \in Ids : recordFiles'[i] \in held'[o][i]
      BY <1>0, <1>6, <2>2 DEF Directory!TypeOK, Directory!Readers
    <3> QED
      BY <1>1, <1>5, <1>10, <2>2, <3>1 DEF TempKept, ReaderKept, GetKept, ListKept
  <2> QED
    BY <2>1, <2>2
<1> QED
  BY <1>4, <1>7, <1>8, <1>9, <1>11, StepKeeps

\* The choice of an operation.
LEMMA BeginsKeep ==
  ASSUME FilesInv, NEW o \in Ops,
         \/ Directory!BeginSave(o) \/ Directory!BeginRemove(o)
         \/ Directory!BeginGet(o) \/ Directory!BeginList(o)
  PROVE  FilesInv'
<1>1. CASE Directory!BeginSave(o)
  <2>1. PICK id \in Ids, value \in Values, locked \in BOOLEAN :
          Directory!Begin(o, IF locked THEN "lock" ELSE "create", id, value, locked)
    BY <1>1 DEF Directory!BeginSave
  <2>2. CASE locked
    <3>1. Directory!Begin(o, "lock", id, value, locked)
      BY <2>1, <2>2
    <3> QED
      BY <2>2, <3>1, BeginKeeps
  <2>3. CASE ~locked
    <3>1. Directory!Begin(o, "create", id, value, locked)
      BY <2>1, <2>3
    <3> QED
      BY <2>3, <3>1, BeginKeeps
  <2> QED
    BY <2>2, <2>3
<1>2. CASE Directory!BeginRemove(o)
  <2>1. PICK id \in Ids : Directory!Begin(o, "remove", id, None, FALSE)
    BY <1>2 DEF Directory!BeginRemove
  <2> QED
    BY <2>1, BeginKeeps
<1>3. CASE Directory!BeginGet(o)
  <2>1. PICK id \in Ids : Directory!Begin(o, "exists", id, None, FALSE)
    BY <1>3 DEF Directory!BeginGet
  <2> QED
    BY <2>1, BeginKeeps
<1>4. CASE Directory!BeginList(o)
  BY <1>4, BeginKeeps DEF Directory!BeginList
<1> QED
  BY <1>1, <1>2, <1>3, <1>4
-----------------------------------------------------------------------------
\* A save takes the lock that nobody holds.
LEMMA LockKeeps ==
  ASSUME FilesInv, NEW o \in Ops, Directory!Lock(o) PROVE FilesInv'
<1>0. Directory!TypeOK /\ Shape(ops[o]) /\ ops[o].at = "lock" /\ temps[o] = None
  BY DEF FilesInv, Directory!Lock, Directory!At, TempKept
<1>1. PICK k \in Directory!Op :
        /\ ops' = [ops EXCEPT ![o] = k]
        /\ k.at = "create" /\ k.id = ops[o].id /\ k.value = ops[o].value
        /\ k.locked = ops[o].locked
        /\ k.stats = ops[o].stats /\ k.reads = ops[o].reads /\ k.found = ops[o].found
  BY <1>0, Going DEF Directory!Lock, Places
<1>2. Becomes(o, k)
  BY <1>0, <1>1 DEF Becomes, Shape
<1>3. ops'[o] = k /\ \A p \in Ops : p # o => ops'[p] = ops[p]
  BY <1>0, <1>2, OthersStay
<1>4. /\ UNCHANGED <<recordFiles, temps, faults, held, vanished>>
      /\ ops[o].id \in Ids \ locks /\ locks' = locks \cup {ops[o].id}
  BY <1>0 DEF Directory!Lock, Shape
<1>5. RestTyped'
  BY <1>0, <1>4 DEF Directory!TypeOK, RestTyped
<1>6. \A p \in Ops : Told(p)
  <2>1. Directory!Files \subseteq Directory!Files'
    BY <1>4, FilesGrow
  <2> QED
    BY <1>4, <2>1, QuietTold
<1>7. LocksKept'
  <2>1. \A p \in Ops : p # o => (Holds(p)' <=> Holds(p)) /\ ops'[p].id = ops[p].id
    BY <1>3 DEF Holds
  <2>2. Holds(o)' => ops'[o].id \notin locks
    BY <1>1, <1>3, <1>4
  <2>3. ops[o].locked => Holds(o)' /\ ops'[o].id = ops[o].id
    BY <1>1, <1>3 DEF Holds, Holding
  <2>4. ~Holds(o)
    BY <1>0 DEF Holds, Holding
  <2>5. ops[o].locked
    BY <1>0 DEF Shape
  <2> QED
    BY <1>1, <1>3, <1>4, <2>1, <2>2, <2>3, <2>4, <2>5 DEF LocksKept, FilesInv
<1>8. (TempKept(o) /\ ReaderKept(o))'
  <2>1. ReaderKept(o)'
    BY <1>1, <1>3 DEF Careless, ReaderKept, GetKept, ListKept, Directory!Reading,
       Directory!Readers
  <2> QED
    BY <1>0, <1>1, <1>3, <1>4, <2>1 DEF TempKept
<1> QED
  BY <1>2, <1>4, <1>5, <1>6, <1>7, <1>8, StepKeeps

\* A save creates its temporary file and writes it.
LEMMA TempsKeep ==
  ASSUME Directory!FilesAssumption, FilesInv, NEW o \in Ops,
         Directory!CreateTemp(o) \/ Directory!WriteTemp(o)
  PROVE  FilesInv'
<1>0. Directory!TypeOK /\ Shape(ops[o]) /\ ops[o].at \in {"create", "write"}
  BY DEF FilesInv, Directory!CreateTemp, Directory!WriteTemp, Directory!At
<1>1. PICK place \in {"write", "rename"}, temp \in Directory!Temp :
        /\ Directory!Goto(o, place) /\ temps' = [temps EXCEPT ![o] = temp]
        /\ place = "rename" => temp = ops[o].value
        /\ temp # None \/ temps[o] = None
        /\ UNCHANGED <<recordFiles, locks, faults, held, vanished>>
  <2>1. CASE Directory!CreateTemp(o)
    <3>1. temps[o] = None
      BY <2>1 DEF FilesInv, TempKept, Directory!CreateTemp, Directory!At
    <3> QED
      BY <2>1, <3>1 DEF Directory!CreateTemp, Directory!Temp
  <2>2. CASE Directory!WriteTemp(o)
    <3>1. ops[o].value \in Values /\ ops[o].value # None
      BY <1>0, <2>2 DEF Directory!WriteTemp, Directory!At, Shape, Directory!FilesAssumption
    <3> QED
      BY <2>2, <3>1 DEF Directory!WriteTemp, Directory!Temp
  <2> QED
    BY <2>1, <2>2
<1>2. PICK k \in Directory!Op :
        /\ ops' = [ops EXCEPT ![o] = k]
        /\ k.at = place /\ k.id = ops[o].id /\ k.value = ops[o].value
        /\ k.locked = ops[o].locked
        /\ k.stats = ops[o].stats /\ k.reads = ops[o].reads /\ k.found = ops[o].found
  BY <1>0, <1>1, Going DEF Places
<1>3. Becomes(o, k)
  BY <1>0, <1>2 DEF Becomes, Shape
<1>4. ops'[o] = k
  BY <1>0, <1>3, OthersStay
<1>5. RestTyped'
  BY <1>0, <1>1 DEF Directory!TypeOK, RestTyped
<1>6. /\ temps'[o] = temp
      /\ \A p \in Ops : p # o => temps'[p] = temps[p]
  BY <1>0, <1>1 DEF Directory!TypeOK
<1>7. CASE \A p \in Ops : temps[p] # None => temps'[p] # None
  <2>1. Directory!Files \subseteq Directory!Files'
    BY <1>1, <1>7, FilesGrow
  <2>2. \A p \in Ops : Told(p)
    BY <1>1, <2>1, QuietTold
  <2>3. LocksKept'
    BY <1>0, <1>1, <1>2, <1>3, LocksStay DEF Holds, Holding
  <2>4. ReaderKept(o)'
    BY <1>2, <1>4 DEF Careless, ReaderKept, GetKept, ListKept, Directory!Reading,
       Directory!Readers
  <2>5. TempKept(o)'
    BY <1>1, <1>2, <1>4, <1>6 DEF TempKept
  <2> QED
    BY <1>3, <1>5, <1>6, <2>2, <2>3, <2>4, <2>5, StepKeeps
<1> QED
  BY <1>1, <1>6, <1>7
\* A save whose lock is not free gives up.
LEMMA LockFailsKeeps ==
  ASSUME FilesInv, NEW o \in Ops, Directory!LockFails(o) PROVE FilesInv'
<1>0. Directory!TypeOK /\ ops[o].at = "lock" /\ temps[o] = None
  BY DEF FilesInv, Directory!LockFails, Directory!At, TempKept
<1>1. PICK k : Becomes(o, k) /\ k.at = "failed"
  BY <1>0, Ending DEF Directory!LockFails
<1>2. ops'[o] = k
  BY <1>0, <1>1, OthersStay
<1>3. UNCHANGED <<recordFiles, temps, locks, faults, held, vanished>>
  BY DEF Directory!LockFails
<1>4. (TempKept(o) /\ ReaderKept(o))'
  BY <1>0, <1>1, <1>2, <1>3 DEF TempKept, ReaderKept, GetKept, ListKept, Directory!Reading,
     Directory!Readers
<1>5. faults' \in 0..MaxFaults
  BY <1>0, <1>3 DEF Directory!TypeOK
<1>6. ~Holds(o) /\ k.at \notin Holding
  BY <1>0, <1>1 DEF Holds, Holding
<1> QED
  BY <1>1, <1>3, <1>4, <1>5, <1>6, AloneKeeps

\* A write that fails is given up, and a process that dies leaves its files.
LEMMA FaultsKeep ==
  ASSUME Directory!FilesAssumption, FilesInv, NEW o \in Ops,
         Directory!WriteFails(o) \/ Directory!Die(o)
  PROVE  FilesInv'
<1>0. /\ Directory!TypeOK /\ Shape(ops[o])
      /\ ops[o].at \in {"create", "write", "rename", "discard", "unlock"}
  BY DEF FilesInv, Directory!WriteFails, Directory!Die
<1>1. PICK place \in {"discard", "dead"} :
        /\ Directory!Goto(o, place) /\ Directory!Fault
        /\ ops[o].at \in {"create", "write", "rename"} \/ place = "dead"
        /\ UNCHANGED <<recordFiles, temps, locks, held, vanished>>
  BY DEF Directory!WriteFails, Directory!Die
<1>2. PICK k \in Directory!Op :
        /\ ops' = [ops EXCEPT ![o] = k]
        /\ k.at = place /\ k.id = ops[o].id /\ k.value = ops[o].value
        /\ k.locked = ops[o].locked
        /\ k.stats = ops[o].stats /\ k.reads = ops[o].reads /\ k.found = ops[o].found
  BY <1>0, <1>1, Going DEF Places
<1>3. Becomes(o, k)
  BY <1>0, <1>1, <1>2 DEF Becomes, Shape
<1>4. ops'[o] = k
  BY <1>0, <1>3, OthersStay
<1>5. faults' \in 0..MaxFaults
  BY <1>0, <1>1 DEF Directory!Fault, Directory!TypeOK, Directory!FilesAssumption
<1>6. ReaderKept(o)'
  BY <1>2, <1>4 DEF ReaderKept, GetKept, ListKept, Directory!Reading, Directory!Readers
<1>7. TempKept(o)'
  BY <1>1, <1>2, <1>4 DEF TempKept
<1>8. k.locked /\ k.at \in Holding <=> Holds(o)
  BY <1>0, <1>1, <1>2 DEF Holds, Holding
<1> QED
  BY <1>1, <1>2, <1>3, <1>5, <1>6, <1>7, <1>8, AloneKeeps

\* A save that leaves holds its lock as before, if it has one.
LEMMA LeftLocks ==
  ASSUME FilesInv, NEW o \in Ops, NEW k, Becomes(o, k), locks' = locks,
         ops[o].at \in {"rename", "discard"},
         IF ops[o].locked THEN k.at = "unlock" /\ k.locked /\ k.id = ops[o].id
                          ELSE k.at \in {"saved", "failed"}
  PROVE  /\ LocksKept'
         /\ temps'[o] = None => (TempKept(o) /\ ReaderKept(o))'
<1>1. ops'[o] = k
  BY OthersStay DEF FilesInv
<1>2. LocksKept'
  BY LocksStay DEF Holds, Holding
<1>3. ReaderKept(o)'
  BY <1>1 DEF ReaderKept, GetKept, ListKept, Directory!Reading, Directory!Readers
<1>4. temps'[o] = None => TempKept(o)'
  BY <1>1 DEF TempKept
<1> QED
  BY <1>2, <1>3, <1>4

\* The record becomes what the save has written.
LEMMA RenameKeeps ==
  ASSUME FilesInv, NEW o \in Ops, Directory!Rename(o) PROVE FilesInv'
<1>0. /\ Directory!TypeOK /\ Shape(ops[o]) /\ ops[o].at = "rename" /\ ops[o].id \in Ids
      /\ temps[o] = ops[o].value /\ ops[o].value \in Values
  BY DEF FilesInv, Directory!Rename, Directory!At, TempKept, Shape
<1>1. PICK k : /\ Becomes(o, k)
               /\ IF ops[o].locked THEN k.at = "unlock" /\ k.locked /\ k.id = ops[o].id
                                   ELSE k.at = "saved"
  <2>1. Directory!Leave(o, ops[o].value, "saved")
    BY DEF Directory!Rename
  <2> QED
    BY <1>0, <2>1, Leaving
<1>2. /\ recordFiles' = [recordFiles EXCEPT ![ops[o].id] = temps[o]]
      /\ temps' = [temps EXCEPT ![o] = None]
      /\ Directory!Recorded /\ Directory!Gone
      /\ UNCHANGED <<locks, faults>>
  BY DEF Directory!Rename
<1>3. RestTyped'
  <2>1. recordFiles' \in [Ids -> Values \cup {None}]
    BY <1>0, <1>2 DEF Directory!TypeOK
  <2> QED
    BY <1>0, <1>2, <2>1, HistoriesTyped DEF Directory!TypeOK, RestTyped
<1>4. /\ temps'[o] = None
      /\ \A p \in Ops : p # o => temps'[p] = temps[p] /\ Told(p)
  BY <1>0, <1>2, RecordsTold DEF Directory!TypeOK
<1>5. LocksKept' /\ (TempKept(o) /\ ReaderKept(o))'
  BY <1>0, <1>1, <1>2, <1>4, LeftLocks
<1> QED
  BY <1>1, <1>3, <1>4, <1>5, StepKeeps

\* A save gives its temporary file up.
LEMMA DiscardKeeps ==
  ASSUME FilesInv, NEW o \in Ops, Directory!Discard(o) PROVE FilesInv'
<1>0. /\ Directory!TypeOK /\ Shape(ops[o]) /\ ops[o].at = "discard" /\ ops[o].id \in Ids
  BY DEF FilesInv, Directory!Discard, Directory!At, Shape
<1>1. PICK k : /\ Becomes(o, k)
               /\ IF ops[o].locked THEN k.at = "unlock" /\ k.locked /\ k.id = ops[o].id
                                   ELSE k.at = "failed"
  <2>1. Directory!Leave(o, None, "failed")
    BY DEF Directory!Discard
  <2> QED
    BY <1>0, <2>1, Leaving
<1>2. /\ temps' = [temps EXCEPT ![o] = None]
      /\ UNCHANGED <<recordFiles, locks, faults, held>>
      /\ IF temps[o] # None THEN Directory!Gone ELSE UNCHANGED vanished
  BY DEF Directory!Discard
<1>3. /\ temps'[o] = None
      /\ \A p \in Ops : p # o => temps'[p] = temps[p]
  BY <1>0, <1>2 DEF Directory!TypeOK
<1>4. \A p \in Ops : Told(p)
  <2>1. CASE temps[o] # None
    BY <1>2, <2>1, GoneTold
  <2>2. CASE temps[o] = None
    <3>1. Directory!Files \subseteq Directory!Files'
      BY <1>2, <1>3, <2>2, FilesGrow
    <3> QED
      BY <1>2, <2>2, <3>1, QuietTold
  <2> QED
    BY <2>1, <2>2
<1>5. RestTyped'
  <2>1. recordFiles' \in [Ids -> Values \cup {None}] /\ vanished' \in [Ops -> BOOLEAN]
    BY <1>0, <1>2, HistoriesTyped DEF Directory!TypeOK
  <2> QED
    BY <1>0, <1>2, <2>1 DEF Directory!TypeOK, RestTyped
<1>6. LocksKept' /\ (TempKept(o) /\ ReaderKept(o))'
  BY <1>0, <1>1, <1>2, <1>3, LeftLocks
<1> QED
  BY <1>1, <1>3, <1>4, <1>5, <1>6, StepKeeps

\* A save removes its lock file and ends.
LEMMA UnlockKeeps ==
  ASSUME FilesInv, NEW o \in Ops, Directory!Unlock(o) PROVE FilesInv'
<1>0. /\ Directory!TypeOK /\ Shape(ops[o]) /\ ops[o].at = "unlock" /\ ops[o].locked
      /\ temps[o] = None
  BY DEF FilesInv, Directory!Unlock, Directory!At, Shape, TempKept
<1>1. PICK k : Becomes(o, k) /\ k.at \in {"saved", "failed"}
  <2>1. PICK place \in {"saved", "failed"} : Directory!End(o, place)
    BY DEF Directory!Unlock
  <2> QED
    BY <1>0, <2>1, Ending
<1>2. /\ locks' = locks \ {ops[o].id}
      /\ UNCHANGED <<recordFiles, temps, faults, held>> /\ Directory!Gone
  BY DEF Directory!Unlock
<1>3. ops'[o] = k /\ \A p \in Ops : p # o => ops'[p] = ops[p]
  BY <1>0, <1>1, OthersStay
<1>4. \A p \in Ops : Told(p)
  BY <1>2, GoneTold
<1>5. RestTyped'
  BY <1>0, <1>2, HistoriesTyped DEF Directory!TypeOK, RestTyped
<1>6. LocksKept'
  <2>1. Holds(o) /\ ~Holds(o)'
    BY <1>0, <1>1, <1>3 DEF Holds, Holding
  <2>2. \A p \in Ops : p # o => (Holds(p)' <=> Holds(p)) /\ ops'[p].id = ops[p].id
    BY <1>3 DEF Holds
  <2> QED
    BY <1>2, <2>1, <2>2 DEF LocksKept, FilesInv
<1>7. (TempKept(o) /\ ReaderKept(o))'
  BY <1>0, <1>1, <1>2, <1>3 DEF TempKept, ReaderKept, GetKept, ListKept, Directory!Reading,
     Directory!Readers
<1> QED
  BY <1>1, <1>2, <1>4, <1>5, <1>6, <1>7, StepKeeps
-----------------------------------------------------------------------------
\* A record is removed, and a reader of an expired value has its answer.
LEMMA RemoveKeeps ==
  ASSUME FilesInv, NEW o \in Ops, Directory!Remove(o) PROVE FilesInv'
<1>0. /\ Directory!TypeOK /\ Shape(ops[o]) /\ ops[o].at \in {"remove", "expire"}
      /\ ops[o].id \in Ids /\ temps[o] = None /\ ReaderKept(o)
  BY DEF FilesInv, Directory!Remove, Shape, TempKept
<1>1. PICK place \in {"removed", "got"} :
        /\ Directory!Goto(o, place)
        /\ place = "got" <=> ops[o].at = "expire"
  BY <1>0 DEF Directory!Remove, Directory!At
<1>2. PICK k \in Directory!Op :
        /\ ops' = [ops EXCEPT ![o] = k]
        /\ k.at = place /\ k.id = ops[o].id /\ k.value = ops[o].value
        /\ k.locked = ops[o].locked
        /\ k.stats = ops[o].stats /\ k.reads = ops[o].reads /\ k.found = ops[o].found
  BY <1>0, <1>1, Going DEF Places
<1>3. Becomes(o, k)
  BY <1>0, <1>1, <1>2 DEF Becomes, Shape
<1>4. ops'[o] = k
  BY <1>0, <1>3, OthersStay
<1>5. /\ recordFiles' = [recordFiles EXCEPT ![ops[o].id] = None]
      /\ Directory!Recorded
      /\ IF recordFiles[ops[o].id] # None THEN Directory!Gone ELSE UNCHANGED vanished
      /\ UNCHANGED <<temps, locks, faults>>
  BY DEF Directory!Remove
<1>6. \A p \in Ops : Told(p)
  <2>1. CASE recordFiles[ops[o].id] # None
    BY <1>5, <2>1, RecordsTold
  <2>2. CASE recordFiles[ops[o].id] = None
    <3>1. \A i \in Ids : recordFiles[i] # None => recordFiles'[i] # None
      BY <1>0, <1>5, <2>2 DEF Directory!TypeOK
    <3>2. Directory!Files \subseteq Directory!Files'
      BY <1>5, <3>1, FilesGrow
    <3> QED
      BY <1>5, <2>2, <3>2, RecordsTold
  <2> QED
    BY <2>1, <2>2
<1>7. RestTyped'
  <2>1. recordFiles' \in [Ids -> Values \cup {None}]
    BY <1>0, <1>5 DEF Directory!TypeOK
  <2> QED
    BY <1>0, <1>5, <2>1, HistoriesTyped DEF Directory!TypeOK, RestTyped
<1>8. LocksKept'
  BY <1>0, <1>1, <1>2, <1>3, <1>5, LocksStay DEF Holds, Holding
<1>9. ReaderKept(o)'
  <2>1. CASE place = "removed"
    BY <1>2, <1>4, <2>1 DEF ReaderKept, GetKept, ListKept, Directory!Reading, Directory!Readers
  <2>2. CASE place = "got"
    <3>1. Directory!Reading(o) /\ ops[o].at = "expire"
      BY <1>1, <2>2 DEF Directory!Reading, Directory!Readers
    <3>2. held[o][k.id] \cap Expired # {} /\ held[o][k.id] \subseteq held'[o][k.id]
      BY <1>0, <1>2, <1>6, <3>1 DEF ReaderKept, GetKept, Told
    <3>3. k.value = None
      BY <1>0, <1>2, <3>1 DEF Shape
    <3> QED
      BY <1>2, <1>4, <2>2, <3>2, <3>3 DEF ReaderKept, GetKept, ListKept, Directory!Reading,
         Directory!Readers
  <2> QED
    BY <2>1, <2>2
<1>10. TempKept(o)'
  BY <1>0, <1>1, <1>2, <1>4, <1>5 DEF TempKept
<1> QED
  BY <1>3, <1>5, <1>6, <1>7, <1>8, <1>9, <1>10, StepKeeps

\* A reader looks at the files and leaves them alone.
LEMMA LookKeeps ==
  ASSUME FilesInv, NEW o \in Ops, NEW k, Becomes(o, k),
         UNCHANGED <<recordFiles, temps, locks, faults, held, vanished>>,
         Directory!Reading(o), k.at \in Directory!Readers \cup {"got", "listed", "unread"},
         (GetKept(o) /\ ListKept(o))'
  PROVE  FilesInv'
<1>0. Directory!TypeOK /\ temps[o] = None /\ ReaderKept(o)
  BY DEF FilesInv, TempKept, Directory!Reading, Directory!Readers
<1>1. ops'[o] = k
  BY <1>0, OthersStay
<1>2. \A i \in Ids : recordFiles'[i] \in held'[o][i]
  BY <1>0 DEF ReaderKept
<1>3. (TempKept(o) /\ ReaderKept(o))'
  BY <1>0, <1>1, <1>2 DEF TempKept, ReaderKept, Directory!Readers
<1>4. ~Holds(o) /\ k.at \notin Holding
  BY DEF Holds, Holding, Directory!Reading, Directory!Readers
<1>5. faults' \in 0..MaxFaults
  BY <1>0 DEF Directory!TypeOK
<1> QED
  BY <1>3, <1>4, <1>5, AloneKeeps

\* A get looks for the file of its record.
LEMMA ExistsKeeps ==
  ASSUME FilesInv, NEW o \in Ops, Directory!Exists(o) PROVE FilesInv'
<1>0. /\ Directory!TypeOK /\ Shape(ops[o]) /\ ops[o].at = "exists" /\ ops[o].id \in Ids
      /\ ops[o].value = None /\ ReaderKept(o) /\ Directory!Reading(o)
      /\ UNCHANGED <<recordFiles, temps, locks, faults, held, vanished>>
  BY DEF FilesInv, Directory!Exists, Directory!At, Shape, Directory!Reading, Directory!Readers
<1>1. PICK place \in {"got", "read"} :
        /\ Directory!Goto(o, place)
        /\ place = "got" <=> recordFiles[ops[o].id] = None
  BY DEF Directory!Exists
<1>2. PICK k \in Directory!Op :
        /\ ops' = [ops EXCEPT ![o] = k]
        /\ k.at = place /\ k.id = ops[o].id /\ k.value = ops[o].value
        /\ k.locked = ops[o].locked
        /\ k.stats = ops[o].stats /\ k.reads = ops[o].reads /\ k.found = ops[o].found
  BY <1>0, <1>1, Going DEF Places
<1>3. Becomes(o, k)
  BY <1>0, <1>1, <1>2 DEF Becomes, Shape
<1>4. ops'[o] = k
  BY <1>0, <1>3, OthersStay
<1>5. recordFiles[k.id] \in held[o][k.id]
  BY <1>0, <1>2 DEF ReaderKept
<1>6. place = "read" => FileOf(k.id) \in Directory!Files
  BY <1>0, <1>1, <1>2, RecordNames
<1>7. Directory!Files' = Directory!Files
  BY <1>0 DEF Directory!Files
<1>8. (GetKept(o) /\ ListKept(o))'
  BY <1>0, <1>1, <1>2, <1>4, <1>5, <1>6, <1>7 DEF GetKept, ListKept, FileOf
<1> QED
  BY <1>0, <1>1, <1>2, <1>3, <1>8, LookKeeps DEF Directory!Readers

\* A get reads the file that was there, if it still is.
LEMMA ReadKeeps ==
  ASSUME FilesInv, NEW o \in Ops, Directory!Read(o) PROVE FilesInv'
<1>0. /\ Directory!TypeOK /\ Shape(ops[o]) /\ ops[o].at = "read" /\ ops[o].id \in Ids
      /\ ops[o].value = None /\ ReaderKept(o) /\ Directory!Reading(o)
      /\ UNCHANGED <<recordFiles, temps, locks, faults, held, vanished>>
  BY DEF FilesInv, Directory!Read, Directory!At, Shape, Directory!Reading, Directory!Readers
<1>1. recordFiles[ops[o].id] \in held[o][ops[o].id]
  BY <1>0 DEF ReaderKept
<1>2. CASE recordFiles[ops[o].id] = None \/ recordFiles[ops[o].id] \in Expired
  <2>1. PICK place \in {"unread", "expire"} :
          /\ Directory!Goto(o, place)
          /\ IF place = "unread" THEN recordFiles[ops[o].id] = None
                                 ELSE recordFiles[ops[o].id] \in Expired
    BY <1>2 DEF Directory!Read
  <2>2. PICK k \in Directory!Op :
          /\ ops' = [ops EXCEPT ![o] = k]
          /\ k.at = place /\ k.id = ops[o].id /\ k.value = ops[o].value
          /\ k.locked = ops[o].locked
          /\ k.stats = ops[o].stats /\ k.reads = ops[o].reads /\ k.found = ops[o].found
    BY <1>0, <2>1, Going DEF Places
  <2>3. Becomes(o, k)
    BY <1>0, <2>1, <2>2 DEF Becomes, Shape
  <2>4. ops'[o] = k
    BY <1>0, <2>3, OthersStay
  <2>5. place = "unread" => vanished[o]
    <3>1. recordFiles[ops[o].id] = None => FileOf(ops[o].id) \notin Directory!Files
      BY <1>0, RecordNames
    <3> QED
      BY <1>0, <2>1, <3>1 DEF ReaderKept, GetKept
  <2>6. place = "expire" => held[o][k.id] \cap Expired # {}
    BY <1>1, <2>1, <2>2
  <2>7. (GetKept(o) /\ ListKept(o))'
    BY <1>0, <2>1, <2>2, <2>4, <2>5, <2>6 DEF GetKept, ListKept
  <2> QED
    BY <1>0, <2>1, <2>2, <2>3, <2>7, LookKeeps DEF Directory!Readers
<1>3. CASE recordFiles[ops[o].id] # None /\ recordFiles[ops[o].id] \notin Expired
  <2> DEFINE k == [ops[o] EXCEPT !.at = "got", !.value = recordFiles[ops[o].id]]
  <2>1. ops[o] \in Directory!Op /\ recordFiles[ops[o].id] \in Values
    BY <1>0, <1>3 DEF Directory!TypeOK
  <2>2. /\ k \in Directory!Op /\ k.at = "got" /\ k.id = ops[o].id
        /\ k.value = recordFiles[ops[o].id] /\ k.reads = ops[o].reads
    BY <2>1 DEF Directory!Op
  <2>3. ops' = [ops EXCEPT ![o] = k]
    BY <1>3 DEF Directory!Read
  <2>4. Becomes(o, k)
    BY <1>0, <2>2, <2>3 DEF Becomes, Shape
  <2> HIDE DEF k
  <2>5. ops'[o] = k
    BY <1>0, <2>4, OthersStay
  <2>6. (GetKept(o) /\ ListKept(o))'
    BY <1>0, <1>1, <2>2, <2>5 DEF GetKept, ListKept
  <2> QED
    BY <1>0, <2>2, <2>4, <2>6, LookKeeps
<1> QED
  BY <1>2, <1>3
-----------------------------------------------------------------------------
\* An operation that goes on as a listing, with other names.
ListingOf(k, stats, reads, found) ==
  [k EXCEPT !.at = "list", !.stats = stats, !.reads = reads, !.found = found]

\* What a listing may have still to look at and have found.
Listable(stats, reads, found) ==
  /\ stats \subseteq Directory!FileNames
  /\ reads \subseteq Directory!FileNames
  /\ found \subseteq [name : Directory!FileNames, value : Directory!Temp]
  /\ \A n \in reads : n.kind = "record"

\* A listing goes on with other names.
LEMMA Listing ==
  ASSUME FilesInv, NEW o \in Ops, NEW stats, NEW reads, NEW found,
         Listable(stats, reads, found), NEW k, k = ListingOf(ops[o], stats, reads, found)
  PROVE  /\ k \in Directory!Op /\ Shape(k) /\ k.at = "list"
         /\ k.stats = stats /\ k.reads = reads /\ k.found = found
<1>1. ops[o] \in Directory!Op
  BY DEF FilesInv, Directory!TypeOK
<1>2. /\ k \in Directory!Op /\ k.at = "list"
      /\ k.stats = stats /\ k.reads = reads /\ k.found = found
  BY <1>1 DEF Directory!Op, ListingOf, Listable
<1>3. Shape(k)
  BY <1>2 DEF Shape, Listable
<1> QED
  BY <1>2, <1>3

\* A listing takes the names of the files there are.
LEMMA ReadDirKeeps ==
  ASSUME FilesInv, NEW o \in Ops, Directory!ReadDir(o) PROVE FilesInv'
<1>0. /\ Directory!TypeOK /\ ops[o].at = "readdir" /\ ops[o] \in Directory!Op
      /\ ops[o].reads = {} /\ ops[o].found = {} /\ ReaderKept(o) /\ Directory!Reading(o)
      /\ UNCHANGED <<recordFiles, temps, locks, faults, held, vanished>>
  BY DEF FilesInv, Directory!ReadDir, Directory!At, Shape, Directory!Reading, Directory!Readers,
     Directory!TypeOK
<1>1. PICK k : /\ Becomes(o, k) /\ k.at = "list"
               /\ k.stats = Directory!Files /\ k.reads = {} /\ k.found = {}
  <2>1. PICK k : k = ListingOf(ops[o], Directory!Files, {}, {})
    OBVIOUS
  <2>2. /\ k \in Directory!Op /\ Shape(k) /\ k.at = "list"
        /\ k.stats = Directory!Files /\ k.reads = {} /\ k.found = {}
    <3>1. Listable(Directory!Files, {}, {})
      BY DEF Directory!Files, Listable
    <3> QED
      BY <2>1, <3>1, Listing
  <2>3. [ops[o] EXCEPT !.at = "list", !.stats = Directory!Files] = k
    BY <1>0, <2>1 DEF Directory!Op, ListingOf
  <2>4. ops' = [ops EXCEPT ![o] = k]
    BY <2>3 DEF Directory!ReadDir
  <2> QED
    BY <2>2, <2>4 DEF Becomes
<1>2. ops'[o] = k
  BY <1>0, <1>1, OthersStay
<1>3. Directory!Files' = Directory!Files
  BY <1>0 DEF Directory!Files
<1>4. \A i \in Ids : FileOf(i) \in Directory!Files \/ None \in held[o][i]
  BY <1>0, RecordNames DEF ReaderKept
<1>5. (GetKept(o) /\ ListKept(o))'
  BY <1>0, <1>1, <1>2, <1>3, <1>4 DEF GetKept, ListKept, FileOf
<1> QED
  BY <1>0, <1>1, <1>5, LookKeeps DEF Directory!Readers

\* A listing finds that a name it has still to look at is gone, and fails.
LEMMA UnreadKeeps ==
  ASSUME FilesInv, NEW o \in Ops, ops[o].at = "list",
         NEW name \in ops[o].stats \cup ops[o].reads, name \notin Directory!Files,
         Directory!Goto(o, "unread"),
         UNCHANGED <<recordFiles, temps, locks, faults, held, vanished>>
  PROVE  FilesInv'
<1>0. Directory!TypeOK /\ Shape(ops[o]) /\ ReaderKept(o) /\ Directory!Reading(o)
  BY DEF FilesInv, Directory!Reading, Directory!Readers
<1>1. PICK k \in Directory!Op :
        /\ ops' = [ops EXCEPT ![o] = k]
        /\ k.at = "unread" /\ k.id = ops[o].id /\ k.value = ops[o].value
        /\ k.locked = ops[o].locked
        /\ k.stats = ops[o].stats /\ k.reads = ops[o].reads /\ k.found = ops[o].found
  BY <1>0, Going DEF Places
<1>2. Becomes(o, k)
  BY <1>0, <1>1 DEF Becomes, Shape
<1>3. ops'[o] = k
  BY <1>0, <1>2, OthersStay
<1>4. vanished[o]
  BY <1>0 DEF ReaderKept, ListKept
<1>5. (GetKept(o) /\ ListKept(o))'
  BY <1>1, <1>3, <1>4 DEF GetKept, ListKept
<1> QED
  BY <1>0, <1>1, <1>2, <1>5, LookKeeps

\* A listing sees that a name is a file, and keeps it to be read or leaves it out.
LEMMA StatKeeps ==
  ASSUME FilesInv, NEW o \in Ops, NEW name \in Directory!FileNames, Directory!Stat(o, name)
  PROVE  FilesInv'
<1>0. /\ Directory!TypeOK /\ Shape(ops[o]) /\ ops[o].at = "list" /\ ops[o] \in Directory!Op
      /\ ReaderKept(o) /\ Directory!Reading(o) /\ name \in ops[o].stats
      /\ UNCHANGED <<recordFiles, temps, locks, faults, held, vanished>>
  BY DEF FilesInv, Directory!Stat, Directory!At, Directory!Reading, Directory!Readers,
     Directory!TypeOK
<1>1. CASE name \notin Directory!Files
  BY <1>0, <1>1, UnreadKeeps DEF Directory!Stat
<1>2. CASE name \in Directory!Files
  <2>1. PICK reads : /\ reads = IF Directory!Left(name) THEN ops[o].reads
                                                       ELSE ops[o].reads \cup {name}
                     /\ ops' = [ops EXCEPT ![o].stats = @ \ {name}, ![o].reads = reads]
    BY <1>0, <1>2 DEF Directory!Stat
  <2>2. Listable(ops[o].stats \ {name}, reads, ops[o].found)
    BY <1>0, <2>1 DEF Directory!Left, Directory!Op, Shape, Directory!FileNames, Listable
  <2>3. PICK k : k = ListingOf(ops[o], ops[o].stats \ {name}, reads, ops[o].found)
    OBVIOUS
  <2>4. /\ k \in Directory!Op /\ Shape(k) /\ k.at = "list" /\ k.stats = ops[o].stats \ {name}
        /\ k.reads = reads /\ k.found = ops[o].found
    BY <2>2, <2>3, Listing
  <2>5. Becomes(o, k)
    <3>1. [ops[o] EXCEPT !.stats = @ \ {name}, !.reads = reads] = k
      BY <1>0, <2>3 DEF Directory!Op, ListingOf
    <3>2. ops' = [ops EXCEPT ![o] = [ops[o] EXCEPT !.stats = @ \ {name}, !.reads = reads]]
      BY <1>0, <2>1 DEF Directory!TypeOK
    <3> QED
      BY <2>4, <3>1, <3>2 DEF Becomes
  <2>6. ops'[o] = k
    BY <1>0, <2>4, <2>5, OthersStay
  <2>7. Directory!Files' = Directory!Files
    BY <1>0 DEF Directory!Files
  <2>8. k.stats \cup k.reads \subseteq ops[o].stats \cup ops[o].reads
    BY <1>0, <2>1, <2>4, <2>5
  <2>9. \A i \in Ids : FileOf(i) \in ops[o].stats \cup ops[o].reads
                         => FileOf(i) \in k.stats \cup k.reads
    BY <2>1, <2>4, <2>5 DEF Directory!Left, FileOf
  <2>10. \A n \in k.stats \cup k.reads : n \in Directory!Files' \/ vanished'[o]
    BY <1>0, <2>7, <2>8 DEF ReaderKept, ListKept
  <2>11. \A f \in k.found : /\ f.name.kind = "record" /\ f.name.of \in Ids
                            /\ f.value \in held'[o][f.name.of]
    BY <1>0, <2>4, <2>5 DEF ReaderKept, ListKept
  <2>12. \A i \in Ids : \/ FileOf(i) \in k.stats \cup k.reads
                        \/ \E f \in k.found : f.name = FileOf(i)
                        \/ None \in held'[o][i]
    BY <1>0, <2>4, <2>5, <2>9 DEF ReaderKept, ListKept
  <2>13. (GetKept(o) /\ ListKept(o))'
    BY <2>4, <2>5, <2>6, <2>10, <2>11, <2>12 DEF GetKept, ListKept, FileOf
  <2> QED
    BY <1>0, <2>4, <2>5, <2>13, LookKeeps DEF Directory!Readers
<1> QED
  BY <1>1, <1>2

\* A listing reads a record.
LEMMA ReadFileKeeps ==
  ASSUME FilesInv, NEW o \in Ops, NEW name \in Directory!FileNames, Directory!ReadFile(o, name)
  PROVE  FilesInv'
<1>0. /\ Directory!TypeOK /\ Shape(ops[o]) /\ ops[o].at = "list" /\ ops[o] \in Directory!Op
      /\ ReaderKept(o) /\ Directory!Reading(o) /\ name \in ops[o].reads
      /\ UNCHANGED <<recordFiles, temps, locks, faults, held, vanished>>
  BY DEF FilesInv, Directory!ReadFile, Directory!At, Directory!Reading, Directory!Readers,
     Directory!TypeOK
<1>1. CASE name \notin Directory!Files
  BY <1>0, <1>1, UnreadKeeps DEF Directory!ReadFile
<1>2. CASE name \in Directory!Files
  <2>1. /\ name.kind = "record" /\ name.of \in Ids /\ name = FileOf(name.of)
        /\ recordFiles[name.of] \in held[o][name.of] /\ recordFiles[name.of] \in Values
    <3>1. name.kind = "record" /\ name.of \in Ids /\ name = FileOf(name.of)
      BY <1>0, RecordNames DEF Shape
    <3>2. recordFiles[name.of] # None
      BY <1>2, <3>1, RecordNames
    <3> QED
      BY <1>0, <3>1, <3>2 DEF Directory!TypeOK, ReaderKept
  <2>2. PICK f : /\ f = [name |-> name, value |-> recordFiles[name.of]]
                 /\ ops' = [ops EXCEPT ![o].reads = @ \ {name}, ![o].found = @ \cup {f}]
    BY <1>2, <2>1 DEF Directory!ReadFile, Directory!Content
  <2>3. PICK reads, found : reads = ops[o].reads \ {name} /\ found = ops[o].found \cup {f}
    OBVIOUS
  <2>4. Listable(ops[o].stats, reads, found)
    BY <1>0, <2>1, <2>2, <2>3 DEF Directory!Op, Directory!Temp, Shape, Listable
  <2>5. PICK k : k = ListingOf(ops[o], ops[o].stats, reads, found)
    OBVIOUS
  <2>6. /\ k \in Directory!Op /\ Shape(k) /\ k.at = "list" /\ k.stats = ops[o].stats
        /\ k.reads = reads /\ k.found = found
    BY <2>4, <2>5, Listing
  <2>7. Becomes(o, k)
    <3>1. [ops[o] EXCEPT !.reads = @ \ {name}, !.found = @ \cup {f}] = k
      BY <1>0, <2>5, <2>3 DEF Directory!Op, ListingOf
    <3>2. ops' = [ops EXCEPT ![o] = [ops[o] EXCEPT !.reads = @ \ {name},
                                                   !.found = @ \cup {f}]]
      BY <1>0, <2>2 DEF Directory!TypeOK
    <3> QED
      BY <2>6, <3>1, <3>2 DEF Becomes
  <2>8. ops'[o] = k
    BY <1>0, <2>6, <2>7, OthersStay
  <2>9. Directory!Files' = Directory!Files
    BY <1>0 DEF Directory!Files
  <2>10. \A n \in k.stats \cup k.reads : n \in Directory!Files' \/ vanished'[o]
    BY <1>0, <2>6, <2>9, <2>3 DEF ReaderKept, ListKept
  <2>11. f.name = name /\ f.value = recordFiles[name.of]
    BY <2>2
  <2>12. \A g \in k.found : /\ g.name.kind = "record" /\ g.name.of \in Ids
                           /\ g.value \in held'[o][g.name.of]
    BY <1>0, <2>1, <2>6, <2>11, <2>3 DEF ReaderKept, ListKept
  <2>13. \A i \in Ids : \/ FileOf(i) \in k.stats \cup k.reads
                        \/ \E g \in k.found : g.name = FileOf(i)
                        \/ None \in held'[o][i]
    BY <1>0, <2>1, <2>6, <2>11, <2>3 DEF ReaderKept, ListKept
  <2>14. (GetKept(o) /\ ListKept(o))'
    BY <2>6, <2>7, <2>8, <2>10, <2>12, <2>13 DEF GetKept, ListKept, FileOf
  <2> QED
    BY <1>0, <2>6, <2>7, <2>14, LookKeeps DEF Directory!Readers
<1> QED
  BY <1>1, <1>2

\* A listing that has looked at every name is over.
LEMMA EndListKeeps ==
  ASSUME FilesInv, NEW o \in Ops, Directory!EndList(o) PROVE FilesInv'
<1>0. /\ Directory!TypeOK /\ Shape(ops[o]) /\ ops[o].at = "list"
      /\ ops[o].stats = {} /\ ops[o].reads = {} /\ ReaderKept(o) /\ Directory!Reading(o)
      /\ UNCHANGED <<recordFiles, temps, locks, faults, held, vanished>>
  BY DEF FilesInv, Directory!EndList, Directory!At, Directory!Reading, Directory!Readers
<1>1. PICK k \in Directory!Op :
        /\ ops' = [ops EXCEPT ![o] = k]
        /\ k.at = "listed" /\ k.id = ops[o].id /\ k.value = ops[o].value
        /\ k.locked = ops[o].locked
        /\ k.stats = ops[o].stats /\ k.reads = ops[o].reads /\ k.found = ops[o].found
  BY <1>0, Going DEF Directory!EndList, Places
<1>2. Becomes(o, k)
  BY <1>0, <1>1 DEF Becomes, Shape
<1>3. ops'[o] = k
  BY <1>0, <1>2, OthersStay
<1>4. (GetKept(o) /\ ListKept(o))'
  BY <1>0, <1>1, <1>3 DEF ReaderKept, GetKept, ListKept, FileOf
<1> QED
  BY <1>0, <1>1, <1>2, <1>4, LookKeeps

-----------------------------------------------------------------------------
\* Every step keeps the invariant.
LEMMA FilesStep ==
  ASSUME Directory!FilesAssumption, FilesInv, [Directory!Next]_Directory!filesVars
  PROVE  FilesInv'
<1>1. CASE UNCHANGED Directory!filesVars
  <2>1. UNCHANGED <<recordFiles, temps, locks, ops, faults, held, vanished>>
    BY <1>1 DEF Directory!filesVars
  <2>2. Directory!Files' = Directory!Files
    BY <2>1 DEF Directory!Files
  <2>3. Directory!TypeOK' /\ LocksKept'
    BY <2>1 DEF FilesInv, Directory!TypeOK, LocksKept, Holds
  <2>4. ASSUME NEW o \in Ops PROVE (Shape(ops[o]) /\ TempKept(o) /\ ReaderKept(o))'
    <3>1. Shape(ops[o]) /\ TempKept(o) /\ ReaderKept(o)
      BY DEF FilesInv
    <3>2. Told(o)
      BY <2>1, <2>2, QuietTold
    <3> QED
      BY <2>1, <3>1, <3>2, StillKept DEF Shape, TempKept
  <2> QED
    BY <2>3, <2>4 DEF FilesInv
<1>2. CASE Directory!Next
  <2>1. PICK o \in Ops :
          \/ Directory!BeginSave(o) \/ Directory!Lock(o) \/ Directory!LockFails(o)
          \/ Directory!CreateTemp(o) \/ Directory!WriteTemp(o) \/ Directory!WriteFails(o)
          \/ Directory!Rename(o) \/ Directory!Discard(o) \/ Directory!Unlock(o)
          \/ Directory!Die(o) \/ Directory!BeginRemove(o) \/ Directory!Remove(o)
          \/ Directory!BeginGet(o) \/ Directory!Exists(o) \/ Directory!Read(o)
          \/ Directory!BeginList(o) \/ Directory!ReadDir(o) \/ Directory!EndList(o)
          \/ (\E name \in Directory!FileNames :
                Directory!Stat(o, name) \/ Directory!ReadFile(o, name))
    BY <1>2 DEF Directory!Next
  <2>2. CASE \/ Directory!BeginSave(o) \/ Directory!BeginRemove(o)
             \/ Directory!BeginGet(o) \/ Directory!BeginList(o)
    BY <2>2, BeginsKeep
  <2>3. CASE Directory!Lock(o) \/ Directory!LockFails(o) \/ Directory!Unlock(o)
    BY <2>3, LockKeeps, LockFailsKeeps, UnlockKeeps
  <2>4. CASE Directory!CreateTemp(o) \/ Directory!WriteTemp(o)
    BY <2>4, TempsKeep
  <2>5. CASE Directory!WriteFails(o) \/ Directory!Die(o)
    BY <2>5, FaultsKeep
  <2>6. CASE Directory!Rename(o) \/ Directory!Discard(o) \/ Directory!Remove(o)
    BY <2>6, RenameKeeps, DiscardKeeps, RemoveKeeps
  <2>7. CASE Directory!Exists(o) \/ Directory!Read(o)
    BY <2>7, ExistsKeeps, ReadKeeps
  <2>8. CASE Directory!ReadDir(o) \/ Directory!EndList(o)
    BY <2>8, ReadDirKeeps, EndListKeeps
  <2>9. CASE \E name \in Directory!FileNames :
               Directory!Stat(o, name) \/ Directory!ReadFile(o, name)
    BY <2>9, StatKeeps, ReadFileKeeps
  <2> QED
    BY <2>1, <2>2, <2>3, <2>4, <2>5, <2>6, <2>7, <2>8, <2>9
<1> QED
  BY <1>1, <1>2

\* Who is served in the sense of the invariant is served.
LEMMA FilesServed ==
  ASSUME FilesInv PROVE FilesWhole
<1>1. ASSUME NEW o \in Ops, ops[o].at = "listed", NEW id \in Ids
      PROVE  Directory!Listed(o, id) \subseteq held[o][id]
  <2>1. Shape(ops[o]) /\ ListKept(o)
    BY DEF FilesInv, ReaderKept
  <2>2. \A f \in ops[o].found : f.name = FileOf(id) => f.value \in held[o][id]
    BY <1>1, <2>1 DEF ListKept, FileOf
  <2>3. (\A f \in ops[o].found : f.name # FileOf(id)) => None \in held[o][id]
    BY <1>1, <2>1 DEF ListKept, Shape
  <2> QED
    BY <2>2, <2>3 DEF Directory!Listed, FileOf
<1>2. ASSUME NEW o \in Ops
      PROVE  /\ ops[o].at = "got" =>
                  \/ ops[o].value \in held[o][ops[o].id]
                  \/ ops[o].value = None /\ held[o][ops[o].id] \cap Expired # {}
             /\ ops[o].at = "listed" => \A f \in ops[o].found : f.name.kind = "record"
             /\ ops[o].at = "unread" => vanished[o]
  BY DEF FilesInv, ReaderKept, GetKept, ListKept
<1>3. Directory!ReadersServed
  BY <1>1, <1>2 DEF Directory!ReadersServed, Directory!At
<1>4. \A o \in Ops : temps[o] # None => ops[o].at \in {"write", "rename", "discard", "dead"}
  BY DEF FilesInv, TempKept
<1>5. ASSUME NEW id \in locks
      PROVE  Directory!Cardinality({o \in Ops : /\ ops[o].id = id /\ ops[o].locked
                                                /\ ops[o].at \in Holding}) = 1
  <2>1. PICK p \in Ops : {o \in Ops : /\ ops[o].id = id /\ ops[o].locked
                                      /\ ops[o].at \in Holding} = {p}
    BY DEF FilesInv, LocksKept, Holds
  <2>2. Directory!Cardinality({p}) = Cardinality({p})
    BY DEF Directory!Cardinality, Cardinality, Directory!IsFiniteSet, IsFiniteSet
  <2>3. Cardinality({p}) = 1
    BY FS_Singleton
  <2> QED
    BY <2>1, <2>2, <2>3
<1>6. Directory!NothingLeft
  BY <1>4, <1>5 DEF Directory!NothingLeft, Holding
<1> QED
  BY <1>3, <1>6 DEF FilesWhole, Directory!FilesWhole

(***************************************************************************)
(* However saves, removals, gets and listings of a directory overlap, and  *)
(* whatever saves fail or die, readers are served what the records have    *)
(* been and saves leave nothing behind (fs-utils.ts, the repositories).    *)
(***************************************************************************)
THEOREM FilesServeReaders ==
  ASSUME Directory!FilesAssumption PROVE Directory!Spec => []FilesWhole
<1>1. Directory!Init => FilesInv
  BY FilesInit
<1>2. FilesInv /\ [Directory!Next]_Directory!filesVars => FilesInv'
  BY FilesStep
<1>3. FilesInv => FilesWhole
  BY FilesServed
<1> QED
  BY <1>1, <1>2, <1>3, PTL DEF Directory!Spec

-----------------------------------------------------------------------------
\* The validated map.  A call whose watchers are still to be told of a write to a key.
Tells(f, k) == (f.at = "after" /\ f.key = k) \/ k \in f.todo

\* A set or a delete is about one key; a clear is about all, and has no hooks.
Framed(f) ==
  /\ f \in Entries!Frame
  /\ f.op # "clear" => f.key \in Keys /\ f.todo = {}
  /\ f.op = "set" => <<f.key, f.value>> \in Valid
  /\ f.op \in {"delete", "clear"} => f.value = None
  /\ f.op = "clear" => f.at = "told"

\* What a set in its first hook was promised holds still, if no set was called since.
HookKept(i) ==
  frames[i].op = "set" /\ frames[i].at = "before" =>
    /\ [inner EXCEPT ![frames[i].key] = frames[i].value] \in Allowed
    /\ \A j \in DOMAIN frames : j > i => frames[j].op # "set"

\* What a watcher is about to be told is so, but for keys that are overtaken.
TellKept(i) ==
  \A k \in Keys \ overtaken : Tells(frames[i], k) => inner[k] = frames[i].value

Informed(k) ==
  (\A i \in DOMAIN frames : ~ Tells(frames[i], k)) => told[k] = inner[k]

(***************************************************************************)
(* The inductive invariant: what every call under way still has to do fits *)
(* the map as it is.                                                       *)
(***************************************************************************)
MapInv ==
  /\ inner \in [Keys -> Entered \cup {None}] /\ told \in [Keys -> Entered \cup {None}]
  /\ watched \subseteq Keys /\ overtaken \subseteq Keys
  /\ frames \in Seq(Entries!Frame) /\ nested \in BOOLEAN
  /\ \A i \in DOMAIN frames : Framed(frames[i]) /\ TellKept(i)
  /\ ~ nested => inner \in Allowed /\ \A i \in DOMAIN frames : HookKept(i)
  /\ \A k \in watched \ overtaken : Informed(k)

-----------------------------------------------------------------------------
\* The keys that the calls still have to tell of.
LEMMA UntoldIs ==
  ASSUME NEW stack, NEW k
  PROVE  k \in Entries!Untold(stack) <=> \E i \in DOMAIN stack : Tells(stack[i], k)
BY DEF Entries!Untold, Tells

\* A call is put on the stack.
LEMMA FramePushed ==
  ASSUME frames \in Seq(Entries!Frame), NEW f \in Entries!Frame, Entries!Call(f)
  PROVE  /\ frames' \in Seq(Entries!Frame)
         /\ Len(frames') = Len(frames) + 1 /\ Len(frames) \in Nat
         /\ \A i \in 1..Len(frames) : frames'[i] = frames[i]
         /\ frames'[Len(frames) + 1] = f
BY DEF Entries!Call

\* A call is taken off.
LEMMA FramePopped ==
  ASSUME frames \in Seq(Entries!Frame), ~ Entries!Idle, Entries!Return
  PROVE  /\ frames' \in Seq(Entries!Frame)
         /\ Len(frames) \in Nat \ {0} /\ Len(frames') = Len(frames) - 1
         /\ \A i \in 1..Len(frames) - 1 : frames'[i] = frames[i]
         /\ Entries!Top = frames[Len(frames)]
<1> DEFINE n == Len(frames)
<1>1. n \in Nat \ {0} /\ frames' = SubSeq(frames, 1, n - 1)
  BY DEF Entries!Return, Entries!Idle, Entries!Front
<1>2. frames' \in Seq(Entries!Frame)
  <2>1. \A i \in 1..n - 1 : frames[i] \in Entries!Frame
    BY <1>1
  <2> HIDE DEF n
  <2> QED
    BY <1>1, <2>1
<1>4. Len(frames') = n - 1
  <2> HIDE DEF n
  <2> QED
    BY <1>1
<1>3. \A i \in 1..n - 1 : frames'[i] = frames[i]
  BY <1>1
<1> QED
  BY <1>1, <1>2, <1>3, <1>4 DEF Entries!Top, Entries!Last

\* The last call goes on.
LEMMA FrameGoesOn ==
  ASSUME frames \in Seq(Entries!Frame), ~ Entries!Idle, NEW f \in Entries!Frame,
         frames' = Entries!Front(frames) \o <<f>>
  PROVE  /\ frames' \in Seq(Entries!Frame)
         /\ Len(frames) \in Nat \ {0} /\ Len(frames') = Len(frames)
         /\ \A i \in 1..Len(frames) - 1 : frames'[i] = frames[i]
         /\ frames'[Len(frames)] = f
         /\ Entries!Top = frames[Len(frames)]
BY DEF Entries!Idle, Entries!Front, Entries!Top, Entries!Last

\* The invariant holds of an empty map.
LEMMA MapInit ==
  ASSUME Entries!MapAssumption, Entries!Init PROVE MapInv
<1>1. frames = <<>> /\ inner = [k \in Keys |-> None] /\ told = inner /\ inner \in Allowed
  BY DEF Entries!MapAssumption, Entries!Init
<1>2. frames \in Seq(Entries!Frame) /\ DOMAIN frames = {}
  BY <1>1
<1>3. watched = {} /\ overtaken = {} /\ nested = FALSE
  BY DEF Entries!Init
<1> QED
  BY <1>1, <1>2, <1>3 DEF MapInv

\* A part of a map that is allowed is allowed.
LEMMA PartAllowed ==
  ASSUME Entries!MapAssumption, NEW m \in Allowed, NEW keys \in SUBSET Keys
  PROVE  [k \in Keys |-> IF k \in keys THEN m[k] ELSE None] \in Allowed
<1> DEFINE Part(K) == [k \in Keys |-> IF k \in Keys \ K THEN m[k] ELSE None]
           Bad == {K \in SUBSET Keys : Part(K) \notin Allowed}
<1>1. ASSUME Bad # {} PROVE FALSE
  <2>1. PICK K \in Bad : \A k \in K : K \ {k} \notin Bad
    BY <1>1, LeastSubset DEF Entries!MapAssumption, Entries!IsFiniteSet, IsFiniteSet
  <2>2. m \in [Keys -> Entered \cup {None}]
    BY DEF Entries!MapAssumption
  <2>3. K # {}
    <3>1. Part({}) = m
      BY <2>2
    <3> QED
      BY <2>1, <3>1
  <2>4. PICK k \in K : Part(K \ {k}) \in Allowed
    BY <2>1, <2>3
  <2>5. Part(K) = [Part(K \ {k}) EXCEPT ![k] = None]
    BY <2>4
  <2>6. [Part(K \ {k}) EXCEPT ![k] = None] \in Allowed
    BY <2>4 DEF Entries!MapAssumption
  <2> QED
    BY <2>1, <2>5, <2>6
<1>2. Part(Keys \ keys) = [k \in Keys |-> IF k \in keys THEN m[k] ELSE None]
  OBVIOUS
<1> QED
  BY <1>1, <1>2
-----------------------------------------------------------------------------
\* A set or a delete gets as far as its first hook.
LEMMA QuietPush ==
  ASSUME MapInv, NEW f, Framed(f), f.at = "before", Entries!Call(f),
         UNCHANGED <<inner, watched, told, overtaken>>, nested' \in BOOLEAN,
         ~ nested' => /\ ~ nested
                      /\ f.op = "set" =>
                           /\ [inner EXCEPT ![f.key] = f.value] \in Allowed
                           /\ \A i \in DOMAIN frames :
                                ~ (frames[i].op = "set" /\ frames[i].at = "before")
  PROVE  MapInv'
<1> DEFINE n == Len(frames)
<1>1. /\ frames' \in Seq(Entries!Frame) /\ Len(frames') = n + 1 /\ n \in Nat
      /\ \A i \in 1..n : frames'[i] = frames[i]
      /\ frames'[n + 1] = f
  BY FramePushed DEF MapInv, Framed
<1>2. DOMAIN frames = 1..n /\ DOMAIN frames' = 1..n + 1
  BY <1>1 DEF MapInv
<1> HIDE DEF n
<1>3. \A k \in Keys : ~ Tells(f, k)
  BY DEF Tells, Framed, Entries!Frame
<1>4. \A i \in DOMAIN frames' : Framed(frames'[i])
  BY <1>1, <1>2 DEF MapInv
<1>5. \A i \in DOMAIN frames' : TellKept(i)'
  BY <1>1, <1>2, <1>3 DEF MapInv, TellKept
<1>6. ASSUME ~ nested', NEW i \in DOMAIN frames' PROVE HookKept(i)'
  <2>1. ~ nested
    BY <1>6
  <2>2. CASE i = n + 1
    <3>1. PICK q, v : q = f.key /\ v = f.value
      OBVIOUS
    <3>2. f.op = "set" => [inner' EXCEPT ![q] = v] \in Allowed
      BY <1>6, <3>1
    <3>3. frames'[i] = f /\ \A j \in DOMAIN frames' : ~ (j > i)
      BY <1>1, <1>2, <2>2
    <3> QED
      BY <3>1, <3>2, <3>3 DEF HookKept
  <2>3. CASE i # n + 1
    <3>1. i \in 1..n /\ frames'[i] = frames[i] /\ HookKept(i)
      BY <1>1, <1>2, <2>1, <2>3 DEF MapInv
    <3>2. ASSUME frames[i].op = "set", frames[i].at = "before" PROVE f.op # "set"
      BY <1>2, <1>6, <3>1, <3>2
    <3> QED
      BY <1>1, <1>2, <3>1, <3>2 DEF HookKept
  <2> QED
    BY <2>2, <2>3
<1>7. ASSUME NEW k \in watched' \ overtaken' PROVE Informed(k)'
  BY <1>1, <1>2 DEF MapInv, Informed
<1> QED
  BY <1>1, <1>4, <1>5, <1>6, <1>7 DEF MapInv

\* A call returns that has nobody to tell.
LEMMA QuietPop ==
  ASSUME MapInv, ~ Entries!Idle, Entries!Return, \A k \in Keys : ~ Tells(Entries!Top, k),
         UNCHANGED <<inner, watched, told, overtaken, nested>>
  PROVE  MapInv'
<1> DEFINE n == Len(frames)
<1>1. /\ frames' \in Seq(Entries!Frame) /\ Len(frames') = n - 1 /\ n \in Nat \ {0}
      /\ \A i \in 1..n - 1 : frames'[i] = frames[i]
      /\ Entries!Top = frames[n]
  BY FramePopped DEF MapInv
<1>2. DOMAIN frames = 1..n /\ DOMAIN frames' = 1..n - 1
  BY <1>1 DEF MapInv
<1> HIDE DEF n
<1>3. \A i \in DOMAIN frames' : i \in DOMAIN frames /\ Framed(frames'[i]) /\ TellKept(i)'
  BY <1>1, <1>2 DEF MapInv, TellKept
<1>4. ASSUME ~ nested', NEW i \in DOMAIN frames' PROVE HookKept(i)'
  <2>1. i \in DOMAIN frames /\ frames'[i] = frames[i] /\ HookKept(i)
    BY <1>1, <1>2, <1>4 DEF MapInv
  <2>2. \A j \in DOMAIN frames' : j \in DOMAIN frames /\ frames'[j] = frames[j]
    BY <1>1, <1>2
  <2> QED
    BY <2>1, <2>2 DEF HookKept
<1>5. ASSUME NEW k \in watched' \ overtaken' PROVE Informed(k)'
  <2>1. Informed(k) /\ k \in Keys
    BY DEF MapInv
  <2>2. (\A i \in DOMAIN frames' : ~ Tells(frames'[i], k)) =>
          \A i \in DOMAIN frames : ~ Tells(frames[i], k)
    BY <1>1, <1>2, <2>1
  <2> QED
    BY <2>1, <2>2 DEF Informed
<1> QED
  BY <1>1, <1>3, <1>4, <1>5 DEF MapInv

\* A hook lets a set or a delete go on, and the entry is written or removed.
LEMMA WriteKeeps ==
  ASSUME Entries!MapAssumption, MapInv, ~ Entries!Idle, Entries!Top.at = "before",
         Entries!Write(Entries!Top.key, Entries!Top.value), Entries!Goto("after"),
         UNCHANGED <<watched, told, nested>>
  PROVE  MapInv'
<1> DEFINE n == Len(frames)
           f == Entries!Top
           g == [f EXCEPT !.at = "after"]
<1>1. f = frames[n] /\ n \in DOMAIN frames /\ n \in Nat \ {0} /\ DOMAIN frames = 1..n
  BY DEF MapInv, Entries!Top, Entries!Idle, Entries!Last
<1>2. Framed(f) /\ f.at = "before" /\ f.op # "clear" /\ f.key \in Keys /\ f.todo = {}
  BY <1>1 DEF MapInv, Framed
<1>3. /\ g \in Entries!Frame /\ g.op = f.op /\ g.key = f.key /\ g.value = f.value
      /\ g.todo = f.todo /\ g.at = "after" /\ f.value \in Entered \cup {None}
  BY <1>2 DEF Framed, Entries!Frame, Entries!Entry
<1>4. /\ frames' \in Seq(Entries!Frame) /\ Len(frames') = n
      /\ \A i \in 1..n - 1 : frames'[i] = frames[i]
      /\ frames'[n] = g
  <2>1. frames' = Entries!Front(frames) \o <<g>>
    BY DEF Entries!Goto
  <2> HIDE DEF g
  <2> QED
    BY <1>3, <2>1, FrameGoesOn DEF MapInv
<1> HIDE DEF n, g
<1>5. DOMAIN frames' = 1..n
  BY <1>4
<1>6. PICK key, value : key = f.key /\ value = f.value
  OBVIOUS
<1>7. /\ inner' = [inner EXCEPT ![key] = value]
      /\ overtaken' = overtaken \cup ({key} \cap Entries!Untold(Entries!Front(frames)))
  BY <1>6 DEF Entries!Write
<1>8. \A i \in 1..n - 1 : Tells(frames[i], key) => key \in overtaken'
  <2> TAKE i \in 1..n - 1
  <2>1. DOMAIN Entries!Front(frames) = 1..n - 1 /\ Entries!Front(frames)[i] = frames[i]
    BY DEF MapInv, Entries!Front, n
  <2> QED
    BY <1>7, <2>1, UntoldIs
<1>9. /\ inner' \in [Keys -> Entered \cup {None}]
      /\ overtaken' \subseteq Keys /\ overtaken \subseteq overtaken'
  BY <1>2, <1>3, <1>6, <1>7 DEF MapInv
<1>10. \A k \in Keys : inner'[k] = IF k = key THEN value ELSE inner[k]
  BY <1>2, <1>6, <1>7 DEF MapInv
<1>11. \A k \in Keys : Tells(g, k) <=> k = key
  BY <1>2, <1>3, <1>6 DEF Tells
<1> HIDE DEF f
<1>12. Framed(g)
  BY <1>2, <1>3 DEF Framed
<1>13. ASSUME NEW i \in DOMAIN frames' PROVE Framed(frames'[i]) /\ TellKept(i)'
  <2>1. CASE i = n
    BY <1>3, <1>4, <1>6, <1>10, <1>11, <1>12, <2>1 DEF TellKept
  <2>2. CASE i # n
    <3>1. /\ i \in 1..n - 1 /\ i \in DOMAIN frames
          /\ frames'[i] = frames[i] /\ Framed(frames[i]) /\ TellKept(i)
      BY <1>1, <1>4, <1>5, <2>2 DEF MapInv
    <3> QED
      BY <1>8, <1>9, <1>10, <3>1 DEF TellKept
  <2> QED
    BY <2>1, <2>2
<1>14. ASSUME ~ nested' PROVE inner' \in Allowed /\ \A i \in DOMAIN frames' : HookKept(i)'
  <2>1. ~ nested /\ inner \in Allowed /\ \A i \in DOMAIN frames : HookKept(i)
    BY <1>14 DEF MapInv
  <2>2. CASE f.op = "set"
    <3>1. inner' \in Allowed
      BY <1>1, <1>2, <1>6, <1>7, <2>1, <2>2 DEF HookKept
    <3>2. ASSUME NEW i \in DOMAIN frames' PROVE ~ (frames'[i].op = "set" /\ frames'[i].at = "before")
      <4>1. CASE i = n
        BY <1>3, <1>4, <4>1
      <4>2. CASE i # n
        <5>1. i \in 1..n - 1 /\ i \in DOMAIN frames /\ n > i
          BY <1>1, <1>5, <4>2
        <5>2. HookKept(i) /\ frames'[i] = frames[i]
          BY <1>4, <2>1, <5>1
        <5>3. frames[n].op = "set"
          BY <1>1, <2>2
        <5> QED
          BY <1>1, <5>1, <5>2, <5>3 DEF HookKept
      <4> QED
        BY <4>1, <4>2
    <3> QED
      BY <3>1, <3>2 DEF HookKept
  <2>3. CASE f.op # "set"
    <3>1. value = None
      BY <1>2, <1>6, <2>3 DEF Framed, Entries!Frame
    <3>2. \A m \in Allowed : [m EXCEPT ![key] = None] \in Allowed
      BY <1>2, <1>6 DEF Entries!MapAssumption
    <3>3. inner' \in Allowed
      BY <1>7, <2>1, <3>1, <3>2
    <3>4. ASSUME NEW i \in DOMAIN frames', frames'[i].op = "set", frames'[i].at = "before"
          PROVE  HookKept(i)'
      <4>1. /\ i \in 1..n - 1 /\ i \in DOMAIN frames
            /\ frames'[i] = frames[i] /\ HookKept(i) /\ Framed(frames[i])
        BY <1>1, <1>3, <1>4, <1>5, <2>1, <3>4 DEF MapInv
      <4>2. \A j \in DOMAIN frames' : j > i => frames'[j].op # "set"
        BY <1>1, <1>3, <1>4, <1>5, <2>3, <3>4, <4>1 DEF HookKept
      <4>3. PICK q, v : q = frames[i].key /\ v = frames[i].value /\ q \in Keys
        BY <3>4, <4>1 DEF Framed
      <4>4. [inner EXCEPT ![q] = v] \in Allowed
        BY <3>4, <4>1, <4>3 DEF HookKept
      <4>5. [inner' EXCEPT ![q] = v] \in Allowed
        <5>1. CASE q = key
          <6>1. [inner' EXCEPT ![q] = v] = [inner EXCEPT ![q] = v]
            BY <1>7, <5>1 DEF MapInv
          <6> QED
            BY <4>4, <6>1
        <5>2. CASE q # key
          <6>1. [inner' EXCEPT ![q] = v] = [[inner EXCEPT ![q] = v] EXCEPT ![key] = None]
            BY <1>7, <3>1, <5>2 DEF MapInv
          <6> QED
            BY <3>2, <4>4, <6>1
        <5> QED
          BY <5>1, <5>2
      <4> QED
        BY <4>1, <4>2, <4>3, <4>5 DEF HookKept
    <3> QED
      BY <3>3, <3>4 DEF HookKept
  <2> QED
    BY <2>2, <2>3
<1>15. ASSUME NEW k \in watched' \ overtaken' PROVE Informed(k)'
  <2>1. k \in Keys /\ Informed(k)
    BY <1>9 DEF MapInv
  <2>2. ~ Tells(f, k)
    BY <1>2 DEF Tells
  <2>3. (\A i \in DOMAIN frames' : ~ Tells(frames'[i], k)) =>
          k # key /\ \A i \in DOMAIN frames : ~ Tells(frames[i], k)
    BY <1>1, <1>4, <1>5, <1>11, <2>1, <2>2
  <2> QED
    BY <1>10, <2>1, <2>3 DEF Informed
<1> QED
  BY <1>4, <1>9, <1>13, <1>14, <1>15 DEF MapInv
\* The watchers of a key are told, of a write or of a clear.
LEMMA TellingKeeps ==
  ASSUME MapInv, ~ Entries!Idle, NEW k \in Keys, NEW g \in Entries!Frame,
         Tells(Entries!Top, k), Entries!Top.op # "set" \/ Entries!Top.at # "before",
         frames' = Entries!Front(frames) \o <<g>>, Framed(g), g.op = Entries!Top.op, g.at = "told",
         g.value = Entries!Top.value, \A q \in Keys : Tells(g, q) <=> Tells(Entries!Top, q) /\ q # k,
         Entries!Notify(k, Entries!Top.value),
         UNCHANGED <<inner, watched, nested, overtaken>>
  PROVE  MapInv'
<1> DEFINE n == Len(frames)
           f == Entries!Top
<1>1. /\ frames' \in Seq(Entries!Frame) /\ n \in Nat \ {0} /\ Len(frames') = n
      /\ \A i \in 1..n - 1 : frames'[i] = frames[i]
      /\ frames'[n] = g
      /\ f = frames[n]
  BY FrameGoesOn DEF MapInv
<1>2. DOMAIN frames = 1..n /\ DOMAIN frames' = 1..n
  BY <1>1 DEF MapInv
<1>3. f.value \in Entered \cup {None} /\ TellKept(n)
  <2>1. Framed(frames[n]) /\ TellKept(n)
    BY <1>1, <1>2 DEF MapInv
  <2>2. Framed(f)
    BY <1>1, <2>1
  <2> HIDE DEF f
  <2> QED
    BY <2>1, <2>2 DEF Framed, Entries!Frame, Entries!Entry
<1>4. PICK v : v = f.value
  OBVIOUS
<1>5. told' = IF k \in watched THEN [told EXCEPT ![k] = v] ELSE told
  BY <1>4 DEF Entries!Notify
<1> HIDE DEF n, f
<1>6. /\ told' \in [Keys -> Entered \cup {None}]
      /\ \A q \in Keys : q # k => told'[q] = told[q]
      /\ k \in watched => told'[k] = v
  BY <1>3, <1>4, <1>5 DEF MapInv
<1>7. k \notin overtaken => inner[k] = v
  BY <1>1, <1>3, <1>4 DEF TellKept, f
<1>8. ASSUME NEW i \in DOMAIN frames' PROVE Framed(frames'[i]) /\ TellKept(i)'
  <2>1. CASE i = n
    BY <1>1, <1>3, <2>1 DEF TellKept, f
  <2>2. CASE i # n
    BY <1>1, <1>2, <2>2 DEF MapInv, TellKept
  <2> QED
    BY <2>1, <2>2
<1>9. ASSUME ~ nested', NEW i \in DOMAIN frames' PROVE HookKept(i)'
  <2>1. \A j \in DOMAIN frames' : j \in DOMAIN frames /\ frames'[j].op = frames[j].op
    BY <1>1, <1>2 DEF f
  <2>2. (frames'[i] = frames[i] /\ HookKept(i)) \/ frames'[i].at = "told"
    BY <1>1, <1>2, <1>9 DEF MapInv
  <2> QED
    BY <2>1, <2>2 DEF HookKept
<1>10. ASSUME NEW q \in watched' \ overtaken' PROVE Informed(q)'
  <2>1. q \in Keys /\ Informed(q)
    BY DEF MapInv
  <2>2. CASE q = k
    BY <1>6, <1>7, <2>2 DEF Informed
  <2>3. CASE q # k
    <3>1. (\A i \in DOMAIN frames' : ~ Tells(frames'[i], q)) =>
            \A i \in DOMAIN frames : ~ Tells(frames[i], q)
      BY <1>1, <1>2, <2>1, <2>3 DEF f
    <3> QED
      BY <1>6, <2>1, <2>3, <3>1 DEF Informed
  <2> QED
    BY <2>2, <2>3
<1> QED
  BY <1>1, <1>6, <1>8, <1>9, <1>10 DEF MapInv

\* clear: everything goes, and is still to be told of.
LEMMA ClearKeeps ==
  ASSUME Entries!MapAssumption, MapInv, Entries!Clear
  PROVE  MapInv'
<1> DEFINE n == Len(frames)
<1>1. PICK f : f = [op |-> "clear", key |-> None, value |-> None, at |-> "told",
                    todo |-> {k \in Keys : inner[k] # None}]
  OBVIOUS
<1>2. f \in Entries!Frame /\ Framed(f)
  BY <1>1 DEF Framed, Entries!Frame, Entries!Entry
<1>3. /\ frames' \in Seq(Entries!Frame) /\ Len(frames') = n + 1 /\ n \in Nat
      /\ \A i \in 1..n : frames'[i] = frames[i]
      /\ frames'[n + 1] = f
  BY <1>1, <1>2, FramePushed DEF MapInv, Entries!Clear
<1>4. DOMAIN frames = 1..n /\ DOMAIN frames' = 1..n + 1
  BY <1>3 DEF MapInv
<1> HIDE DEF n
<1>5. /\ inner' \in [Keys -> Entered \cup {None}] /\ \A k \in Keys : inner'[k] = None
      /\ inner' \in Allowed
  BY DEF Entries!Clear, Entries!MapAssumption
<1>6. \A k \in Keys : Tells(f, k) <=> inner[k] # None
  BY <1>1 DEF Tells
<1>7. /\ overtaken' \subseteq Keys /\ overtaken \subseteq overtaken'
      /\ \A i \in DOMAIN frames : \A k \in Keys :
           Tells(frames[i], k) /\ inner[k] # None => k \in overtaken'
  BY UntoldIs DEF Entries!Clear, MapInv
<1>8. UNCHANGED <<watched, told, nested>>
  BY DEF Entries!Clear
<1>9. ASSUME NEW i \in DOMAIN frames' PROVE Framed(frames'[i]) /\ TellKept(i)'
  <2>1. CASE i = n + 1
    BY <1>1, <1>2, <1>3, <1>5, <2>1 DEF TellKept
  <2>2. CASE i # n + 1
    <3>1. i \in DOMAIN frames /\ frames'[i] = frames[i] /\ Framed(frames[i]) /\ TellKept(i)
      BY <1>3, <1>4, <2>2 DEF MapInv
    <3> QED
      BY <1>5, <1>7, <3>1 DEF TellKept
  <2> QED
    BY <2>1, <2>2
<1>10. ASSUME ~ nested', NEW i \in DOMAIN frames', frames'[i].op = "set", frames'[i].at = "before"
       PROVE  HookKept(i)'
  <2>1. i \in DOMAIN frames /\ frames'[i] = frames[i] /\ HookKept(i) /\ Framed(frames[i])
    BY <1>1, <1>3, <1>4, <1>8, <1>10 DEF MapInv
  <2>2. \A j \in DOMAIN frames' : j > i => frames'[j].op # "set"
    BY <1>1, <1>3, <1>4, <1>10, <2>1 DEF HookKept
  <2>3. PICK q, v : q = frames[i].key /\ v = frames[i].value /\ q \in Keys
    BY <1>10, <2>1 DEF Framed
  <2>4. PICK m : m = [inner EXCEPT ![q] = v]
    OBVIOUS
  <2>5. m \in Allowed
    BY <1>10, <2>1, <2>3, <2>4 DEF HookKept
  <2>6. [inner' EXCEPT ![q] = v] = [k \in Keys |-> IF k \in {q} THEN m[k] ELSE None]
    BY <1>5, <2>3, <2>4 DEF MapInv
  <2>7. [k \in Keys |-> IF k \in {q} THEN m[k] ELSE None] \in Allowed
    BY <2>3, <2>5, PartAllowed
  <2> QED
    BY <2>1, <2>2, <2>3, <2>6, <2>7 DEF HookKept
<1>11. ASSUME NEW k \in watched' \ overtaken' PROVE Informed(k)'
  <2>1. k \in Keys /\ Informed(k)
    BY <1>7, <1>8 DEF MapInv
  <2>2. (\A i \in DOMAIN frames' : ~ Tells(frames'[i], k)) =>
          inner[k] = None /\ \A i \in DOMAIN frames : ~ Tells(frames[i], k)
    BY <1>3, <1>4, <1>6, <2>1
  <2> QED
    BY <1>5, <1>8, <2>1, <2>2 DEF Informed
<1> QED
  BY <1>3, <1>5, <1>7, <1>8, <1>9, <1>10, <1>11 DEF MapInv, HookKept

\* A watcher comes, who has read the value, or goes.
LEMMA WatchKeeps ==
  ASSUME MapInv, NEW k \in Keys, Entries!Watch(k) \/ Entries!Unwatch(k)
  PROVE  MapInv'
<1>1. UNCHANGED <<inner, frames, nested, overtaken>>
  BY DEF Entries!Watch, Entries!Unwatch
<1>2. /\ told' \in [Keys -> Entered \cup {None}] /\ watched' \subseteq Keys
      /\ \A q \in watched' : (q \in watched /\ told'[q] = told[q]) \/ told'[q] = inner[q]
  BY DEF Entries!Watch, Entries!Unwatch, MapInv
<1>3. \A i \in DOMAIN frames : (TellKept(i) <=> TellKept(i)') /\ (HookKept(i) <=> HookKept(i)')
  BY <1>1 DEF TellKept, HookKept
<1>4. ASSUME NEW q \in watched' \ overtaken' PROVE Informed(q)'
  BY <1>1, <1>2 DEF MapInv, Informed
<1> QED
  BY <1>1, <1>2, <1>3, <1>4 DEF MapInv

\* Every step keeps the invariant.
LEMMA MapStep ==
  ASSUME Entries!MapAssumption, MapInv, [Entries!Next]_Entries!mapVars
  PROVE  MapInv'
<1> DEFINE f == Entries!Top
<1>1. ASSUME ~ Entries!Idle
      PROVE  Framed(f)
  BY <1>1 DEF MapInv, Entries!Top, Entries!Idle, Entries!Last
<1>2. CASE UNCHANGED Entries!mapVars
  <2>1. \A i \in DOMAIN frames : (TellKept(i) <=> TellKept(i)') /\ (HookKept(i) <=> HookKept(i)')
    BY <1>2 DEF Entries!mapVars, TellKept, HookKept
  <2>2. \A k \in watched : Informed(k) <=> Informed(k)'
    BY <1>2 DEF Entries!mapVars, Informed
  <2> QED
    BY <1>2, <2>1, <2>2 DEF Entries!mapVars, MapInv
<1>3. ASSUME NEW k \in Keys, NEW v \in Entered, Entries!Set(k, v) PROVE MapInv'
  <2>1. PICK g : g = [op |-> "set", key |-> k, value |-> v, at |-> "before", todo |-> {}]
    OBVIOUS
  <2>2. Framed(g) /\ g.at = "before" /\ g.op = "set" /\ g.key = k /\ g.value = v
    BY <1>3, <2>1 DEF Framed, Entries!Frame, Entries!Entry, Entries!Set
  <2>3. [inner EXCEPT ![g.key] = g.value] \in Allowed
    BY <1>3, <2>2 DEF Entries!Set, Entries!Tentative
  <2>4. /\ Entries!Call(g) /\ UNCHANGED <<inner, watched, told, overtaken>>
        /\ nested' = (nested \/ \E i \in DOMAIN frames : frames[i].op = "set" /\ frames[i].at = "before")
    BY <1>3, <2>1 DEF Entries!Set
  <2> QED
    BY <2>2, <2>3, <2>4, QuietPush DEF MapInv
<1>4. ASSUME NEW k \in Keys, Entries!Delete(k) PROVE MapInv'
  <2>1. PICK g : g = [op |-> "delete", key |-> k, value |-> None, at |-> "before", todo |-> {}]
    OBVIOUS
  <2>2. Framed(g) /\ g.at = "before" /\ g.op = "delete"
    BY <2>1 DEF Framed, Entries!Frame, Entries!Entry
  <2>3. Entries!Call(g) /\ UNCHANGED <<inner, watched, told, overtaken, nested>>
    BY <1>4, <2>1 DEF Entries!Delete
  <2> QED
    BY <2>2, <2>3, QuietPush DEF MapInv
<1>5. CASE Entries!HookRefuses
  <2>1. ~ Entries!Idle /\ f.at = "before"
    BY <1>5 DEF Entries!HookRefuses
  <2>2. \A k \in Keys : ~ Tells(f, k)
    BY <1>1, <2>1 DEF Tells, Framed
  <2> QED
    BY <1>5, <2>1, <2>2, QuietPop DEF Entries!HookRefuses
<1>6. CASE Entries!Assign
  BY <1>6, WriteKeeps DEF Entries!Assign, Entries!At
<1>7. CASE Entries!Unset
  <2>1. ~ Entries!Idle /\ f.at = "before" /\ f.op = "delete"
    BY <1>7 DEF Entries!Unset, Entries!At
  <2>2. f.value = None /\ \A k \in Keys : ~ Tells(f, k)
    BY <1>1, <2>1 DEF Tells, Framed
  <2>3. CASE Entries!Write(f.key, None) /\ Entries!Goto("after")
    <3>1. Entries!Write(f.key, f.value)
      BY <2>2, <2>3
    <3> QED
      BY <1>7, <2>1, <2>3, <3>1, WriteKeeps DEF Entries!Unset
  <2>4. CASE Entries!Return /\ UNCHANGED <<inner, overtaken>>
    BY <1>7, <2>1, <2>2, <2>4, QuietPop DEF Entries!Unset
  <2> QED
    BY <1>7, <2>3, <2>4 DEF Entries!Unset
<1>8. CASE Entries!Tell
  <2>1. ~ Entries!Idle /\ f.at = "after"
    BY <1>8 DEF Entries!Tell
  <2>2. Framed(f) /\ f.op # "clear" /\ f.key \in Keys /\ f.todo = {}
    BY <1>1, <2>1 DEF Framed
  <2>3. PICK g : g = [f EXCEPT !.at = "told"]
    OBVIOUS
  <2>4. /\ g \in Entries!Frame /\ g.op = f.op /\ g.key = f.key /\ g.value = f.value
        /\ g.todo = f.todo /\ g.at = "told"
    BY <2>2, <2>3 DEF Framed, Entries!Frame
  <2>5. PICK k \in Keys : k = f.key
    BY <2>2
  <2>6. Tells(f, k) /\ \A q \in Keys : Tells(g, q) <=> Tells(f, q) /\ q # k
    BY <2>1, <2>2, <2>4, <2>5 DEF Tells
  <2>7. frames' = Entries!Front(frames) \o <<g>>
    BY <1>8, <2>3 DEF Entries!Tell, Entries!Goto
  <2>8. Framed(g)
    BY <2>2, <2>4 DEF Framed
  <2>9. Entries!Notify(k, f.value) /\ UNCHANGED <<inner, watched, nested, overtaken>>
    BY <1>8, <2>5 DEF Entries!Tell
  <2> QED
    BY <2>1, <2>4, <2>6, <2>7, <2>8, <2>9, TellingKeeps
<1>9. CASE Entries!TellCleared
  <2>1. ~ Entries!Idle /\ f.at = "told" /\ f.op = "clear"
    BY <1>9 DEF Entries!TellCleared, Entries!At
  <2>2. Framed(f) /\ f.value = None /\ f.todo \subseteq Keys
    BY <1>1, <2>1 DEF Framed, Entries!Frame
  <2>3. PICK k \in f.todo : /\ Entries!Notify(k, None)
                            /\ frames' = Entries!Front(frames) \o <<[f EXCEPT !.todo = @ \ {k}]>>
    BY <1>9 DEF Entries!TellCleared
  <2>4. PICK g : g = [f EXCEPT !.todo = @ \ {k}]
    OBVIOUS
  <2>5. /\ g \in Entries!Frame /\ g.op = f.op /\ g.key = f.key /\ g.value = f.value
        /\ g.todo = f.todo \ {k} /\ g.at = "told"
    BY <2>1, <2>2, <2>4 DEF Framed, Entries!Frame
  <2>6. Tells(f, k) /\ \A q \in Keys : Tells(g, q) <=> Tells(f, q) /\ q # k
    BY <2>1, <2>2, <2>5 DEF Tells
  <2>7. Framed(g)
    BY <2>1, <2>2, <2>5 DEF Framed
  <2>8. frames' = Entries!Front(frames) \o <<g>> /\ Entries!Notify(k, f.value) /\ k \in Keys
    BY <2>2, <2>3, <2>4
  <2>9. UNCHANGED <<inner, watched, nested, overtaken>>
    BY <1>9 DEF Entries!TellCleared
  <2> QED
    BY <2>1, <2>5, <2>6, <2>7, <2>8, <2>9, TellingKeeps
<1>10. CASE Entries!End
  <2>1. ~ Entries!Idle /\ f.at = "told" /\ f.todo = {}
    BY <1>10 DEF Entries!End
  <2>2. \A k \in Keys : ~ Tells(f, k)
    BY <2>1 DEF Tells
  <2> QED
    BY <1>10, <2>1, <2>2, QuietPop DEF Entries!End
<1> QED
  BY <1>2, <1>3, <1>4, <1>5, <1>6, <1>7, <1>8, <1>9, <1>10, ClearKeeps, WatchKeeps DEF Entries!Next

\* The invariant says what the property says.
LEMMA MapSaid ==
  ASSUME Entries!MapAssumption, MapInv PROVE MapCoherent
<1>1. ASSUME ~ nested, NEW keys \in SUBSET Keys PROVE Entries!Pick(keys) \in Allowed
  BY <1>1, PartAllowed DEF MapInv, Entries!Pick
<1>2. ASSUME NEW k \in watched \ (overtaken \cup Entries!Untold(frames)) PROVE told[k] = inner[k]
  BY UntoldIs DEF MapInv, Informed
<1> QED
  BY <1>1, <1>2 DEF MapCoherent, Entries!MapCoherent

(***************************************************************************)
(* However hooks and watchers call the map again, the invariant holds of   *)
(* every part of it, unless a set is called in the first hook of another,  *)
(* and watchers of keys that nobody overtakes have seen the value          *)
(* (validated-map.ts).                                                     *)
(***************************************************************************)
THEOREM MapStaysCoherent ==
  ASSUME Entries!MapAssumption PROVE Entries!Spec => []MapCoherent
<1>1. Entries!Init => MapInv
  BY MapInit
<1>2. MapInv /\ [Entries!Next]_Entries!mapVars => MapInv'
  BY MapStep
<1>3. MapInv => MapCoherent
  BY MapSaid
<1> QED
  BY <1>1, <1>2, <1>3, PTL DEF Entries!Spec

-----------------------------------------------------------------------------
\* The read models.  The n-th event reserves r.
ReservedAt(n, r) == events[n].type = "ResourceReserved" /\ events[n].reservation = r

RecordOf(e) == [reservation |-> e.reservation, quantity |-> e.quantity]

\* What the events say.
EventTyped(e) ==
  /\ e.type \in Models!OfItem \cup {"ResourceCreated", "ResourceReserved", "ResourceReservationReleased"}
  /\ e.type = "WorkItemCreated" => e.status \in Statuses /\ e.field \in FieldValues \cup {None}
  /\ e.type = "WorkItemFieldsUpdated" => e.field \in FieldValues
  /\ e.type = "WorkItemTransitioned" => e.to \in Statuses
  /\ e.type = "WorkItemAssigned" => e.assignee \in Assignees
  /\ e.type \in Models!OfItem \ {"WorkItemCreated"} => e.version \in Nat
  /\ e.type \in {"ResourceReserved", "ResourceReservationReleased"} =>
       e.reservation \in Reservations /\ e.quantity \in Quantities \cup {None}

\* An event tells what has happened: of an item i it makes j, of a resource s it makes t.
Leads(e, i, j, s, t) ==
  /\ EventTyped(e)
  /\ IF e.type \in Models!OfItem
       THEN /\ j = Models!SummaryValue(e, i) /\ t = s
            /\ e.type = "WorkItemCreated" \/ i # None
       ELSE /\ j = i
            /\ \/ e.type = "ResourceCreated" /\ s = None /\ t = {}
               \/ /\ e.type = "ResourceReserved" /\ s # None
                  /\ \A x \in s : x.reservation # e.reservation
                  /\ t = s \cup {RecordOf(e)}
               \/ /\ e.type = "ResourceReservationReleased" /\ s # None
                  /\ RecordOf(e) \in s /\ t = s \ {RecordOf(e)}

\* A resource after n events.
ResourceSound(s, n) ==
  /\ s \in Models!Resource \cup {None}
  /\ s = None => \A i \in 1..n : events[i].type # "ResourceReserved"
  /\ s # None =>
       /\ IsFiniteSet(s)
       /\ \A x, y \in s : x.reservation = y.reservation => x = y
       /\ \A x \in s : \E i \in 1..n : ReservedAt(i, x.reservation)

\* What the item and the resource have been after each event, as the events tell it.
Chronicle(items, resources) ==
  /\ items[0] = None /\ resources[0] = None
  /\ items[Len(events)] = item /\ resources[Len(events)] = resource
  /\ \A n \in 0..Len(events) :
       items[n] \in Models!Item \cup {None} /\ ResourceSound(resources[n], n)
  /\ \A n \in 1..Len(events) :
       Leads(events[n], items[n - 1], items[n], resources[n - 1], resources[n])

\* What the records hold if some events are applied again: the counters may be off.
SummarySound(i) ==
  i # None => summary # None /\ \A f \in DOMAIN Models!BlankItem \ Models!Counters : summary[f] = i[f]

UsageSound(s) ==
  /\ s # None => usage # None
  /\ usage # None =>
       \A r \in Reservations :
         /\ (\E i \in 1..applied : ReservedAt(i, r)) =>
              (r \in usage.ids <=> \E x \in s : x.reservation = r)
         /\ r \in usage.ids => \E i \in 1..Len(events) : ReservedAt(i, r)

(***************************************************************************)
(* The inductive invariant: the records are what the item and the resource *)
(* were after the events that are applied, but for what a rebuild that     *)
(* does not clear finds of the time after.                                 *)
(***************************************************************************)
ModelsInv ==
  /\ \E S : events \in Seq(S)
  /\ summary \in Models!Item \cup {None} /\ usage \in Models!Usage \cup {None}
  /\ applied \in 0..Len(events)
  /\ \E m \in applied..Len(events) : timeline = 1..m
  /\ \E items, resources :
       /\ Chronicle(items, resources)
       /\ ~ again /\ timeline = 1..applied =>
            summary = items[applied] /\ usage = Models!UsageOf(resources[applied])
       /\ SummarySound(items[applied]) /\ UsageSound(resources[applied])

-----------------------------------------------------------------------------
\* The sums and counts of the read models.
LEMMA ModelSums == \A f : Models!SumFunction(f) = SumFunctionOnSet(f, DOMAIN f)
BY DEF Models!SumFunction, Models!SumFunctionOnSet, SumFunctionOnSet,
       Models!FoldFunctionOnSet, FoldFunctionOnSet, Models!MapThenFoldSet, MapThenFoldSet

\* The instance counts as FiniteSets does.
LEMMA ModelCounts == \A S : Models!Cardinality(S) = Cardinality(S)
BY DEF Models!Cardinality, Cardinality, Models!IsFiniteSet, IsFiniteSet

\* The fields of a summary that an event sets.
LEMMA NoCounters ==
  DOMAIN Models!BlankItem \ Models!Counters = {"status", "field", "assignee", "version"}
BY DEF Models!BlankItem, Models!Counters

\* What the projections make of an event is a record.
LEMMA SummaryTyped ==
  ASSUME Models!ModelsAssumption, NEW e, EventTyped(e), e.type \in Models!OfItem,
         NEW x \in Models!Item \cup {None}
  PROVE  Models!SummaryValue(e, x) \in Models!Item
<1>1. Models!BlankItem \in Models!Item
  BY DEF Models!BlankItem, Models!Item
<1>2. PICK base \in Models!Item : base = Models!Old(x, Models!BlankItem)
  BY <1>1 DEF Models!Old
<1>3. CASE e.type = "WorkItemCreated"
  BY <1>2, <1>3 DEF Models!SummaryValue, Models!Item, Models!BlankItem, EventTyped
<1>4. CASE e.type = "WorkItemFieldsUpdated"
  BY <1>2, <1>4 DEF Models!SummaryValue, Models!Item, EventTyped, Models!OfItem
<1>5. CASE e.type = "WorkItemTransitioned"
  BY <1>2, <1>5 DEF Models!SummaryValue, Models!Item, EventTyped, Models!OfItem
<1>6. CASE e.type = "WorkItemAssigned"
  BY <1>2, <1>6 DEF Models!SummaryValue, Models!Item, EventTyped, Models!OfItem
<1>9. base.comments + 1 \in Nat /\ base.decisions + 1 \in Nat
  BY DEF Models!Item
<1>7. CASE e.type = "DecisionAdded"
  BY <1>2, <1>7, <1>9 DEF Models!SummaryValue, Models!Item, EventTyped, Models!OfItem
<1>8. CASE e.type = "CommentAdded"
  BY <1>2, <1>8, <1>9 DEF Models!SummaryValue, Models!Item, EventTyped, Models!OfItem
<1> QED
  BY <1>3, <1>4, <1>5, <1>6, <1>7, <1>8 DEF Models!OfItem

\* What is counted of a resource is a record.
LEMMA UsageTyped ==
  ASSUME Models!ModelsAssumption, NEW e, EventTyped(e), e.type \notin Models!OfItem,
         NEW x \in Models!Usage \cup {None}
  PROVE  Models!UsageValue(e, x) \in Models!Usage
<1>1. Models!NoUsage \in Models!Usage
  BY DEF Models!NoUsage, Models!Usage
<1>2. PICK base \in Models!Usage : base = Models!Old(x, Models!NoUsage)
  BY <1>1 DEF Models!Old
<1>3. PICK q \in Nat : q = Models!Quantity(e) \/ e.type = "ResourceCreated"
  BY DEF Models!Quantity, EventTyped, Models!ModelsAssumption
<1>4. \A n \in Int : Models!Positive(n) \in Nat
  BY DEF Models!Positive
<1> QED
  BY <1>2, <1>3, <1>4 DEF Models!UsageValue, Models!Usage, EventTyped

\* What an event changes does not depend on the counters.
LEMMA SummaryRight ==
  ASSUME NEW e, EventTyped(e), e.type \in Models!OfItem,
         NEW x \in Models!Item \cup {None}, NEW y \in Models!Item \cup {None},
         \/ e.type = "WorkItemCreated"
         \/ x # None /\ y # None /\ \A f \in {"status", "field", "assignee", "version"} : x[f] = y[f]
  PROVE  \A f \in {"status", "field", "assignee", "version"} :
           Models!SummaryValue(e, x)[f] = Models!SummaryValue(e, y)[f]
<1>1. CASE e.type = "WorkItemCreated"
  BY <1>1 DEF Models!SummaryValue, Models!BlankItem
<1>2. CASE e.type # "WorkItemCreated"
  BY <1>2 DEF Models!SummaryValue, Models!Old, Models!Item, EventTyped, Models!OfItem
<1> QED
  BY <1>1, <1>2

\* Of what a resource holds one reservation more or less makes a difference of its own.
LEMMA UsageAdds ==
  ASSUME Models!ModelsAssumption,
         NEW s \in SUBSET [reservation : Reservations, quantity : Quantities \cup {None}],
         IsFiniteSet(s), NEW x \in s
  PROVE  LET sum(t) == Models!SumFunction([b \in t |-> Models!Quantity(b)]) IN
         /\ sum(s) \in Nat /\ sum(s \ {x}) \in Nat /\ Models!Quantity(x) \in Nat
         /\ sum(s) = sum(s \ {x}) + Models!Quantity(x)
         /\ Models!Cardinality(s) \in Nat /\ Models!Cardinality(s \ {x}) \in Nat
         /\ Models!Cardinality(s) = Models!Cardinality(s \ {x}) + 1
<1> DEFINE f == [b \in s |-> Models!Quantity(b)]
           t == s \ {x}
           g == [b \in t |-> Models!Quantity(b)]
<1>1. \A y \in s : Models!Quantity(y) \in Nat
  BY DEF Models!Quantity, Models!ModelsAssumption
<1>2. IsFiniteSet(t)
  BY FS_RemoveElement
<1>3. /\ Models!SumFunction(f) = SumFunctionOnSet(f, s)
      /\ Models!SumFunction(g) = SumFunctionOnSet(g, t)
  BY ModelSums
<1>4. /\ f[x] = Models!Quantity(x)
      /\ (\A y \in s : f[y] \in Nat) /\ \A y \in t : g[y] = f[y] /\ g[y] \in Nat
  BY <1>1
<1> HIDE DEF f, g
<1>5. SumFunctionOnSet(f, s) = f[x] + SumFunctionOnSet(f, t)
  BY <1>4, SumTakeOut
<1>6. SumFunctionOnSet(g, t) = SumFunctionOnSet(f, t)
  BY <1>2, <1>4, SumSame
<1>7. SumFunctionOnSet(f, s) \in Nat /\ SumFunctionOnSet(g, t) \in Nat
  BY <1>2, <1>4, SumNatural
<1>8. Cardinality(s) \in Nat /\ Cardinality(t) \in Nat /\ Cardinality(t) = Cardinality(s) - 1
  BY <1>2, FS_CardinalityType, FS_RemoveElement
<1>9. Models!Cardinality(s) = Cardinality(s) /\ Models!Cardinality(t) = Cardinality(t)
  BY ModelCounts
<1>10. /\ Models!SumFunction(f) = Models!SumFunction(g) + Models!Quantity(x)
       /\ Models!SumFunction(f) \in Nat /\ Models!SumFunction(g) \in Nat
  BY <1>1, <1>3, <1>4, <1>5, <1>6, <1>7
<1> QED
  BY <1>1, <1>8, <1>9, <1>10 DEF f, g

\* Nothing is counted of a resource that nobody has reserved.
LEMMA UsageBlank ==
  ASSUME Models!ModelsAssumption PROVE Models!UsageOf({}) = Models!NoUsage
<1>1. {} # None
  BY DEF Models!ModelsAssumption, Models!Resource
<1>2. PICK f : f = [b \in {} |-> Models!Quantity(b)]
  OBVIOUS
<1>3. Models!SumFunction(f) = 0
  BY <1>2, ModelSums, SumEmpty
<1>4. Models!Cardinality({}) = 0
  BY ModelCounts, FS_EmptySet
<1> QED
  BY <1>1, <1>2, <1>3, <1>4 DEF Models!UsageOf, Models!NoUsage

\* The projection of a resource counts what the resource holds.
LEMMA UsageExact ==
  ASSUME Models!ModelsAssumption, NEW e, NEW i, NEW s, NEW t, NEW n, Leads(e, i, i, s, t),
         e.type \notin Models!OfItem, ResourceSound(s, n), t \in Models!Resource
  PROVE  Models!UsageValue(e, Models!UsageOf(s)) = Models!UsageOf(t)
<1>1. t # None
  BY DEF Models!ModelsAssumption
<1>2. CASE e.type = "ResourceCreated"
  <2>1. s = None /\ t = {}
    BY <1>2 DEF Leads
  <2>2. Models!UsageOf(s) = None
    BY <2>1 DEF Models!UsageOf
  <2> QED
    BY <1>2, <2>1, <2>2, UsageBlank DEF Models!UsageValue, Models!Old
<1>3. CASE e.type # "ResourceCreated"
  <2>1. PICK x : x = RecordOf(e)
    OBVIOUS
  <2>2. /\ x.reservation = e.reservation /\ x.quantity = e.quantity
        /\ Models!Quantity(x) = Models!Quantity(e)
    BY <2>1 DEF RecordOf, Models!Quantity
  <2>3. s # None /\ s \in Models!Resource /\ IsFiniteSet(s)
    BY <1>3 DEF Leads, ResourceSound
  <2>4. PICK u : /\ u = Models!UsageOf(s) /\ u \in Models!Usage
                 /\ u.active = Models!Cardinality(s)
                 /\ u.quantity = Models!SumFunction([b \in s |-> Models!Quantity(b)])
                 /\ u.ids = {b.reservation : b \in s}
    <3>1. PICK f : f = [b \in s |-> Models!Quantity(b)]
      OBVIOUS
    <3>2. PICK ids : ids = {b.reservation : b \in s}
      OBVIOUS
    <3>3. Models!UsageOf(s) = [active |-> Models!Cardinality(s),
                               quantity |-> Models!SumFunction(f), ids |-> ids]
      BY <2>3, <3>1, <3>2 DEF Models!UsageOf
    <3>4. Models!Cardinality(s) \in Nat
      BY <2>3, ModelCounts, FS_CardinalityType
    <3>5. Models!SumFunction(f) \in Nat
      <4>1. \A y \in s : f[y] \in Nat
        BY <2>3, <3>1 DEF Models!Quantity, Models!ModelsAssumption, Models!Resource
      <4> QED
        BY <2>3, <3>1, <4>1, ModelSums, SumNatural
    <3>6. ids \in SUBSET Reservations
      BY <2>3, <3>2 DEF Models!Resource
    <3>7. PICK u : u = Models!UsageOf(s)
      OBVIOUS
    <3>8. /\ u \in Models!Usage /\ u.active = Models!Cardinality(s)
          /\ u.quantity = Models!SumFunction(f) /\ u.ids = ids
      BY <3>4, <3>5, <3>6, <3>3, <3>7 DEF Models!Usage
    <3> QED
      BY <3>1, <3>2, <3>7, <3>8
  <2>5. Models!Old(u, Models!NoUsage) = u
    BY <2>4 DEF Models!Old, Models!ModelsAssumption
  <2>6. CASE e.type = "ResourceReserved"
    <3>1. t = s \cup {x} /\ \A y \in s : y.reservation # e.reservation
      BY <2>1, <2>6 DEF Leads, Models!OfItem
    <3>2. x \notin s /\ t \ {x} = s /\ x \in t
      BY <2>2, <3>1
    <3>3. IsFiniteSet(t) /\ t \in SUBSET [reservation : Reservations, quantity : Quantities \cup {None}]
      BY <2>3, <3>1, FS_AddElement DEF Models!Resource
    <3>4. /\ Models!SumFunction([b \in t |-> Models!Quantity(b)]) = u.quantity + Models!Quantity(e)
          /\ Models!Cardinality(t) = u.active + 1
      BY <2>2, <2>4, <3>2, <3>3, UsageAdds
    <3>5. {b.reservation : b \in t} = u.ids \cup {e.reservation}
      BY <2>2, <2>4, <3>1
    <3> QED
      BY <1>1, <2>4, <2>5, <2>6, <3>4, <3>5 DEF Models!UsageValue, Models!UsageOf
  <2>7. CASE e.type = "ResourceReservationReleased"
    <3>1. x \in s /\ t = s \ {x} /\ \A y \in s : y.reservation = x.reservation => y = x
      BY <2>1, <2>3, <2>7 DEF Leads, Models!OfItem, ResourceSound
    <3>2. /\ u.quantity = Models!SumFunction([b \in t |-> Models!Quantity(b)]) + Models!Quantity(e)
          /\ u.active = Models!Cardinality(t) + 1
          /\ Models!SumFunction([b \in t |-> Models!Quantity(b)]) \in Nat
          /\ Models!Cardinality(t) \in Nat /\ Models!Quantity(e) \in Nat
      BY <2>2, <2>3, <2>4, <3>1, UsageAdds DEF Models!Resource
    <3>3. {b.reservation : b \in t} = u.ids \ {e.reservation}
      BY <2>2, <2>4, <3>1
    <3>4. /\ Models!Positive(u.active - 1) = Models!Cardinality(t)
          /\ Models!Positive(u.quantity - Models!Quantity(e)) =
               Models!SumFunction([b \in t |-> Models!Quantity(b)])
      BY <3>2 DEF Models!Positive
    <3> QED
      BY <1>1, <2>4, <2>5, <2>7, <3>3, <3>4 DEF Models!UsageValue, Models!UsageOf
  <2> QED
    BY <1>3, <2>6, <2>7 DEF Leads, Models!OfItem
<1> QED
  BY <1>2, <1>3

-----------------------------------------------------------------------------
\* The invariant holds before anything happens.
LEMMA ModelsBegin ==
  ASSUME Models!ModelsAssumption, Models!Init PROVE ModelsInv
<1>1. /\ item = None /\ resource = None /\ events = <<>> /\ summary = None /\ usage = None
      /\ timeline = {} /\ applied = 0
  BY DEF Models!Init
<1>2. events \in Seq({}) /\ Len(events) = 0 /\ 1..0 = {}
  BY <1>1
<1>3. PICK none : none = [n \in {0} |-> None]
  OBVIOUS
<1>4. Chronicle(none, none)
  BY <1>1, <1>2, <1>3 DEF Chronicle, ResourceSound
<1>5. Models!UsageOf(None) = None
  BY DEF Models!UsageOf
<1>6. SummarySound(None) /\ UsageSound(None)
  BY <1>1 DEF SummarySound, UsageSound
<1>7. none[applied] = None
  BY <1>1, <1>3
<1>8. applied \in 0..Len(events) /\ timeline = 1..0 /\ 0 \in applied..Len(events)
  BY <1>1, <1>2
<1> QED
  BY <1>1, <1>2, <1>4, <1>5, <1>6, <1>7, <1>8 DEF ModelsInv

\* A use case records what it has done.
LEMMA HappensKeeps ==
  ASSUME Models!ModelsAssumption, ModelsInv, NEW e, Models!Happens(e),
         Leads(e, item, item', resource, resource')
  PROVE  ModelsInv'
<1>0. PICK n : n = Len(events)
  OBVIOUS
<1>1. PICK items, resources :
        /\ Chronicle(items, resources)
        /\ ~ again /\ timeline = 1..applied =>
             summary = items[applied] /\ usage = Models!UsageOf(resources[applied])
        /\ SummarySound(items[applied]) /\ UsageSound(resources[applied])
  BY DEF ModelsInv
<1>2. PICK S : events \in Seq(S)
  BY DEF ModelsInv
<1>3. /\ events' \in Seq(S \cup {e}) /\ n \in Nat /\ Len(events') = n + 1
      /\ \A i \in 1..n : events'[i] = events[i]
      /\ events'[n + 1] = e
  <2>1. events \in Seq(S \cup {e}) /\ e \in S \cup {e} /\ events' = Append(events, e)
    BY <1>2 DEF Models!Happens
  <2> QED
    BY <1>0, <2>1
<1>4. UNCHANGED <<summary, usage, timeline, applied, again>>
  BY DEF Models!Happens
<1>5. PICK i, s, j, t : i = item /\ s = resource /\ j = item' /\ t = resource'
  OBVIOUS
<1>6. Leads(e, i, j, s, t)
  BY <1>5
<1>7. PICK items2, resources2 :
        /\ items2 = [m \in 0..n + 1 |-> IF m = n + 1 THEN j ELSE items[m]]
        /\ resources2 = [m \in 0..n + 1 |-> IF m = n + 1 THEN t ELSE resources[m]]
  OBVIOUS
<1>8. applied \in 0..n
  BY <1>0 DEF ModelsInv
<1>9. /\ items[0] = None /\ resources[0] = None /\ items[n] = i /\ resources[n] = s
      /\ \A m \in 0..n : items[m] \in Models!Item \cup {None} /\ ResourceSound(resources[m], m)
      /\ \A m \in 1..n : Leads(events[m], items[m - 1], items[m], resources[m - 1], resources[m])
  BY <1>1, <1>5, <1>0 DEF Chronicle
<1>10. j \in Models!Item \cup {None}
  <2>1. i \in Models!Item \cup {None}
    BY <1>3, <1>9
  <2> QED
    BY <1>6, <2>1, SummaryTyped DEF Leads
<1>11. /\ \A m \in 0..n : items2[m] = items[m] /\ resources2[m] = resources[m]
       /\ items2[n + 1] = j /\ resources2[n + 1] = t
  BY <1>3, <1>7
<1>12. ASSUME NEW r, NEW m \in 0..n, NEW p \in 1..m, ReservedAt(p, r) PROVE ReservedAt(p, r)'
  BY <1>3, <1>12 DEF ReservedAt
<1>13. ASSUME NEW m \in 0..n PROVE ResourceSound(resources2[m], m)'
  <2>1. PICK u : u = resources[m] /\ u = resources2[m] /\ ResourceSound(u, m)
    BY <1>9, <1>11
  <2>2. \A p \in 1..m : p \in 1..n /\ events'[p] = events[p]
    BY <1>3
  <2> QED
    BY <1>12, <2>1, <2>2 DEF ResourceSound
<1>14. ResourceSound(t, n + 1)'
  <2>1. ResourceSound(s, n)
    BY <1>3, <1>9
  <2>5. ASSUME s # None, NEW x \in s PROVE \E p \in 1..n + 1 : ReservedAt(p, x.reservation)'
    <3>1. PICK p \in 1..n : ReservedAt(p, x.reservation)
      BY <2>1, <2>5 DEF ResourceSound
    <3>2. n \in 0..n /\ p \in 1..n + 1
      BY <1>3
    <3> QED
      BY <1>12, <3>1, <3>2
  <2>2. ASSUME NEW p \in 1..n + 1 PROVE events'[p] = e \/ (p \in 1..n /\ events'[p] = events[p])
    BY <1>3
  <2>3. CASE e.type \in Models!OfItem \/ e.type = "ResourceCreated"
    <3>1. e.type # "ResourceReserved" /\ (t = s \/ (s = None /\ t = {}))
      BY <1>6, <2>3 DEF Leads, Models!OfItem
    <3>2. {} \in Models!Resource /\ IsFiniteSet({})
      BY FS_EmptySet DEF Models!Resource
    <3>3. t # None => \A x \in t : \E p \in 1..n + 1 : ReservedAt(p, x.reservation)'
      BY <2>5, <3>1
    <3>4. s = None => \A p \in 1..n + 1 : events'[p].type # "ResourceReserved"
      BY <2>1, <2>2, <3>1 DEF ResourceSound
    <3>5. t = None => s = None
      BY <3>1, <3>2 DEF Models!ModelsAssumption
    <3> QED
      BY <2>1, <3>1, <3>2, <3>3, <3>4, <3>5 DEF ResourceSound
  <2>4. CASE e.type \in {"ResourceReserved", "ResourceReservationReleased"}
    <3>1. PICK x : x = RecordOf(e)
      OBVIOUS
    <3>2. /\ x \in [reservation : Reservations, quantity : Quantities \cup {None}]
          /\ x.reservation = e.reservation
      BY <1>6, <2>4, <3>1 DEF Leads, EventTyped, RecordOf
    <3>3. /\ s # None
          /\ \/ t = s \ {x}
             \/ /\ t = s \cup {x} /\ \A y \in s : y.reservation # e.reservation
                /\ e.type = "ResourceReserved"
      BY <1>6, <2>4, <3>1 DEF Leads, Models!OfItem
    <3>4. t \in Models!Resource /\ IsFiniteSet(t)
      BY <2>1, <3>2, <3>3, FS_AddElement, FS_RemoveElement DEF ResourceSound, Models!Resource
    <3>5. \A y, z \in t : y.reservation = z.reservation => y = z
      BY <2>1, <3>2, <3>3 DEF ResourceSound
    <3>6. ASSUME NEW y \in t PROVE \E p \in 1..n + 1 : ReservedAt(p, y.reservation)'
      <4>1. CASE y \in s
        BY <2>5, <3>3, <4>1
      <4>2. CASE y \notin s
        <5>1. y = x /\ e.type = "ResourceReserved" /\ n + 1 \in 1..n + 1
          BY <1>3, <3>3, <4>2
        <5> QED
          BY <1>3, <3>2, <5>1 DEF ReservedAt
      <4> QED
        BY <4>1, <4>2
    <3>7. t # None
      BY <3>4 DEF Models!ModelsAssumption
    <3> QED
      BY <3>4, <3>5, <3>6, <3>7 DEF ResourceSound
  <2> QED
    BY <1>6, <2>3, <2>4 DEF Leads, EventTyped
<1>15. ASSUME NEW m \in 1..n + 1
       PROVE  Leads(events'[m], items2[m - 1], items2[m], resources2[m - 1], resources2[m])
  <2>1. CASE m = n + 1
    BY <1>3, <1>6, <1>9, <1>11, <2>1
  <2>2. CASE m # n + 1
    <3>1. m \in 1..n /\ m \in 0..n /\ m - 1 \in 0..n
      BY <1>3, <2>2
    <3> QED
      BY <1>3, <1>9, <1>11, <3>1
  <2> QED
    BY <2>1, <2>2
<1>16. ASSUME NEW m \in 0..n + 1
       PROVE  items2[m] \in Models!Item \cup {None} /\ ResourceSound(resources2[m], m)'
  <2>1. CASE m = n + 1
    BY <1>10, <1>11, <1>14, <2>1
  <2>2. CASE m # n + 1
    BY <1>3, <1>9, <1>11, <1>13, <2>2
  <2> QED
    BY <2>1, <2>2
<1>17. Chronicle(items2, resources2)'
  <2>1. 0 \in 0..n
    BY <1>3
  <2> QED
    BY <1>3, <1>5, <1>9, <1>11, <1>15, <1>16, <2>1 DEF Chronicle
<1>18. UsageSound(resources[applied])'
  <2>1. PICK u : u = resources[applied] /\ UsageSound(u)
    BY <1>1
  <2>2. \A r, p : p \in 1..n => (ReservedAt(p, r) <=> ReservedAt(p, r)')
    BY <1>3 DEF ReservedAt
  <2>3. /\ \A p \in 1..n : p \in 1..n + 1
        /\ \A p \in 1..applied : p \in 1..n
    BY <1>3, <1>8
  <2>4. UsageSound(u)'
    BY <1>3, <1>4, <1>0, <2>1, <2>2, <2>3 DEF UsageSound
  <2> QED
    BY <1>4, <2>1, <2>4
<1>19. SummarySound(items[applied])'
  BY <1>1, <1>4 DEF SummarySound
<1>20. applied \in 0..n + 1 /\ \E m \in applied..n + 1 : timeline = 1..m
  BY <1>3, <1>8, <1>0 DEF ModelsInv
<1>21. items2[applied'] = items[applied] /\ resources2[applied'] = resources[applied]
  BY <1>4, <1>8, <1>11
<1>22. ~ again' /\ timeline' = 1..applied' =>
         summary' = items2[applied'] /\ usage' = Models!UsageOf(resources2[applied'])
  BY <1>1, <1>4, <1>21
<1>23. SummarySound(items2[applied])' /\ UsageSound(resources2[applied])'
  BY <1>4, <1>18, <1>19, <1>21
<1> QED
  BY <1>3, <1>4, <1>17, <1>20, <1>22, <1>23 DEF ModelsInv

\* Every use case records an event that tells what it has done.
LEMMA UseCasesTell ==
  ASSUME Models!ModelsAssumption, ModelsInv,
         \/ Models!CreateWorkItem \/ Models!UpdateFields \/ Models!Transition \/ Models!Assign
         \/ Models!Comment \/ Models!CreateResource \/ Models!Release
         \/ \E r \in Reservations : Models!Reserve(r)
  PROVE  \E e : Models!Happens(e) /\ Leads(e, item, item', resource, resource')
<1>1. /\ item \in Models!Item \cup {None}
      /\ ResourceSound(resource, Len(events))
      /\ \E S : events \in Seq(S)
  BY DEF ModelsInv, Chronicle
<1>2. item # None => item.version + 1 \in Nat
  BY <1>1 DEF Models!Item
<1>3. CASE Models!CreateWorkItem
  <2>1. PICK status \in Statuses, value \in FieldValues \cup {None} :
          /\ Models!Changed([Models!BlankItem EXCEPT !.status = status, !.field = value, !.version = 1])
          /\ Models!Happens([type |-> "WorkItemCreated", status |-> status, field |-> value])
    BY <1>3 DEF Models!CreateWorkItem
  <2>2. PICK e : e = [type |-> "WorkItemCreated", status |-> status, field |-> value]
    OBVIOUS
  <2>3. EventTyped(e) /\ e.type \in Models!OfItem
    BY <2>2 DEF EventTyped, Models!OfItem
  <2>4. item' = Models!SummaryValue(e, item)
    BY <1>3, <2>1, <2>2 DEF Models!SummaryValue, Models!Changed, Models!BlankItem, Models!Old,
                            Models!CreateWorkItem
  <2> QED
    BY <2>1, <2>2, <2>3, <2>4 DEF Leads, Models!Changed
<1>4. CASE Models!UpdateFields
  <2>1. PICK value \in FieldValues :
          /\ Models!Changed([item EXCEPT !.field = value, !.version = @ + 1])
          /\ Models!Happens([type |-> "WorkItemFieldsUpdated", field |-> value,
                             version |-> item.version + 1])
    BY <1>4 DEF Models!UpdateFields
  <2>2. PICK e : e = [type |-> "WorkItemFieldsUpdated", field |-> value, version |-> item.version + 1]
    OBVIOUS
  <2>3. item # None /\ item.version + 1 \in Nat
    BY <1>4, <1>2 DEF Models!UpdateFields
  <2>4. EventTyped(e) /\ e.type \in Models!OfItem
    BY <2>2, <2>3 DEF EventTyped, Models!OfItem
  <2>5. item' = Models!SummaryValue(e, item)
    BY <2>1, <2>2, <2>3 DEF Models!SummaryValue, Models!Changed, Models!Old
  <2> QED
    BY <2>1, <2>2, <2>3, <2>4, <2>5 DEF Leads, Models!Changed
<1>5. CASE Models!Transition
  <2>1. PICK to \in Statuses :
          /\ Models!Changed([item EXCEPT !.status = to, !.version = @ + 1])
          /\ Models!Happens([type |-> "WorkItemTransitioned", to |-> to, version |-> item.version + 1])
    BY <1>5 DEF Models!Transition
  <2>2. PICK e : e = [type |-> "WorkItemTransitioned", to |-> to, version |-> item.version + 1]
    OBVIOUS
  <2>3. item # None /\ item.version + 1 \in Nat
    BY <1>5, <1>2 DEF Models!Transition
  <2>4. EventTyped(e) /\ e.type \in Models!OfItem
    BY <2>2, <2>3 DEF EventTyped, Models!OfItem
  <2>5. item' = Models!SummaryValue(e, item)
    BY <2>1, <2>2, <2>3 DEF Models!SummaryValue, Models!Changed, Models!Old
  <2> QED
    BY <2>1, <2>2, <2>3, <2>4, <2>5 DEF Leads, Models!Changed
<1>6. CASE Models!Assign
  <2>1. PICK who \in Assignees :
          /\ Models!Changed([item EXCEPT !.assignee = who, !.version = @ + 1])
          /\ Models!Happens([type |-> "WorkItemAssigned", assignee |-> who,
                             version |-> item.version + 1])
    BY <1>6 DEF Models!Assign
  <2>2. PICK e : e = [type |-> "WorkItemAssigned", assignee |-> who, version |-> item.version + 1]
    OBVIOUS
  <2>3. item # None /\ item.version + 1 \in Nat
    BY <1>6, <1>2 DEF Models!Assign
  <2>4. EventTyped(e) /\ e.type \in Models!OfItem
    BY <2>2, <2>3 DEF EventTyped, Models!OfItem
  <2>5. item' = Models!SummaryValue(e, item)
    BY <2>1, <2>2, <2>3 DEF Models!SummaryValue, Models!Changed, Models!Old
  <2> QED
    BY <2>1, <2>2, <2>3, <2>4, <2>5 DEF Leads, Models!Changed
<1>7. CASE Models!Comment
  <2>1. PICK e : /\ Models!Happens(e) /\ UNCHANGED resource
                 /\ \/ /\ e = [type |-> "CommentAdded", version |-> item.version + 1]
                       /\ item' = [item EXCEPT !.comments = @ + 1, !.version = @ + 1]
                    \/ /\ e = [type |-> "DecisionAdded", version |-> item.version + 1]
                       /\ item' = [item EXCEPT !.decisions = @ + 1, !.version = @ + 1]
    BY <1>7 DEF Models!Comment, Models!Changed
  <2>2. item # None /\ item.version + 1 \in Nat
    BY <1>7, <1>2 DEF Models!Comment
  <2>3. EventTyped(e) /\ e.type \in Models!OfItem
    BY <2>1, <2>2 DEF EventTyped, Models!OfItem
  <2>4. item' = Models!SummaryValue(e, item)
    <3>1. CASE e.type = "CommentAdded"
      <4>1. /\ e.version = item.version + 1
            /\ item' = [item EXCEPT !.comments = @ + 1, !.version = @ + 1]
        BY <2>1, <3>1
      <4>2. Models!SummaryValue(e, item) = [item EXCEPT !.comments = @ + 1, !.version = e.version]
        BY <2>2, <3>1 DEF Models!SummaryValue, Models!Old
      <4> QED
        BY <4>1, <4>2
    <3>2. CASE e.type = "DecisionAdded"
      <4>1. /\ e.version = item.version + 1
            /\ item' = [item EXCEPT !.decisions = @ + 1, !.version = @ + 1]
        BY <2>1, <3>2
      <4>2. Models!SummaryValue(e, item) = [item EXCEPT !.decisions = @ + 1, !.version = e.version]
        BY <2>2, <3>2 DEF Models!SummaryValue, Models!Old
      <4> QED
        BY <4>1, <4>2
    <3> QED
      BY <2>1, <3>1, <3>2
  <2> QED
    BY <2>1, <2>2, <2>3, <2>4 DEF Leads
<1>8. CASE Models!CreateResource
  <2>1. PICK e : e = [type |-> "ResourceCreated"]
    OBVIOUS
  <2>2. EventTyped(e) /\ e.type = "ResourceCreated" /\ e.type \notin Models!OfItem
    BY <2>1 DEF EventTyped, Models!OfItem
  <2> QED
    BY <1>8, <2>1, <2>2 DEF Models!CreateResource, Leads
<1>9. ASSUME NEW r \in Reservations, Models!Reserve(r)
      PROVE  \E e : Models!Happens(e) /\ Leads(e, item, item', resource, resource')
  <2>1. PICK quantity \in Quantities \cup {None} :
          /\ resource' = resource \cup {[reservation |-> r, quantity |-> quantity]}
          /\ UNCHANGED item
          /\ Models!Happens([type |-> "ResourceReserved", reservation |-> r, quantity |-> quantity])
    BY <1>9 DEF Models!Reserve
  <2>2. PICK e : e = [type |-> "ResourceReserved", reservation |-> r, quantity |-> quantity]
    OBVIOUS
  <2>3. EventTyped(e) /\ e.type = "ResourceReserved" /\ e.type \notin Models!OfItem
    BY <2>2 DEF EventTyped, Models!OfItem
  <2>4. RecordOf(e) = [reservation |-> r, quantity |-> quantity] /\ e.reservation = r
    BY <2>2 DEF RecordOf
  <2>5. resource # None
    BY <1>9 DEF Models!Reserve
  <2>6. ASSUME NEW x \in resource PROVE x.reservation # r
    <3>1. PICK i \in 1..Len(events) : ReservedAt(i, x.reservation)
      BY <1>1, <2>5 DEF ResourceSound
    <3>2. events[i] \in Models!Range(events)
      BY <1>1 DEF Models!Range
    <3> QED
      BY <1>9, <3>1, <3>2 DEF Models!Reserve, ReservedAt
  <2>7. Leads(e, item, item', resource, resource')
    BY <2>1, <2>3, <2>4, <2>5, <2>6 DEF Leads
  <2> QED
    BY <2>1, <2>2, <2>7
<1>10. CASE Models!Release
  <2>1. PICK x \in resource :
          /\ resource' = resource \ {x} /\ UNCHANGED item
          /\ Models!Happens([type |-> "ResourceReservationReleased", reservation |-> x.reservation,
                             quantity |-> x.quantity])
    BY <1>10 DEF Models!Release
  <2>2. PICK e : e = [type |-> "ResourceReservationReleased", reservation |-> x.reservation,
                      quantity |-> x.quantity]
    OBVIOUS
  <2>3. resource # None /\ x \in [reservation : Reservations, quantity : Quantities \cup {None}]
    BY <1>1, <1>10 DEF Models!Release, ResourceSound, Models!Resource
  <2>4. RecordOf(e) = x
    BY <2>2, <2>3 DEF RecordOf
  <2>5. EventTyped(e) /\ e.type = "ResourceReservationReleased" /\ e.type \notin Models!OfItem
    BY <2>2, <2>3 DEF EventTyped, Models!OfItem
  <2> QED
    BY <2>1, <2>2, <2>3, <2>4, <2>5 DEF Leads
<1> QED
  BY <1>3, <1>4, <1>5, <1>6, <1>7, <1>8, <1>9, <1>10

\* The worker applies the next event.
LEMMA ApplyKeeps ==
  ASSUME Models!ModelsAssumption, ModelsInv, Models!Apply PROVE ModelsInv'
<1>1. PICK items, resources :
        /\ Chronicle(items, resources)
        /\ ~ again /\ timeline = 1..applied =>
             summary = items[applied] /\ usage = Models!UsageOf(resources[applied])
        /\ SummarySound(items[applied]) /\ UsageSound(resources[applied])
  BY DEF ModelsInv
<1>2. PICK n, a : n = Len(events) /\ a = applied
  OBVIOUS
<1>3. PICK e : e = events[a + 1]
  OBVIOUS
<1>4. /\ n \in Nat /\ a \in 0..n /\ a < n /\ applied' = a + 1
      /\ UNCHANGED <<item, resource, events>>
      /\ again' = (again \/ a + 1 \in timeline)
      /\ timeline' = timeline \cup {a + 1}
      /\ IF e.type \in Models!OfItem
           THEN summary' = Models!SummaryValue(e, summary) /\ UNCHANGED usage
           ELSE usage' = Models!UsageValue(e, usage) /\ UNCHANGED summary
  BY <1>2, <1>3 DEF ModelsInv, Models!Apply, Models!Project
<1>5. PICK i, j, s, t : i = items[a] /\ j = items[a + 1] /\ s = resources[a] /\ t = resources[a + 1]
  OBVIOUS
<1>6. /\ Leads(e, i, j, s, t) /\ EventTyped(e)
      /\ i \in Models!Item \cup {None} /\ j \in Models!Item \cup {None}
      /\ ResourceSound(s, a)
  <2>1. a + 1 \in 1..n /\ a \in 0..n /\ a + 1 \in 0..n /\ (a + 1) - 1 = a
    BY <1>4
  <2> QED
    BY <1>1, <1>2, <1>3, <1>5, <2>1 DEF Chronicle, Leads
<1>7. PICK m \in a..n : timeline = 1..m
  BY <1>2 DEF ModelsInv
<1>8. \E l \in a + 1..n : timeline' = 1..l
  <2>1. CASE m = a
    <3>1. timeline' = 1..a + 1 /\ a + 1 \in a + 1..n
      BY <1>4, <1>7, <2>1
    <3> QED
      BY <3>1
  <2>2. CASE m # a
    <3>1. timeline' = 1..m /\ m \in a + 1..n
      BY <1>4, <1>7, <2>2
    <3> QED
      BY <3>1
  <2> QED
    BY <2>1, <2>2
<1>9. ~ again' => summary = i /\ usage = Models!UsageOf(s)
  <2>1. ~ again' => ~ again /\ a + 1 \notin timeline
    BY <1>4
  <2>2. a + 1 \notin timeline => timeline = 1..a
    <3>1. a + 1 \notin 1..m => m = a
      BY <1>4, <1>7
    <3> QED
      BY <1>7, <3>1
  <2> QED
    BY <1>1, <1>2, <1>5, <2>1, <2>2
<1>10. SummarySound(i) /\ UsageSound(s)
  BY <1>1, <1>2, <1>5
<1>11. /\ summary \in Models!Item \cup {None} /\ usage \in Models!Usage \cup {None}
       /\ None \notin Models!Item /\ None \notin Models!Usage
  BY DEF ModelsInv, Models!ModelsAssumption
<1>12. Chronicle(items, resources)'
  <2>1. \A r, k : ReservedAt(k, r) <=> ReservedAt(k, r)'
    BY <1>4 DEF ReservedAt
  <2>2. \A r, k : ResourceSound(r, k) => ResourceSound(r, k)'
    BY <1>4, <2>1 DEF ResourceSound
  <2> QED
    BY <1>1, <1>4, <2>2 DEF Chronicle
<1>13. \A r : \A k \in 1..a + 1 :
         ReservedAt(k, r)' <=> (k \in 1..a /\ ReservedAt(k, r))
                                 \/ (k = a + 1 /\ e.type = "ResourceReserved" /\ e.reservation = r)
  BY <1>3, <1>4 DEF ReservedAt
<1>14. \A r : (\E k \in 1..n : ReservedAt(k, r)) => \E k \in 1..n : ReservedAt(k, r)'
  BY <1>4 DEF ReservedAt
<1>15. ASSUME summary' \in Models!Item \cup {None}, usage' \in Models!Usage \cup {None},
              SummarySound(j)', UsageSound(t)',
              ~ again' => summary' = j /\ usage' = Models!UsageOf(t)
       PROVE  ModelsInv'
  <2>1. /\ \E S : events' \in Seq(S)
        /\ applied' \in 0..Len(events') /\ \E l \in applied'..Len(events') : timeline' = 1..l
    BY <1>2, <1>4, <1>8 DEF ModelsInv
  <2>2. items[applied'] = j /\ resources[applied'] = t
    BY <1>4, <1>5
  <2>3. /\ ~ again' /\ timeline' = 1..applied' =>
             summary' = items[applied'] /\ usage' = Models!UsageOf(resources[applied'])
        /\ SummarySound(items[applied])' /\ UsageSound(resources[applied])'
    BY <1>15, <2>2
  <2> QED
    BY <1>12, <1>15, <2>1, <2>3 DEF ModelsInv
<1>16. CASE e.type \in Models!OfItem
  <2>1. /\ summary' = Models!SummaryValue(e, summary) /\ usage' = usage
        /\ j = Models!SummaryValue(e, i) /\ t = s
        /\ e.type = "WorkItemCreated" \/ i # None
    BY <1>4, <1>6, <1>16 DEF Leads
  <2>2. summary' \in Models!Item
    BY <1>6, <1>11, <1>16, <2>1, SummaryTyped
  <2>3. SummarySound(j)'
    <3>1. \/ e.type = "WorkItemCreated"
          \/ /\ summary # None /\ i # None
             /\ \A f \in {"status", "field", "assignee", "version"} : summary[f] = i[f]
      BY <1>10, <2>1, NoCounters DEF SummarySound
    <3>2. \A f \in {"status", "field", "assignee", "version"} : summary'[f] = j[f]
      BY <1>6, <1>11, <1>16, <2>1, <3>1, SummaryRight
    <3> QED
      BY <1>11, <2>2, <3>2, NoCounters DEF SummarySound
  <2>4. UsageSound(t)'
    <3>1. e.type # "ResourceReserved"
      BY <1>16 DEF Models!OfItem
    <3>2. \A r : (\E k \in 1..a + 1 : ReservedAt(k, r)') => \E k \in 1..a : ReservedAt(k, r)
      BY <1>13, <3>1
    <3> QED
      BY <1>2, <1>4, <1>10, <1>14, <2>1, <3>2 DEF UsageSound
  <2>5. ~ again' => summary' = j /\ usage' = Models!UsageOf(t)
    BY <1>9, <2>1
  <2> QED
    BY <1>11, <1>15, <2>1, <2>2, <2>3, <2>4, <2>5
<1>17. CASE e.type \notin Models!OfItem
  <2>1. usage' = Models!UsageValue(e, usage) /\ summary' = summary /\ j = i
    BY <1>4, <1>6, <1>17 DEF Leads
  <2>2. usage' \in Models!Usage
    BY <1>6, <1>11, <1>17, <2>1, UsageTyped
  <2>3. SummarySound(j)'
    BY <1>10, <2>1 DEF SummarySound
  <2>4. t \in Models!Resource
    <3>1. {} \in Models!Resource
      BY DEF Models!Resource
    <3>2. s # None => s \in Models!Resource
      BY <1>6 DEF ResourceSound
    <3>3. e.type # "ResourceCreated" =>
            RecordOf(e) \in [reservation : Reservations, quantity : Quantities \cup {None}]
      BY <1>6, <1>17 DEF EventTyped, RecordOf
    <3> QED
      BY <1>6, <1>17, <3>1, <3>2, <3>3 DEF Leads, Models!Resource
  <2>5. ~ again' => summary' = j /\ usage' = Models!UsageOf(t)
    BY <1>6, <1>9, <1>17, <2>1, <2>4, UsageExact
  <2>6. UsageSound(t)'
    <3>1. PICK u, v : u = usage /\ v = usage'
      OBVIOUS
    <3>2. v \in Models!Usage /\ v # None
      BY <1>11, <2>2, <3>1
    <3>3. s # None => /\ u # None
                      /\ \A r \in Reservations : (\E k \in 1..a : ReservedAt(k, r)) =>
                           (r \in u.ids <=> \E x \in s : x.reservation = r)
      BY <1>2, <1>10, <3>1 DEF UsageSound
    <3>4. u # None => \A r \in Reservations : r \in u.ids => \E k \in 1..n : ReservedAt(k, r)'
      BY <1>2, <1>10, <1>14, <3>1 DEF UsageSound
    <3>5. ASSUME NEW r \in Reservations
          PROVE  /\ (\E k \in 1..a + 1 : ReservedAt(k, r)') =>
                      (r \in v.ids <=> \E x \in t : x.reservation = r)
                 /\ r \in v.ids => \E k \in 1..n : ReservedAt(k, r)'
      <4>1. CASE e.type = "ResourceCreated"
        <5>1. s = None /\ t = {}
          BY <1>6, <1>17, <4>1 DEF Leads
        <5>2. v = Models!Old(u, Models!NoUsage)
          BY <2>1, <3>1, <4>1 DEF Models!UsageValue
        <5>3. r \in v.ids => u # None /\ r \in u.ids
          BY <5>2 DEF Models!Old, Models!NoUsage
        <5>4. \A k \in 1..a : ~ ReservedAt(k, r)
          BY <1>6, <5>1 DEF ResourceSound, ReservedAt
        <5>5. \A k \in 1..a + 1 : ~ ReservedAt(k, r)'
          BY <1>13, <4>1, <5>4
        <5> QED
          BY <3>4, <5>3, <5>5
      <4>2. CASE e.type = "ResourceReserved"
        <5>1. s # None /\ t = s \cup {RecordOf(e)} /\ RecordOf(e).reservation = e.reservation
          BY <1>6, <1>17, <4>2 DEF Leads, RecordOf
        <5>2. v.ids = u.ids \cup {e.reservation}
          BY <2>1, <3>1, <3>3, <4>2, <5>1 DEF Models!UsageValue, Models!Old
        <5>3. r = e.reservation => ReservedAt(a + 1, r)' /\ a + 1 \in 1..n
          BY <1>3, <1>4, <4>2 DEF ReservedAt
        <5>4. r # e.reservation =>
                ((\E k \in 1..a + 1 : ReservedAt(k, r)') => \E k \in 1..a : ReservedAt(k, r))
          BY <1>13
        <5> QED
          BY <3>3, <3>4, <5>1, <5>2, <5>3, <5>4
      <4>3. CASE e.type = "ResourceReservationReleased"
        <5>1. PICK x : x = RecordOf(e)
          OBVIOUS
        <5>2. x = RecordOf(e) /\ x.reservation = e.reservation
          BY <5>1 DEF RecordOf
        <5>3. s # None /\ x \in s /\ t = s \ {x} /\ \A y \in s : y.reservation = x.reservation => y = x
          BY <1>6, <1>17, <4>3, <5>2 DEF Leads, ResourceSound
        <5>4. v.ids = u.ids \ {e.reservation}
          BY <2>1, <3>1, <3>3, <4>3, <5>3 DEF Models!UsageValue, Models!Old
        <5>5. (\E k \in 1..a + 1 : ReservedAt(k, r)') => \E k \in 1..a : ReservedAt(k, r)
          BY <1>13, <4>3
        <5>6. (\E y \in t : y.reservation = r) <=> r # e.reservation /\ \E y \in s : y.reservation = r
          BY <5>2, <5>3
        <5> QED
          BY <3>3, <3>4, <5>3, <5>4, <5>5, <5>6
      <4> QED
        BY <1>6, <1>17, <4>1, <4>2, <4>3 DEF EventTyped
    <3> QED
      BY <1>2, <1>4, <3>1, <3>2, <3>5 DEF UsageSound
  <2> QED
    BY <1>11, <1>15, <2>1, <2>2, <2>3, <2>5, <2>6
<1> QED
  BY <1>16, <1>17

\* The worker begins anew, with the records that there are or without.
LEMMA RebuildKeeps ==
  ASSUME Models!ModelsAssumption, ModelsInv, Models!Rebuild \/ Models!Rerun PROVE ModelsInv'
<1>1. PICK items, resources :
        /\ Chronicle(items, resources)
        /\ ~ again /\ timeline = 1..applied =>
             summary = items[applied] /\ usage = Models!UsageOf(resources[applied])
        /\ SummarySound(items[applied]) /\ UsageSound(resources[applied])
  BY DEF ModelsInv
<1>2. PICK n : n = Len(events)
  OBVIOUS
<1>3. /\ n \in Nat /\ applied \in 0..n /\ applied' = 0 /\ UNCHANGED <<item, resource, events>>
      /\ items[0] = None /\ resources[0] = None
  BY <1>1, <1>2 DEF ModelsInv, Models!Rebuild, Models!Rerun, Chronicle
<1>4. PICK m \in applied..n : timeline = 1..m
  BY <1>2 DEF ModelsInv
<1>5. \A r, k : ReservedAt(k, r) <=> ReservedAt(k, r)'
  BY <1>3 DEF ReservedAt
<1>6. Chronicle(items, resources)'
  <2>1. \A r, k : ResourceSound(r, k) => ResourceSound(r, k)'
    BY <1>3, <1>5 DEF ResourceSound
  <2> QED
    BY <1>1, <1>3, <2>1 DEF Chronicle
<1>7. SummarySound(None)'
  BY DEF SummarySound
<1>8. 1..0 = {} /\ Models!UsageOf(None) = None
  BY DEF Models!UsageOf
<1>9. CASE Models!Rebuild
  <2>1. summary' = None /\ usage' = None /\ timeline' = 1..0 /\ 0 \in 0..n
    BY <1>3, <1>8, <1>9 DEF Models!Rebuild
  <2>2. UsageSound(None)'
    BY <2>1 DEF UsageSound
  <2> QED
    BY <1>2, <1>3, <1>6, <1>7, <1>8, <2>1, <2>2 DEF ModelsInv
<1>10. CASE Models!Rerun
  <2>1. UNCHANGED <<summary, usage, timeline, again>>
    BY <1>10 DEF Models!Rerun
  <2>2. UsageSound(None)'
    <3>1. usage # None => \A r \in Reservations : r \in usage.ids => \E k \in 1..n : ReservedAt(k, r)
      BY <1>1, <1>2 DEF UsageSound
    <3> QED
      BY <1>2, <1>3, <1>5, <1>8, <2>1, <3>1 DEF UsageSound
  <2>3. timeline = 1..0 => applied = 0
    BY <1>3, <1>4
  <2>4. ~ again' /\ timeline' = 1..applied' => summary' = None /\ usage' = None
    BY <1>1, <1>3, <1>8, <2>1, <2>3
  <2>5. m \in 0..n
    BY <1>3, <1>4
  <2> QED
    BY <1>2, <1>3, <1>4, <1>6, <1>7, <1>8, <2>1, <2>2, <2>4, <2>5 DEF ModelsInv
<1> QED
  BY <1>9, <1>10

\* Every step keeps the invariant.
LEMMA ModelsStep ==
  ASSUME Models!ModelsAssumption, ModelsInv, [Models!Next]_Models!modelVars PROVE ModelsInv'
<1>1. CASE UNCHANGED Models!modelVars
  <2>1. \A r, k : ReservedAt(k, r) <=> ReservedAt(k, r)'
    BY <1>1 DEF Models!modelVars, ReservedAt
  <2>2. \A r, k : ResourceSound(r, k) <=> ResourceSound(r, k)'
    BY <2>1, <1>1 DEF Models!modelVars, ResourceSound
  <2>3. \A i : SummarySound(i) <=> SummarySound(i)'
    BY <1>1 DEF Models!modelVars, SummarySound
  <2>4. \A t : UsageSound(t) <=> UsageSound(t)'
    BY <1>1, <2>1 DEF Models!modelVars, UsageSound
  <2>5. \A i, t : Chronicle(i, t) <=> Chronicle(i, t)'
    BY <1>1, <2>2 DEF Models!modelVars, Chronicle
  <2> QED
    BY <1>1, <2>3, <2>4, <2>5 DEF Models!modelVars, ModelsInv
<1>2. CASE \/ Models!CreateWorkItem \/ Models!UpdateFields \/ Models!Transition \/ Models!Assign
           \/ Models!Comment \/ Models!CreateResource \/ Models!Release
           \/ \E r \in Reservations : Models!Reserve(r)
  BY <1>2, UseCasesTell, HappensKeeps
<1> QED
  BY <1>1, <1>2, ApplyKeeps, RebuildKeeps DEF Models!Next

\* The invariant says what the property says.
LEMMA ModelsSaid ==
  ASSUME Models!ModelsAssumption, ModelsInv PROVE ReadModelsAgree
<1> SUFFICES ASSUME applied = Len(events)
             PROVE  /\ timeline = 1..Len(events)
                    /\ ~ again => Models!Difference(item, summary)
                                    \cup Models!Difference(Models!ExpectedUsage, usage) = {}
                    /\ item # None => \A f \in DOMAIN Models!BlankItem \ Models!Counters :
                                        summary[f] = item[f]
                    /\ resource # None => usage.ids = Models!Held
  BY DEF ReadModelsAgree, Models!ReadModelsAgree
<1>1. PICK items, resources :
        /\ Chronicle(items, resources)
        /\ ~ again /\ timeline = 1..applied =>
             summary = items[applied] /\ usage = Models!UsageOf(resources[applied])
        /\ SummarySound(items[applied]) /\ UsageSound(resources[applied])
  BY DEF ModelsInv
<1>2. timeline = 1..applied /\ applied \in Nat
  BY DEF ModelsInv
<1>3. /\ items[applied] = item /\ resources[applied] = resource
      /\ ResourceSound(resource, applied)
  BY <1>1, <1>2 DEF Chronicle
<1>4. ~ again => summary = item /\ usage = Models!ExpectedUsage
  BY <1>1, <1>2, <1>3 DEF Models!ExpectedUsage
<1>5. ASSUME resource # None PROVE usage.ids = Models!Held
  <2>1. UsageSound(resource) /\ usage # None /\ usage.ids \subseteq Reservations
    BY <1>1, <1>3, <1>5 DEF UsageSound, ModelsInv, Models!Usage
  <2>2. ASSUME NEW r \in Reservations PROVE r \in usage.ids <=> \E x \in resource : x.reservation = r
    BY <1>3, <1>5, <2>1 DEF UsageSound, ResourceSound
  <2>3. \A x \in resource : x.reservation \in Reservations
    BY <1>3, <1>5 DEF ResourceSound, Models!Resource
  <2> QED
    BY <2>1, <2>2, <2>3 DEF Models!Held
<1> QED
  BY <1>1, <1>2, <1>3, <1>4, <1>5 DEF Models!Difference, SummarySound

(***************************************************************************)
(* When all events have been applied, however often and in however many    *)
(* runs, the records of the projections are what the item and the resource *)
(* are, but for the counters of events that were applied again             *)
(* (default-projections.ts, projection-verifier.ts).                       *)
(***************************************************************************)
THEOREM RecordsAgree ==
  ASSUME Models!ModelsAssumption PROVE Models!Spec => []ReadModelsAgree
<1>1. Models!Init => ModelsInv
  BY ModelsBegin
<1>2. ModelsInv /\ [Models!Next]_Models!modelVars => ModelsInv'
  BY ModelsStep
<1>3. ModelsInv => ReadModelsAgree
  BY ModelsSaid
<1> QED
  BY <1>1, <1>2, <1>3, PTL DEF Models!Spec
-----------------------------------------------------------------------------
(***************************************************************************)
(* The tracer.  What the invariant is about is every context on the stack  *)
(* of every flow: each of them has an id of its own, so that only the flow *)
(* that has it open leaves it, and what is ended by then stays ended.      *)
(***************************************************************************)

\* Where a flow can be, and what it carries.
Stages == {"idle", "body", "prune", "limit", "begin", "ending", "leave", "stop", "flush", "over"}

Flow == [at : Stages, stack : Seq(Tracing!Context), todo : SUBSET Tracing!Traces,
         ending : Tracing!Traces \cup {None}, spans : SUBSET Tracing!Spans, back : Stages]

\* What flow g has open at depth i.
Frame(g, i, c) == g \in Flows /\ i \in DOMAIN flows[g].stack /\ c = flows[g].stack[i]

\* Two contexts of the same trace, or of the same span.
Twins(c, d) == \/ c.kind = "trace" /\ d.kind = "trace" /\ c.trace = d.trace
               \/ c.kind = "span" /\ d.kind = "span" /\ c.span = d.span

\* Ids are given in order.
Numbered ==
  /\ \A t \in Tracing!Traces : created[t] # None => \A u \in 1..t : created[u] # None
  /\ \A s \in Tracing!Spans : traceOf[s] # None => \A u \in 1..s : traceOf[u] # None

\* What is open has an id that no other flow and no other depth has, and a flow that is
\* started inside another has the context of that one below its own.
FramesKept ==
  /\ \A g, i, c : Frame(g, i, c) =>
       /\ c.trace \in Tracing!Traces
       /\ c.kind = "trace" => created[c.trace] # None
       /\ c.kind = "span" => c.span \in Tracing!Spans /\ traceOf[c.span] # None
       /\ c.kind = "inherited" => i = 1
  /\ \A g, h, i, j, c, d : Frame(g, i, c) /\ Frame(h, j, d) /\ Twins(c, d) => g = h /\ i = j

\* The innermost context of a flow.
Top(g, c) == flows[g].stack # <<>> /\ c = flows[g].stack[Len(flows[g].stack)]

\* Flow g is ending its own trace t, or has ended it.
Owns(g, t) == \E c : Top(g, c) /\ c.kind = "trace" /\ c.trace = t

\* What a flow knows where it is.
StageKept(g) ==
  /\ flows[g].at \in {"idle", "over"} => flows[g].stack = <<>>
  /\ flows[g].at = "body" => flows[g].stack # <<>>
  /\ flows[g].at = "leave" => \E t \in Tracing!Traces \ activeTraces : Owns(g, t)
  /\ flows[g].at = "ending" =>
       /\ flows[g].ending \in Tracing!Traces /\ created[flows[g].ending] # None
       /\ \/ flows[g].back = "leave" /\ Owns(g, flows[g].ending)
          \/ flows[g].back \in {"prune", "limit", "stop"} /\ flows[g].ending \in meddled
       /\ flows[g].back = "stop" => stopping
  /\ flows[g].at \in {"stop", "flush"} => stopping

\* A span is ended once, while it is open or when its flow leaves it.
SpansKept ==
  \A s \in Tracing!Spans :
    /\ spanEnds[s] <= 1
    /\ s \in activeSpans => spanEnds[s] = 0 /\ s \in Tracing!OpenSpans
    /\ s \in dropped.spans => spanEnds[s] = 0 /\ s \notin activeSpans
    /\ traceOf[s] = None => spanEnds[s] = 0 /\ s \notin activeSpans \cup dropped.spans
    /\ ~ stopping /\ traceOf[s] # None =>
         s \in activeSpans \cup dropped.spans \/ spanEnds[s] = 1

\* So is a trace that nobody has meddled with.
TracesKept ==
  \A t \in Tracing!Traces :
    /\ t \in activeTraces => t \in Tracing!OpenTraces
    /\ created[t] = None => traceEnds[t] = 0
    /\ ~ stopping /\ created[t] # None =>
         t \in activeTraces \cup dropped.traces \/ traceEnds[t] >= 1
    /\ t \notin meddled =>
         /\ traceEnds[t] <= 1
         /\ traceEnds[t] = 1 => \/ t \notin Tracing!OpenTraces
                                \/ \E g \in Flows : flows[g].at = "leave" /\ Owns(g, t)

\* The types, with those of the flows in full.
TracerTyped ==
  /\ Tracing!TypeOK
  /\ flows \in [Flows -> Flow]
  /\ dropped \in [traces : SUBSET Tracing!Traces, spans : SUBSET Tracing!Spans]

\* The inductive invariant.
TracerInv ==
  /\ TracerTyped /\ Numbered /\ FramesKept /\ SpansKept /\ TracesKept
  /\ \A g \in Flows : StageKept(g)
-----------------------------------------------------------------------------
\* The instance counts as FiniteSets does.
LEMMA TraceCounts == \A S : Tracing!Cardinality(S) = Cardinality(S)
BY DEF Tracing!Cardinality, Cardinality, Tracing!IsFiniteSet, IsFiniteSet

\* The least of a set of numbers is one of them.
LEMMA LeastOf ==
  ASSUME NEW S \in SUBSET Nat, S # {} PROVE Tracing!Min(S) \in S
<1>1. \E m \in S : \A q \in S : m <= q
  BY NatLeast
<1> QED
  BY <1>1 DEF Tracing!Min

\* When ids are given in order, their number is the last of them.
LEMMA IdsInOrder ==
  ASSUME NEW n \in Nat, NEW C \in SUBSET (1..n), \A t \in C : \A u \in 1..t : u \in C
  PROVE  /\ Cardinality(C) \in Nat /\ 1 + Cardinality(C) \notin C
         /\ \A u \in 1..Cardinality(C) : u \in C
<1>1. /\ IsFiniteSet(C) /\ Cardinality(C) \in Nat
      /\ \A m \in Nat : IsFiniteSet(1..m) /\ Cardinality(1..m) = m
  <2>1. \A m \in Nat : IsFiniteSet(1..m) /\ Cardinality(1..m) = m
    BY FS_Interval
  <2> QED
    BY <2>1, FS_Subset, FS_CardinalityType
<1>2. PICK k \in Nat : k = Cardinality(C)
  BY <1>1
<1>3. k + 1 \notin C
  <2>1. SUFFICES ASSUME k + 1 \in C PROVE FALSE
    OBVIOUS
  <2>2. 1..(k + 1) \subseteq C
    BY <2>1
  <2>3. Cardinality(1..(k + 1)) <= Cardinality(C)
    BY <1>1, <2>2, FS_Subset
  <2> QED
    BY <1>1, <1>2, <2>3
<1>4. ASSUME NEW u \in 1..k, u \notin C PROVE FALSE
  <2>1. C \subseteq 1..(u - 1)
    BY <1>4
  <2>2. u - 1 \in Nat /\ IsFiniteSet(1..(u - 1)) /\ Cardinality(1..(u - 1)) = u - 1
    BY <1>1, <1>2
  <2>3. Cardinality(C) <= Cardinality(1..(u - 1))
    BY <2>1, <2>2, FS_Subset
  <2> QED
    BY <1>1, <1>2, <2>2, <2>3
<1> QED
  BY <1>1, <1>2, <1>3, <1>4

\* The id of the next trace is that of none, and those before it are given.
LEMMA NextTraceIs ==
  ASSUME Tracing!TracerAssumption, TracerInv
  PROVE  /\ Tracing!NextTrace \in Nat
         /\ Tracing!NextTrace \in Tracing!Traces => created[Tracing!NextTrace] = None
         /\ \A u \in Tracing!Traces : u < Tracing!NextTrace => created[u] # None
<1> DEFINE C == {t \in Tracing!Traces : created[t] # None}
<1>1. MaxTraces \in Nat /\ C \in SUBSET (1..MaxTraces)
  BY DEF Tracing!TracerAssumption, Tracing!Traces
<1>2. \A t \in C : \A u \in 1..t : u \in C
  BY <1>1 DEF TracerInv, Numbered, Tracing!Traces
<1>3. Tracing!NextTrace = 1 + Cardinality(C)
  BY TraceCounts DEF Tracing!NextTrace
<1>4. /\ Cardinality(C) \in Nat /\ 1 + Cardinality(C) \notin C
      /\ \A u \in 1..Cardinality(C) : u \in C
  <2> HIDE DEF C
  <2> QED
    BY <1>1, <1>2, IdsInOrder
<1> QED
  BY <1>3, <1>4 DEF Tracing!Traces

\* The id of the next span is that of none, and those before it are given.
LEMMA NextSpanIs ==
  ASSUME Tracing!TracerAssumption, TracerInv
  PROVE  /\ Tracing!NextSpan \in Nat
         /\ Tracing!NextSpan \in Tracing!Spans => traceOf[Tracing!NextSpan] = None
         /\ \A u \in Tracing!Spans : u < Tracing!NextSpan => traceOf[u] # None
<1> DEFINE C == {s \in Tracing!Spans : traceOf[s] # None}
<1>1. MaxSpans \in Nat /\ C \in SUBSET (1..MaxSpans)
  BY DEF Tracing!TracerAssumption, Tracing!Spans
<1>2. \A t \in C : \A u \in 1..t : u \in C
  BY <1>1 DEF TracerInv, Numbered, Tracing!Spans
<1>3. Tracing!NextSpan = 1 + Cardinality(C)
  BY TraceCounts DEF Tracing!NextSpan
<1>4. /\ Cardinality(C) \in Nat /\ 1 + Cardinality(C) \notin C
      /\ \A u \in 1..Cardinality(C) : u \in C
  <2> HIDE DEF C
  <2> QED
    BY <1>1, <1>2, IdsInOrder
<1> QED
  BY <1>3, <1>4 DEF Tracing!Spans

\* Flow f is at another place, and the others are where they were.
Moves(f, k) == k \in Flow /\ flows' = [flows EXCEPT ![f] = k]

\* Who moves is in its new place.
LEMMA MovesIs ==
  ASSUME TracerTyped, NEW f \in Flows, NEW k, Moves(f, k)
  PROVE  /\ flows' \in [Flows -> Flow] /\ flows'[f] = k
         /\ \A g \in Flows : g # f => flows'[g] = flows[g]
BY DEF TracerTyped, Moves

\* A flow that keeps its stack keeps what is open.
LEMMA ContextStays ==
  ASSUME TracerTyped, NEW f \in Flows, NEW k, Moves(f, k), k.stack = flows[f].stack
  PROVE  /\ \A g, i, c : Frame(g, i, c)' <=> Frame(g, i, c)
         /\ \A g \in Flows : flows'[g].stack = flows[g].stack
         /\ \A g \in Flows : \A t : Owns(g, t)' <=> Owns(g, t)
<1>1. \A g \in Flows : flows'[g].stack = flows[g].stack
  BY MovesIs
<1> QED
  BY <1>1 DEF Frame, Owns, Top

\* A flow that opens a context has it on top.
LEMMA ContextOpens ==
  ASSUME TracerTyped, NEW f \in Flows, NEW k, Moves(f, k), NEW d \in Tracing!Context,
         k.stack = Append(flows[f].stack, d)
  PROVE  /\ \A g, i, c : Frame(g, i, c)' <=>
              \/ Frame(g, i, c)
              \/ g = f /\ i = Len(flows[f].stack) + 1 /\ c = d
         /\ Len(flows[f].stack) \in Nat /\ k.stack # <<>>
         /\ \A i, c : Frame(f, i, c) => i \in 1..Len(flows[f].stack)
<1>1. PICK s \in Seq(Tracing!Context) : s = flows[f].stack
  BY DEF TracerTyped, Flow
<1>2. flows'[f].stack = Append(s, d) /\ \A g \in Flows : g # f => flows'[g] = flows[g]
  BY <1>1, MovesIs
<1>3. /\ Len(s) \in Nat /\ DOMAIN s = 1..Len(s) /\ DOMAIN Append(s, d) = 1..(Len(s) + 1)
      /\ Append(s, d)[Len(s) + 1] = d /\ \A i \in 1..Len(s) : Append(s, d)[i] = s[i]
      /\ Append(s, d) # <<>>
  BY <1>1
<1>4. \A i, c : Frame(f, i, c)' <=> Frame(f, i, c) \/ (i = Len(s) + 1 /\ c = d)
  <2>1. \A i : i \in 1..(Len(s) + 1) <=> i \in 1..Len(s) \/ i = Len(s) + 1
    BY <1>3
  <2> QED
    BY <1>1, <1>2, <1>3, <2>1 DEF Frame
<1>5. \A g, i, c : g # f => (Frame(g, i, c)' <=> Frame(g, i, c))
  BY <1>2 DEF Frame
<1>6. Len(flows[f].stack) \in Nat /\ k.stack # <<>>
  BY <1>1, <1>3
<1>7. \A i, c : Frame(f, i, c) => i \in 1..Len(flows[f].stack)
  BY <1>1, <1>3 DEF Frame
<1> QED
  BY <1>1, <1>4, <1>5, <1>6, <1>7

\* A flow that leaves a context has the one below it on top.
LEMMA ContextLeft ==
  ASSUME TracerTyped, NEW f \in Flows, NEW k, Moves(f, k), flows[f].stack # <<>>,
         k.stack = Tracing!Front(flows[f].stack)
  PROVE  /\ Len(flows[f].stack) \in Nat \ {0}
         /\ \A g, i, c : Frame(g, i, c)' <=> Frame(g, i, c) /\ ~ (g = f /\ i = Len(flows[f].stack))
<1>1. PICK s \in Seq(Tracing!Context) : s = flows[f].stack
  BY DEF TracerTyped, Flow
<1>2. PICK n \in Nat : n = Len(s)
  BY <1>1
<1>3. n # 0 /\ DOMAIN s = 1..n
  BY <1>1, <1>2
<1>4. PICK r : r = SubSeq(s, 1, n - 1)
  OBVIOUS
<1>5. flows'[f].stack = r /\ \A g \in Flows : g # f => flows'[g] = flows[g]
  BY <1>1, <1>2, <1>4, MovesIs DEF Tracing!Front
<1>6. r \in Seq(Tracing!Context) /\ Len(r) = n - 1 /\ \A i \in 1..(n - 1) : r[i] = s[i]
  BY <1>1, <1>2, <1>3, <1>4
<1>7. DOMAIN r = 1..(n - 1)
  BY <1>6
<1>8. \A i, c : Frame(f, i, c)' <=> Frame(f, i, c) /\ i # n
  <2>1. \A i : i \in 1..(n - 1) <=> i \in 1..n /\ i # n
    BY <1>3
  <2> QED
    BY <1>1, <1>3, <1>5, <1>6, <1>7, <2>1 DEF Frame
<1>9. \A g, i, c : g # f => (Frame(g, i, c)' <=> Frame(g, i, c))
  BY <1>5 DEF Frame
<1> QED
  BY <1>1, <1>2, <1>3, <1>8, <1>9
\* A trace or a span is open when some flow has a context of it.
LEMMA OpenIs ==
  /\ \A t : t \in Tracing!OpenTraces <=>
       t \in Tracing!Traces /\ \E g, i, c : Frame(g, i, c) /\ c.kind = "trace" /\ c.trace = t
  /\ \A t : t \in Tracing!OpenTraces' <=>
       t \in Tracing!Traces /\ \E g, i, c : Frame(g, i, c)' /\ c.kind = "trace" /\ c.trace = t
  /\ \A s : s \in Tracing!OpenSpans <=>
       s \in Tracing!Spans /\ \E g, i, c : Frame(g, i, c) /\ c.kind = "span" /\ c.span = s
  /\ \A s : s \in Tracing!OpenSpans' <=>
       s \in Tracing!Spans /\ \E g, i, c : Frame(g, i, c)' /\ c.kind = "span" /\ c.span = s
<1>1. \A t : t \in Tracing!OpenTraces <=>
        t \in Tracing!Traces /\ \E g, i, c : Frame(g, i, c) /\ c.kind = "trace" /\ c.trace = t
  BY DEF Tracing!OpenTraces, Frame
<1>2. \A t : t \in Tracing!OpenTraces' <=>
        t \in Tracing!Traces /\ \E g, i, c : Frame(g, i, c)' /\ c.kind = "trace" /\ c.trace = t
  BY DEF Tracing!OpenTraces, Frame, Tracing!Traces
<1>3. \A s : s \in Tracing!OpenSpans <=>
        s \in Tracing!Spans /\ \E g, i, c : Frame(g, i, c) /\ c.kind = "span" /\ c.span = s
  BY DEF Tracing!OpenSpans, Frame
<1>4. \A s : s \in Tracing!OpenSpans' <=>
        s \in Tracing!Spans /\ \E g, i, c : Frame(g, i, c)' /\ c.kind = "span" /\ c.span = s
  BY DEF Tracing!OpenSpans, Frame, Tracing!Spans
<1> QED
  BY <1>1, <1>2, <1>3, <1>4

\* When all contexts stay, so does what is open.
LEMMA SameContexts ==
  ASSUME TracerInv, \A g, i, c : Frame(g, i, c)' <=> Frame(g, i, c), UNCHANGED <<created, traceOf>>
  PROVE  /\ FramesKept' /\ Numbered'
         /\ Tracing!OpenTraces' = Tracing!OpenTraces /\ Tracing!OpenSpans' = Tracing!OpenSpans
<1>1. FramesKept'
  BY DEF TracerInv, FramesKept
<1>2. Numbered'
  BY DEF TracerInv, Numbered, Tracing!Traces, Tracing!Spans
<1>3. \A t : t \in Tracing!OpenTraces' <=> t \in Tracing!OpenTraces
  BY OpenIs
<1>4. \A s : s \in Tracing!OpenSpans' <=> s \in Tracing!OpenSpans
  BY OpenIs
<1> QED
  BY <1>1, <1>2, <1>3, <1>4

\* The top of a stack is one of its contexts.
LEMMA TopIs ==
  ASSUME TracerTyped, NEW g \in Flows, flows[g].stack # <<>>
  PROVE  /\ Top(g, Tracing!Current(g)) /\ Tracing!Current(g) \in Tracing!Context
         /\ Len(flows[g].stack) \in Nat \ {0}
         /\ Frame(g, Len(flows[g].stack), Tracing!Current(g))
         /\ \A c : Top(g, c) => c = Tracing!Current(g)
<1>1. PICK s \in Seq(Tracing!Context) : s = flows[g].stack
  BY DEF TracerTyped, Flow
<1>2. Len(s) \in Nat \ {0} /\ Len(s) \in DOMAIN s /\ s[Len(s)] \in Tracing!Context
  BY <1>1
<1>3. Tracing!Current(g) = s[Len(s)]
  BY <1>1 DEF Tracing!Current, Tracing!Last
<1> QED
  BY <1>1, <1>2, <1>3 DEF Top, Frame

\* A trace that a flow is ending is open in it.
LEMMA OwnsIs ==
  ASSUME TracerTyped, NEW g \in Flows, NEW t, Owns(g, t)
  PROVE  \E c : /\ Frame(g, Len(flows[g].stack), c) /\ c.kind = "trace" /\ c.trace = t
                /\ c = Tracing!Current(g) /\ flows[g].stack # <<>>
BY TopIs DEF Owns, Top

\* The others are where they were, and a trace that is ended stays so.
LEMMA OtherStages ==
  ASSUME TracerInv, NEW f \in Flows, \A g \in Flows : g # f => flows'[g] = flows[g],
         \A t \in Tracing!Traces : created[t] # None /\ t \notin activeTraces => t \notin activeTraces',
         \A t \in Tracing!Traces : created[t] # None => created'[t] # None,
         meddled \subseteq meddled', stopping => stopping'
  PROVE  \A g \in Flows : g # f => StageKept(g)'
<1> SUFFICES ASSUME NEW g \in Flows, g # f PROVE StageKept(g)'
  OBVIOUS
<1>1. flows'[g] = flows[g] /\ StageKept(g) /\ TracerTyped /\ FramesKept
  BY DEF TracerInv
<1>2. \A t : Owns(g, t)' <=> Owns(g, t)
  BY <1>1 DEF Owns, Top
<1>3. ASSUME flows[g].at = "leave" PROVE \E t \in Tracing!Traces \ activeTraces' : Owns(g, t)
  <2>1. PICK t \in Tracing!Traces \ activeTraces : Owns(g, t)
    BY <1>1, <1>3 DEF StageKept
  <2>2. created[t] # None
    BY <1>1, <2>1, OwnsIs DEF FramesKept
  <2> QED
    BY <2>1, <2>2
<1> QED
  BY <1>1, <1>2, <1>3 DEF StageKept, Tracing!Traces

\* A flow that goes on with what it has open keeps the invariant.
LEMMA StayKeeps ==
  ASSUME TracerInv, NEW f \in Flows, NEW k, Moves(f, k), k.stack = flows[f].stack,
         UNCHANGED <<activeTraces, activeSpans, closed, created, traceOf, dropped, reading,
                     traceEnds, spanEnds>>,
         meddled \subseteq meddled', meddled' \subseteq Tracing!Traces,
         stopping' \in BOOLEAN, stopping => stopping',
         flows[f].at # "leave", StageKept(f)'
  PROVE  TracerInv'
<1>1. TracerTyped /\ FramesKept /\ SpansKept /\ TracesKept
  BY DEF TracerInv
<1>2. /\ flows' \in [Flows -> Flow] /\ flows'[f] = k
      /\ \A g \in Flows : g # f => flows'[g] = flows[g]
  BY <1>1, MovesIs
<1>3. /\ \A g, i, c : Frame(g, i, c)' <=> Frame(g, i, c)
      /\ \A g \in Flows : \A t : Owns(g, t)' <=> Owns(g, t)
  BY <1>1, ContextStays
<1>4. /\ FramesKept' /\ Numbered'
      /\ Tracing!OpenTraces' = Tracing!OpenTraces /\ Tracing!OpenSpans' = Tracing!OpenSpans
  BY <1>3, SameContexts
<1>5. \A g \in Flows : StageKept(g)'
  BY <1>2, OtherStages
<1>6. TracerTyped'
  <2>1. \A g \in Flows : flows'[g] \in Flow
    BY <1>2
  <2> QED
    BY <1>1, <1>2, <2>1 DEF TracerTyped, Tracing!TypeOK, Flow, Stages, Tracing!Traces, Tracing!Spans,
         Tracing!Context
<1>7. SpansKept'
  BY <1>1, <1>4 DEF SpansKept, Tracing!Spans
<1>8. TracesKept'
  <2>1. \A g \in Flows : \A t :
          flows[g].at = "leave" /\ Owns(g, t) => flows'[g].at = "leave" /\ Owns(g, t)'
    BY <1>2, <1>3
  <2> QED
    BY <1>1, <1>4, <2>1 DEF TracesKept, Tracing!Traces
<1> QED
  BY <1>4, <1>5, <1>6, <1>7, <1>8 DEF TracerInv
\* A turn of endTrace keeps the invariant: a trace that nobody has meddled with is ended by the
\* flow that has it on top, once.
LEMMA EndOnKeeps ==
  ASSUME TracerInv, NEW f \in Flows, NEW flow \in Flow, flow.stack = flows[f].stack,
         NEW t \in Tracing!Traces, created[t] # None, NEW spans \in SUBSET Tracing!Spans,
         NEW back \in {"leave", "prune", "limit", "stop"},
         flows[f].at # "leave", back = "leave" => Owns(f, t), back # "leave" => t \in meddled',
         back = "stop" => stopping,
         UNCHANGED <<closed, created, traceOf, dropped, reading, stopping>>,
         meddled \subseteq meddled', meddled' \subseteq Tracing!Traces,
         Tracing!EndOn(f, flow, t, spans, back)
  PROVE  TracerInv'
<1>1. TracerTyped /\ FramesKept /\ SpansKept /\ TracesKept
  BY DEF TracerInv
<1>2. PICK x : x = Tracing!Min(spans)
  OBVIOUS
<1>3. /\ spans = {} => /\ activeTraces' = activeTraces \ {t}
                       /\ traceEnds' = [traceEnds EXCEPT ![t] = @ + 1]
                       /\ UNCHANGED <<activeSpans, spanEnds>>
      /\ spans # {} => /\ Tracing!EndSpan(x)
                       /\ UNCHANGED <<activeTraces, traceEnds>>
  BY <1>2 DEF Tracing!EndOn
<1>4. \E k : /\ Moves(f, k) /\ k.stack = flows[f].stack
             /\ spans = {} => k.at = back
             /\ spans # {} => k.at = "ending" /\ k.ending = t /\ k.back = back
  <2>1. CASE spans = {}
    <3>1. PICK k : k = [flow EXCEPT !.at = back, !.ending = None]
      OBVIOUS
    <3>2. k \in Flow /\ k.at = back /\ k.stack = flow.stack
      BY <3>1 DEF Flow, Stages
    <3>3. flows' = [flows EXCEPT ![f] = k]
      BY <2>1, <3>1 DEF Tracing!EndOn
    <3> QED
      BY <2>1, <3>2, <3>3 DEF Moves
  <2>2. CASE spans # {}
    <3>1. PICK k : k = [flow EXCEPT !.at = "ending", !.ending = t, !.back = back,
                                    !.spans = spans \ {x}]
      OBVIOUS
    <3>2. /\ k \in Flow /\ k.at = "ending" /\ k.stack = flow.stack
          /\ k.ending = t /\ k.back = back
      BY <3>1 DEF Flow, Stages
    <3>3. flows' = [flows EXCEPT ![f] = k]
      BY <1>2, <2>2, <3>1 DEF Tracing!EndOn
    <3> QED
      BY <2>2, <3>2, <3>3 DEF Moves
  <2> QED
    BY <2>1, <2>2
<1>5. PICK k : /\ Moves(f, k) /\ k.stack = flows[f].stack
               /\ spans = {} => k.at = back
               /\ spans # {} => k.at = "ending" /\ k.ending = t /\ k.back = back
  BY <1>4
<1>6. /\ flows' \in [Flows -> Flow] /\ flows'[f] = k
      /\ \A g \in Flows : g # f => flows'[g] = flows[g]
  BY <1>1, <1>5, MovesIs
<1>7. /\ \A g, i, c : Frame(g, i, c)' <=> Frame(g, i, c)
      /\ \A g \in Flows : \A u : Owns(g, u)' <=> Owns(g, u)
  BY <1>1, <1>5, ContextStays
<1>8. /\ FramesKept' /\ Numbered'
      /\ Tracing!OpenTraces' = Tracing!OpenTraces /\ Tracing!OpenSpans' = Tracing!OpenSpans
  BY <1>7, SameContexts
<1>9. /\ activeTraces' \subseteq activeTraces /\ activeSpans' \subseteq activeSpans
      /\ spans = {} => t \notin activeTraces'
  BY <1>3 DEF Tracing!EndSpan
<1>10. StageKept(f)'
  <2>1. back = "leave" => Owns(f, t)'
    BY <1>7
  <2> QED
    BY <1>5, <1>6, <1>9, <2>1 DEF StageKept, Tracing!Traces
<1>11. \A g \in Flows : StageKept(g)'
  BY <1>6, <1>9, <1>10, OtherStages
<1>12. /\ spanEnds \in [Tracing!Spans -> Nat] /\ activeSpans \subseteq Tracing!Spans
       /\ traceEnds \in [Tracing!Traces -> Nat] /\ activeTraces \subseteq Tracing!Traces
  BY <1>1 DEF TracerTyped, Tracing!TypeOK
<1>13. \A s \in Tracing!Spans :
         \/ spanEnds'[s] = spanEnds[s] /\ (s \in activeSpans' <=> s \in activeSpans)
         \/ s \in activeSpans /\ s \notin activeSpans' /\ spanEnds'[s] = spanEnds[s] + 1
  BY <1>3, <1>12 DEF Tracing!EndSpan
<1>14. /\ \A u \in Tracing!Traces : u # t =>
            traceEnds'[u] = traceEnds[u] /\ (u \in activeTraces' <=> u \in activeTraces)
       /\ \/ traceEnds'[t] = traceEnds[t] /\ (t \in activeTraces' <=> t \in activeTraces)
          \/ traceEnds'[t] = traceEnds[t] + 1 /\ k.at = back
  BY <1>3, <1>5, <1>12
<1>15. spanEnds' \in [Tracing!Spans -> Nat] /\ traceEnds' \in [Tracing!Traces -> Nat]
  BY <1>3, <1>12 DEF Tracing!EndSpan
<1>16. TracerTyped'
  <2>1. \A g \in Flows : flows'[g] \in Flow
    BY <1>6
  <2> QED
    BY <1>1, <1>6, <1>9, <1>15, <2>1 DEF TracerTyped, Tracing!TypeOK, Flow, Stages,
         Tracing!Traces, Tracing!Spans, Tracing!Context
<1>17. SpansKept'
  <2> SUFFICES ASSUME NEW s \in Tracing!Spans
               PROVE  /\ spanEnds'[s] <= 1
                      /\ s \in activeSpans' => spanEnds'[s] = 0 /\ s \in Tracing!OpenSpans'
                      /\ s \in dropped'.spans => spanEnds'[s] = 0 /\ s \notin activeSpans'
                      /\ traceOf'[s] = None =>
                           spanEnds'[s] = 0 /\ s \notin activeSpans' \cup dropped'.spans
                      /\ ~ stopping' /\ traceOf'[s] # None =>
                           s \in activeSpans' \cup dropped'.spans \/ spanEnds'[s] = 1
    BY DEF SpansKept, Tracing!Spans
  <2>1. /\ spanEnds[s] \in Nat /\ spanEnds[s] <= 1
        /\ s \in activeSpans => spanEnds[s] = 0 /\ s \in Tracing!OpenSpans
        /\ s \in dropped.spans => spanEnds[s] = 0 /\ s \notin activeSpans
        /\ traceOf[s] = None => spanEnds[s] = 0 /\ s \notin activeSpans \cup dropped.spans
        /\ ~ stopping /\ traceOf[s] # None =>
             s \in activeSpans \cup dropped.spans \/ spanEnds[s] = 1
    BY <1>1, <1>12 DEF SpansKept
  <2> QED
    BY <1>8, <1>13, <2>1
<1>18. TracesKept'
  <2> SUFFICES ASSUME NEW u \in Tracing!Traces
               PROVE  /\ u \in activeTraces' => u \in Tracing!OpenTraces'
                      /\ created'[u] = None => traceEnds'[u] = 0
                      /\ ~ stopping' /\ created'[u] # None =>
                           u \in activeTraces' \cup dropped'.traces \/ traceEnds'[u] >= 1
                      /\ u \notin meddled' =>
                           /\ traceEnds'[u] <= 1
                           /\ traceEnds'[u] = 1 =>
                                \/ u \notin Tracing!OpenTraces'
                                \/ \E g \in Flows : flows'[g].at = "leave" /\ Owns(g, u)'
    BY DEF TracesKept, Tracing!Traces
  <2>1. /\ traceEnds[u] \in Nat
        /\ u \in activeTraces => u \in Tracing!OpenTraces
        /\ created[u] = None => traceEnds[u] = 0
        /\ ~ stopping /\ created[u] # None =>
             u \in activeTraces \cup dropped.traces \/ traceEnds[u] >= 1
        /\ u \notin meddled =>
             /\ traceEnds[u] <= 1
             /\ traceEnds[u] = 1 => \/ u \notin Tracing!OpenTraces
                                    \/ \E g \in Flows : flows[g].at = "leave" /\ Owns(g, u)
    BY <1>1, <1>12 DEF TracesKept
  <2>2. \A g \in Flows : flows[g].at = "leave" /\ Owns(g, u) => flows'[g].at = "leave" /\ Owns(g, u)'
    BY <1>6, <1>7
  <2>3. CASE traceEnds'[u] = traceEnds[u] /\ (u \in activeTraces' <=> u \in activeTraces)
    <3>1. u \in Tracing!OpenTraces' <=> u \in Tracing!OpenTraces
      BY <1>8
    <3>2. (\E g \in Flows : flows[g].at = "leave" /\ Owns(g, u)) =>
            \E g \in Flows : flows'[g].at = "leave" /\ Owns(g, u)'
      BY <2>2
    <3>3. u \notin meddled' => u \notin meddled
      OBVIOUS
    <3> QED
      BY <2>1, <2>3, <3>1, <3>2, <3>3
  <2>4. CASE u = t /\ traceEnds'[t] = traceEnds[t] + 1 /\ k.at = back
    <3>1. ASSUME t \notin meddled' PROVE traceEnds[t] = 0 /\ flows'[f].at = "leave" /\ Owns(f, t)'
      <4>1. back = "leave" /\ Owns(f, t) /\ t \notin meddled
        BY <3>1
      <4>2. t \in Tracing!OpenTraces
        BY <1>1, <4>1, OwnsIs, OpenIs
      <4>3. \A g \in Flows : Owns(g, t) => g = f
        BY <1>1, <4>1, OwnsIs DEF FramesKept, Twins
      <4>4. \A g \in Flows : ~ (flows[g].at = "leave" /\ Owns(g, t))
        BY <4>3
      <4>5. traceEnds[t] # 1 /\ traceEnds[t] <= 1 /\ traceEnds[t] \in Nat
        <5>1. u = t
          BY <2>4
        <5> QED
          BY <2>1, <4>1, <4>2, <4>4, <5>1
      <4>6. flows'[f].at = "leave" /\ Owns(f, t)'
        BY <1>6, <1>7, <2>4, <4>1
      <4> QED
        BY <4>5, <4>6
    <3> QED
      BY <1>9, <1>12, <2>1, <2>4, <3>1, <1>8
  <2> QED
    BY <1>14, <2>3, <2>4
<1> QED
  BY <1>8, <1>11, <1>16, <1>17, <1>18 DEF TracerInv
\* endTrace keeps the invariant, whoever calls it.
LEMMA EndTraceKeeps ==
  ASSUME TracerInv, NEW f \in Flows, NEW flow \in Flow, flow.stack = flows[f].stack,
         NEW t \in Tracing!Traces, NEW back \in {"leave", "prune", "limit", "stop"},
         flows[f].at # "leave", back = "leave" => Owns(f, t), back # "leave" => t \in meddled',
         back = "stop" => stopping,
         UNCHANGED <<closed, created, traceOf, dropped, reading, stopping>>,
         meddled \subseteq meddled', meddled' \subseteq Tracing!Traces,
         Tracing!EndTrace(f, flow, t, back)
  PROVE  TracerInv'
<1>1. TracerTyped /\ FramesKept /\ TracesKept
  BY DEF TracerInv
<1>2. CASE t \in activeTraces
  <2>1. created[t] # None
    BY <1>1, <1>2, OpenIs DEF TracesKept, FramesKept
  <2>2. PICK spans : spans = {s \in activeSpans : traceOf[s] = t}
    OBVIOUS
  <2>3. spans \in SUBSET Tracing!Spans
    BY <1>1, <2>2 DEF TracerTyped, Tracing!TypeOK
  <2>4. Tracing!EndOn(f, flow, t, spans, back)
    BY <1>2, <2>2 DEF Tracing!EndTrace
  <2> QED
    BY <2>1, <2>3, <2>4, EndOnKeeps
<1>3. CASE t \notin activeTraces
  <2>1. PICK k : k = [flow EXCEPT !.at = back]
    OBVIOUS
  <2>2. k \in Flow /\ k.at = back /\ k.stack = flows[f].stack
    BY <2>1 DEF Flow, Stages
  <2>3. Moves(f, k) /\ UNCHANGED <<activeTraces, activeSpans, traceEnds, spanEnds>>
    BY <1>3, <2>1, <2>2 DEF Tracing!EndTrace, Moves
  <2>4. flows'[f] = k /\ \A u : Owns(f, u)' <=> Owns(f, u)
    BY <1>1, <2>2, <2>3, MovesIs, ContextStays
  <2>5. StageKept(f)'
    BY <1>3, <2>2, <2>3, <2>4 DEF StageKept, Tracing!Traces
  <2>6. stopping' \in BOOLEAN
    BY <1>1 DEF TracerTyped, Tracing!TypeOK
  <2> QED
    BY <2>2, <2>3, <2>5, <2>6, StayKeeps
<1> QED
  BY <1>2, <1>3

\* Turns of endTrace after the first.
LEMMA EndingKeeps ==
  ASSUME TracerInv, NEW f \in Flows, Tracing!Ending(f) PROVE TracerInv'
<1>1. PICK flow, t, spans, back : /\ flow = flows[f] /\ t = flow.ending
                                  /\ spans = flow.spans /\ back = flow.back
  OBVIOUS
<1>2. /\ flow \in Flow /\ spans \in SUBSET Tracing!Spans /\ StageKept(f) /\ flow.at = "ending"
      /\ stopping \in BOOLEAN /\ meddled \subseteq Tracing!Traces
  BY <1>1 DEF TracerInv, TracerTyped, Tracing!TypeOK, Flow, Tracing!Ending, Tracing!At
<1>3. /\ t \in Tracing!Traces /\ created[t] # None
      /\ back \in {"leave", "prune", "limit", "stop"}
  BY <1>1, <1>2 DEF StageKept
<1>4. (back = "leave" => Owns(f, t)) /\ (back # "leave" => t \in meddled)
  BY <1>1, <1>2 DEF StageKept
<1>5. /\ Tracing!EndOn(f, flow, t, spans, back)
      /\ UNCHANGED <<closed, created, traceOf, dropped, reading, meddled, stopping>>
  BY <1>1 DEF Tracing!Ending
<1>6. back = "stop" => stopping
  BY <1>1, <1>2 DEF StageKept
<1> QED
  BY <1>1, <1>2, <1>3, <1>4, <1>5, <1>6, EndOnKeeps

\* Another flow ends a trace.
LEMMA MeddleKeeps ==
  ASSUME TracerInv, NEW f \in Flows, NEW t \in Tracing!Traces, NEW back \in {"prune", "limit", "stop"},
         flows[f].at = back, Tracing!Meddle(f, t, back)
  PROVE  TracerInv'
<1>1. PICK flow : flow = [flows[f] EXCEPT !.todo = @ \ {t}]
  OBVIOUS
<1>2. flows[f] \in Flow /\ StageKept(f) /\ meddled \subseteq Tracing!Traces
  BY DEF TracerInv, TracerTyped, Tracing!TypeOK
<1>3. flow \in Flow /\ flow.stack = flows[f].stack
  BY <1>1, <1>2 DEF Flow
<1>4. /\ Tracing!EndTrace(f, flow, t, back) /\ meddled' = meddled \cup {t}
      /\ UNCHANGED <<closed, created, traceOf, dropped, reading, stopping>>
  BY <1>1 DEF Tracing!Meddle
<1>5. back = "stop" => stopping
  BY <1>2 DEF StageKept
<1>6. t \in meddled' /\ meddled \subseteq meddled' /\ meddled' \subseteq Tracing!Traces
  BY <1>2, <1>4
<1> QED
  BY <1>3, <1>4, <1>5, <1>6, EndTraceKeeps

\* A flow that goes on elsewhere, with what it has open.
LEMMA GotoKeeps ==
  ASSUME TracerInv, NEW f \in Flows, NEW where \in {"limit", "begin", "flush"},
         Tracing!Goto(f, where), flows[f].at # "leave", where = "flush" => stopping,
         UNCHANGED <<Tracing!records, reading, Tracing!history>>
  PROVE  TracerInv'
<1>1. PICK k : k = [flows[f] EXCEPT !.at = where]
  OBVIOUS
<1>2. /\ flows[f] \in Flow /\ flows \in [Flows -> Flow] /\ stopping \in BOOLEAN
      /\ meddled \subseteq Tracing!Traces /\ TracerTyped
  BY DEF TracerInv, TracerTyped, Tracing!TypeOK
<1>3. k \in Flow /\ k.at = where /\ k.stack = flows[f].stack
  BY <1>1, <1>2 DEF Flow, Stages
<1>4. Moves(f, k)
  BY <1>1, <1>2, <1>3 DEF Moves, Tracing!Goto
<1>5. /\ UNCHANGED <<activeTraces, activeSpans, closed, created, traceOf, dropped, reading,
                     traceEnds, spanEnds>>
      /\ UNCHANGED <<meddled, stopping>>
  BY DEF Tracing!records, Tracing!history
<1>6. flows'[f] = k
  BY <1>2, <1>4, MovesIs
<1>7. StageKept(f)'
  BY <1>3, <1>5, <1>6 DEF StageKept
<1> QED
  BY <1>2, <1>3, <1>4, <1>5, <1>7, StayKeeps

\* pruneActiveTraces and enforceActiveTraceLimit, and the traces that shutdown ends.
LEMMA PruneKeeps ==
  ASSUME Tracing!TracerAssumption, TracerInv, NEW f \in Flows,
         Tracing!Prune(f) \/ Tracing!Limit(f) \/ Tracing!Stop(f)
  PROVE  TracerInv'
<1>1. /\ flows[f] \in Flow /\ StageKept(f) /\ activeTraces \subseteq Tracing!Traces
      /\ Tracing!Traces \subseteq Nat
  BY DEF TracerInv, TracerTyped, Tracing!TypeOK, Tracing!Traces
<1>2. flows[f].todo \subseteq Tracing!Traces
  BY <1>1 DEF Flow
<1>3. flows[f].todo # {} => Tracing!Min(flows[f].todo) \in Tracing!Traces
  BY <1>1, <1>2, LeastOf
<1>4. CASE Tracing!Prune(f)
  BY <1>3, <1>4, MeddleKeeps, GotoKeeps DEF Tracing!Prune, Tracing!At
<1>5. CASE Tracing!Stop(f)
  BY <1>1, <1>3, <1>5, MeddleKeeps, GotoKeeps DEF Tracing!Stop, Tracing!At, StageKept
<1>6. CASE Tracing!Limit(f)
  <2>1. flows[f].at = "limit"
    BY <1>6 DEF Tracing!Limit, Tracing!At
  <2>2. CASE Tracing!Cardinality(activeTraces) >= MaxActiveTraces
    <3>1. activeTraces # {}
      BY <2>2, TraceCounts, FS_EmptySet DEF Tracing!TracerAssumption
    <3>2. Tracing!Min(activeTraces) \in Tracing!Traces
      BY <1>1, <3>1, LeastOf
    <3>3. Tracing!Cardinality(activeTraces) \in Nat
      <4>1. MaxTraces \in Nat /\ activeTraces \subseteq 1..MaxTraces
        BY <1>1 DEF Tracing!TracerAssumption, Tracing!Traces
      <4>2. IsFiniteSet(1..MaxTraces)
        BY <4>1, FS_Interval
      <4>3. IsFiniteSet(activeTraces)
        BY <4>1, <4>2, FS_Subset
      <4> QED
        BY <4>3, TraceCounts, FS_CardinalityType
    <3>4. ~ (Tracing!Cardinality(activeTraces) < MaxActiveTraces)
      BY <2>2, <3>3 DEF Tracing!TracerAssumption
    <3>5. Tracing!Meddle(f, Tracing!Min(activeTraces), "limit")
      BY <1>6, <3>4 DEF Tracing!Limit
    <3> QED
      BY <2>1, <3>2, <3>5, MeddleKeeps
  <2>3. CASE ~ (Tracing!Cardinality(activeTraces) >= MaxActiveTraces)
    BY <1>6, <2>1, <2>3, GotoKeeps DEF Tracing!Limit
  <2> QED
    BY <2>2, <2>3
<1> QED
  BY <1>4, <1>5, <1>6

\* trace and shutdown list the traces that they are to end.
LEMMA ListsKeep ==
  ASSUME TracerInv, NEW f \in Flows, Tracing!Trace(f) \/ Tracing!Shutdown(f) PROVE TracerInv'
<1>1. /\ flows[f] \in Flow /\ flows \in [Flows -> Flow] /\ stopping \in BOOLEAN
      /\ meddled \subseteq Tracing!Traces /\ TracerTyped /\ activeTraces \subseteq Tracing!Traces
  BY DEF TracerInv, TracerTyped, Tracing!TypeOK
<1>2. flows[f].at # "leave"
  BY DEF Tracing!Trace, Tracing!Shutdown, Tracing!Free, Tracing!At
<1>3. \E where \in {"prune", "stop"} : \E todo \in SUBSET Tracing!Traces :
        /\ flows' = [flows EXCEPT ![f] = [flows[f] EXCEPT !.at = where, !.todo = todo]]
        /\ where = "stop" => stopping'
  <2>1. {t \in activeTraces : created[t] < reading - StaleTraceTtlMs} \in SUBSET Tracing!Traces
    BY <1>1
  <2> QED
    BY <1>1, <2>1 DEF Tracing!Trace, Tracing!Shutdown
<1>4. PICK where \in {"prune", "stop"}, todo \in SUBSET Tracing!Traces :
        /\ flows' = [flows EXCEPT ![f] = [flows[f] EXCEPT !.at = where, !.todo = todo]]
        /\ where = "stop" => stopping'
  BY <1>3
<1>5. PICK k : k = [flows[f] EXCEPT !.at = where, !.todo = todo]
  OBVIOUS
<1>6. k \in Flow /\ k.at = where /\ k.stack = flows[f].stack
  BY <1>1, <1>5 DEF Flow, Stages
<1>7. Moves(f, k)
  BY <1>4, <1>5, <1>6 DEF Moves
<1>8. /\ UNCHANGED <<activeTraces, activeSpans, closed, created, traceOf, dropped, reading,
                     traceEnds, spanEnds>>
      /\ meddled' = meddled /\ stopping' \in BOOLEAN /\ (stopping => stopping')
  BY <1>1 DEF Tracing!records, Tracing!history, Tracing!Trace, Tracing!Shutdown
<1>9. flows'[f] = k
  BY <1>1, <1>7, MovesIs
<1>10. StageKept(f)'
  BY <1>4, <1>6, <1>9 DEF StageKept
<1> QED
  BY <1>1, <1>2, <1>6, <1>7, <1>8, <1>10, StayKeeps

\* A flow ends the trace that it has on top.
LEMMA EndOwnTraceKeeps ==
  ASSUME TracerInv, NEW f \in Flows, Tracing!EndOwnTrace(f) PROVE TracerInv'
<1>1. PICK c : c = Tracing!Current(f)
  OBVIOUS
<1>2. /\ flows[f] \in Flow /\ StageKept(f) /\ TracerTyped /\ FramesKept
      /\ meddled \subseteq Tracing!Traces /\ flows[f].at = "body"
  BY DEF TracerInv, TracerTyped, Tracing!TypeOK, Tracing!EndOwnTrace, Tracing!At
<1>3. flows[f].stack # <<>>
  BY <1>2 DEF StageKept
<1>4. Top(f, c) /\ Frame(f, Len(flows[f].stack), c)
  BY <1>1, <1>2, <1>3, TopIs
<1>5. c.kind = "trace" /\ c.trace \in Tracing!Traces /\ Owns(f, c.trace)
  BY <1>1, <1>2, <1>4 DEF Tracing!EndOwnTrace, Owns, FramesKept
<1>6. /\ Tracing!EndTrace(f, flows[f], c.trace, "leave")
      /\ UNCHANGED <<closed, created, traceOf, dropped, reading, meddled, stopping>>
  BY <1>1 DEF Tracing!EndOwnTrace
<1> QED
  BY <1>2, <1>5, <1>6, EndTraceKeeps
\* What is open after a flow has left its context.
LEMMA LeftContexts ==
  ASSUME TracerInv, NEW f \in Flows, flows[f].stack # <<>>, NEW d, d = Tracing!Current(f),
         \A g, i, c : Frame(g, i, c)' <=> Frame(g, i, c) /\ ~ (g = f /\ i = Len(flows[f].stack)),
         UNCHANGED <<created, traceOf>>
  PROVE  /\ FramesKept' /\ Numbered'
         /\ \A t : t \in Tracing!OpenTraces' <=>
              t \in Tracing!OpenTraces /\ ~ (d.kind = "trace" /\ d.trace = t)
         /\ \A s : s \in Tracing!OpenSpans' <=>
              s \in Tracing!OpenSpans /\ ~ (d.kind = "span" /\ d.span = s)
<1>1. FramesKept /\ Frame(f, Len(flows[f].stack), d)
  BY TopIs DEF TracerInv
<1>2. FramesKept'
  BY <1>1 DEF FramesKept
<1>3. Numbered'
  BY DEF TracerInv, Numbered, Tracing!Traces, Tracing!Spans
<1>4. \A i, c : Frame(f, Len(flows[f].stack), c) => c = d
  BY <1>1 DEF Frame
<1>5. ASSUME NEW t
      PROVE  t \in Tracing!OpenTraces' <=>
               t \in Tracing!OpenTraces /\ ~ (d.kind = "trace" /\ d.trace = t)
  <2>1. d.kind = "trace" /\ d.trace = t =>
          \A g, i, c : Frame(g, i, c) /\ c.kind = "trace" /\ c.trace = t =>
            g = f /\ i = Len(flows[f].stack)
    BY <1>1 DEF FramesKept, Twins
  <2>2. ~ (d.kind = "trace" /\ d.trace = t) =>
          \A g, i, c : Frame(g, i, c) /\ c.kind = "trace" /\ c.trace = t =>
            ~ (g = f /\ i = Len(flows[f].stack))
    BY <1>4
  <2> QED
    BY <2>1, <2>2, OpenIs
<1>6. ASSUME NEW s
      PROVE  s \in Tracing!OpenSpans' <=>
               s \in Tracing!OpenSpans /\ ~ (d.kind = "span" /\ d.span = s)
  <2>1. d.kind = "span" /\ d.span = s =>
          \A g, i, c : Frame(g, i, c) /\ c.kind = "span" /\ c.span = s =>
            g = f /\ i = Len(flows[f].stack)
    BY <1>1 DEF FramesKept, Twins
  <2>2. ~ (d.kind = "span" /\ d.span = s) =>
          \A g, i, c : Frame(g, i, c) /\ c.kind = "span" /\ c.span = s =>
            ~ (g = f /\ i = Len(flows[f].stack))
    BY <1>4
  <2> QED
    BY <2>1, <2>2, OpenIs
<1> QED
  BY <1>2, <1>3, <1>5, <1>6

\* A flow that leaves its context keeps the invariant, if its trace is ended by then or its
\* span is ended with it.
LEMMA LeftKeeps ==
  ASSUME TracerInv, NEW f \in Flows, NEW k, Moves(f, k), flows[f].stack # <<>>,
         k.stack = Tracing!Front(flows[f].stack), NEW d, d = Tracing!Current(f),
         UNCHANGED <<activeTraces, closed, created, traceOf, dropped, reading, traceEnds,
                     meddled, stopping>>,
         d.kind = "span" => Tracing!EndSpan(d.span),
         d.kind # "span" => UNCHANGED <<activeSpans, spanEnds>>,
         d.kind = "trace" => d.trace \notin activeTraces,
         flows[f].at = "leave" => d.kind = "trace",
         StageKept(f)'
  PROVE  TracerInv'
<1>1. TracerTyped /\ FramesKept /\ SpansKept /\ TracesKept
  BY DEF TracerInv
<1>2. /\ flows' \in [Flows -> Flow] /\ flows'[f] = k
      /\ \A g \in Flows : g # f => flows'[g] = flows[g]
  BY <1>1, MovesIs
<1>3. \A g, i, c : Frame(g, i, c)' <=> Frame(g, i, c) /\ ~ (g = f /\ i = Len(flows[f].stack))
  BY <1>1, ContextLeft
<1>4. /\ FramesKept' /\ Numbered'
      /\ \A t : t \in Tracing!OpenTraces' <=>
           t \in Tracing!OpenTraces /\ ~ (d.kind = "trace" /\ d.trace = t)
      /\ \A s : s \in Tracing!OpenSpans' <=>
           s \in Tracing!OpenSpans /\ ~ (d.kind = "span" /\ d.span = s)
  BY <1>3, LeftContexts
<1>5. Frame(f, Len(flows[f].stack), d) /\ Top(f, d) /\ \A c : Top(f, c) => c = d
  BY <1>1, TopIs
<1>6. \A g \in Flows : StageKept(g)'
  BY <1>2, OtherStages
<1>7. /\ spanEnds \in [Tracing!Spans -> Nat] /\ activeSpans \subseteq Tracing!Spans
      /\ traceEnds \in [Tracing!Traces -> Nat]
  BY <1>1 DEF TracerTyped, Tracing!TypeOK
<1>8. /\ spanEnds' \in [Tracing!Spans -> Nat] /\ activeSpans' \subseteq Tracing!Spans
      /\ \A s \in Tracing!Spans :
           \/ /\ spanEnds'[s] = spanEnds[s] /\ (s \in activeSpans' <=> s \in activeSpans)
              /\ s \in activeSpans => ~ (d.kind = "span" /\ d.span = s)
           \/ s \in activeSpans /\ s \notin activeSpans' /\ spanEnds'[s] = spanEnds[s] + 1
  <2>1. CASE d.kind = "span"
    <3>1. activeSpans' = activeSpans \ {d.span}
      BY <2>1 DEF Tracing!EndSpan
    <3>2. CASE d.span \in activeSpans
      BY <1>7, <2>1, <3>1, <3>2 DEF Tracing!EndSpan
    <3>3. CASE d.span \notin activeSpans
      BY <1>7, <2>1, <3>1, <3>3 DEF Tracing!EndSpan
    <3> QED
      BY <3>2, <3>3
  <2>2. CASE d.kind # "span"
    BY <1>7, <2>2
  <2> QED
    BY <2>1, <2>2
<1>9. TracerTyped'
  <2>1. \A g \in Flows : flows'[g] \in Flow
    BY <1>2
  <2> QED
    BY <1>1, <1>2, <1>8, <2>1 DEF TracerTyped, Tracing!TypeOK, Flow, Stages,
         Tracing!Traces, Tracing!Spans, Tracing!Context
<1>10. SpansKept'
  <2> SUFFICES ASSUME NEW s \in Tracing!Spans
               PROVE  /\ spanEnds'[s] <= 1
                      /\ s \in activeSpans' => spanEnds'[s] = 0 /\ s \in Tracing!OpenSpans'
                      /\ s \in dropped'.spans => spanEnds'[s] = 0 /\ s \notin activeSpans'
                      /\ traceOf'[s] = None =>
                           spanEnds'[s] = 0 /\ s \notin activeSpans' \cup dropped'.spans
                      /\ ~ stopping' /\ traceOf'[s] # None =>
                           s \in activeSpans' \cup dropped'.spans \/ spanEnds'[s] = 1
    BY DEF SpansKept, Tracing!Spans
  <2>1. /\ spanEnds[s] \in Nat /\ spanEnds[s] <= 1
        /\ s \in activeSpans => spanEnds[s] = 0 /\ s \in Tracing!OpenSpans
        /\ s \in dropped.spans => spanEnds[s] = 0 /\ s \notin activeSpans
        /\ traceOf[s] = None => spanEnds[s] = 0 /\ s \notin activeSpans \cup dropped.spans
        /\ ~ stopping /\ traceOf[s] # None =>
             s \in activeSpans \cup dropped.spans \/ spanEnds[s] = 1
    BY <1>1, <1>7 DEF SpansKept
  <2> QED
    BY <1>4, <1>8, <2>1
<1>11. TracesKept'
  <2> SUFFICES ASSUME NEW u \in Tracing!Traces
               PROVE  /\ u \in activeTraces' => u \in Tracing!OpenTraces'
                      /\ created'[u] = None => traceEnds'[u] = 0
                      /\ ~ stopping' /\ created'[u] # None =>
                           u \in activeTraces' \cup dropped'.traces \/ traceEnds'[u] >= 1
                      /\ u \notin meddled' =>
                           /\ traceEnds'[u] <= 1
                           /\ traceEnds'[u] = 1 =>
                                \/ u \notin Tracing!OpenTraces'
                                \/ \E g \in Flows : flows'[g].at = "leave" /\ Owns(g, u)'
    BY DEF TracesKept, Tracing!Traces
  <2>1. /\ u \in activeTraces => u \in Tracing!OpenTraces
        /\ created[u] = None => traceEnds[u] = 0
        /\ ~ stopping /\ created[u] # None =>
             u \in activeTraces \cup dropped.traces \/ traceEnds[u] >= 1
        /\ u \notin meddled =>
             /\ traceEnds[u] <= 1
             /\ traceEnds[u] = 1 => \/ u \notin Tracing!OpenTraces
                                    \/ \E g \in Flows : flows[g].at = "leave" /\ Owns(g, u)
    BY <1>1 DEF TracesKept
  <2>2. ASSUME NEW g \in Flows, flows[g].at = "leave", Owns(g, u)
        PROVE  \/ u \notin Tracing!OpenTraces'
               \/ flows'[g].at = "leave" /\ Owns(g, u)'
    <3>1. CASE g = f
      <4>1. d.kind = "trace" /\ d.trace = u
        BY <1>5, <2>2, <3>1 DEF Owns
      <4> QED
        BY <1>4, <4>1
    <3>2. CASE g # f
      BY <1>2, <2>2, <3>2 DEF Owns, Top
    <3> QED
      BY <3>1, <3>2
  <2>3. (\E g \in Flows : flows[g].at = "leave" /\ Owns(g, u)) =>
          \/ u \notin Tracing!OpenTraces'
          \/ \E g \in Flows : flows'[g].at = "leave" /\ Owns(g, u)'
    BY <2>2
  <2>4. u \in activeTraces => u \in Tracing!OpenTraces'
    BY <1>4, <2>1
  <2>5. u \notin Tracing!OpenTraces => u \notin Tracing!OpenTraces'
    BY <1>4
  <2> QED
    BY <2>1, <2>3, <2>4, <2>5
<1> QED
  BY <1>4, <1>6, <1>9, <1>10, <1>11 DEF TracerInv

\* A flow that has left its context is in the one below, or idle.
LEMMA LeftIs ==
  ASSUME TracerTyped, NEW f \in Flows, flows[f].stack # <<>>,
         flows' = [flows EXCEPT ![f] = Tracing!Left(@)]
  PROVE  \E k : /\ Moves(f, k) /\ k.stack = Tracing!Front(flows[f].stack)
                /\ StageKept(f)' /\ k.at \in {"idle", "body"}
<1>1. PICK flow, rest : flow = flows[f] /\ rest = Tracing!Front(flow.stack)
  OBVIOUS
<1>2. flow \in Flow /\ flows \in [Flows -> Flow] /\ flow.stack \in Seq(Tracing!Context)
  BY <1>1 DEF TracerTyped, Flow
<1>3. rest \in Seq(Tracing!Context)
  <2>1. PICK s \in Seq(Tracing!Context) : s = flow.stack
    BY <1>2
  <2>2. PICK n \in Nat \ {0} : n = Len(s)
    BY <1>1, <2>1
  <2>3. rest = SubSeq(s, 1, n - 1)
    BY <1>1, <2>1, <2>2 DEF Tracing!Front
  <2> QED
    BY <2>1, <2>2, <2>3
<1>4. PICK at : at = IF rest = <<>> THEN "idle" ELSE "body"
  OBVIOUS
<1>5. PICK left : left = [flow EXCEPT !.stack = rest]
  OBVIOUS
<1>6. left \in Flow /\ left.stack = rest
  BY <1>2, <1>3, <1>5 DEF Flow
<1>7. PICK k : k = [left EXCEPT !.at = at]
  OBVIOUS
<1>8. k \in Flow /\ k.stack = rest /\ k.at = at
  BY <1>4, <1>6, <1>7 DEF Flow, Stages
<1>9. Tracing!Left(flow) = k
  BY <1>1, <1>4, <1>5, <1>6, <1>7 DEF Tracing!Left, Tracing!Resumed
<1>10. Moves(f, k)
  BY <1>1, <1>2, <1>8, <1>9 DEF Moves
<1>11. flows'[f] = k
  BY <1>10, MovesIs
<1>12. StageKept(f)'
  BY <1>4, <1>8, <1>11 DEF StageKept
<1> QED
  BY <1>1, <1>4, <1>8, <1>10, <1>12

\* A trace that is ended is left.
LEMMA LeaveTraceKeeps ==
  ASSUME TracerInv, NEW f \in Flows, Tracing!LeaveTrace(f) PROVE TracerInv'
<1>1. TracerTyped /\ StageKept(f) /\ flows[f].at = "leave"
  BY DEF TracerInv, Tracing!LeaveTrace, Tracing!At
<1>2. PICK t \in Tracing!Traces \ activeTraces : Owns(f, t)
  BY <1>1 DEF StageKept
<1>3. PICK d : /\ d = Tracing!Current(f) /\ flows[f].stack # <<>>
               /\ d.kind = "trace" /\ d.trace = t
  BY <1>1, <1>2, OwnsIs
<1>4. /\ flows' = [flows EXCEPT ![f] = Tracing!Left(@)]
      /\ UNCHANGED <<activeTraces, closed, created, traceOf, dropped, reading, traceEnds,
                     meddled, stopping>>
      /\ UNCHANGED <<activeSpans, spanEnds>>
  BY DEF Tracing!LeaveTrace, Tracing!records, Tracing!history
<1>5. PICK k : Moves(f, k) /\ k.stack = Tracing!Front(flows[f].stack) /\ StageKept(f)'
  BY <1>1, <1>3, <1>4, LeftIs
<1> QED
  BY <1>2, <1>3, <1>4, <1>5, LeftKeeps

\* The body of a span is over.
LEMMA EndOwnSpanKeeps ==
  ASSUME TracerInv, NEW f \in Flows, Tracing!EndOwnSpan(f) PROVE TracerInv'
<1>1. TracerTyped /\ StageKept(f) /\ flows[f].at = "body"
  BY DEF TracerInv, Tracing!EndOwnSpan, Tracing!At
<1>2. flows[f].stack # <<>>
  BY <1>1 DEF StageKept
<1>3. PICK d : d = Tracing!Current(f)
  OBVIOUS
<1>4. /\ d.kind = "span" /\ Tracing!EndSpan(d.span)
      /\ flows' = [flows EXCEPT ![f] = Tracing!Left(@)]
      /\ UNCHANGED <<activeTraces, closed, created, traceOf, dropped, reading, traceEnds,
                     meddled, stopping>>
  BY <1>3 DEF Tracing!EndOwnSpan
<1>5. PICK k : Moves(f, k) /\ k.stack = Tracing!Front(flows[f].stack) /\ StageKept(f)'
  BY <1>1, <1>2, <1>4, LeftIs
<1> QED
  BY <1>1, <1>2, <1>3, <1>4, <1>5, LeftKeeps

\* What was started inside a body is over.
LEMMA FinishKeeps ==
  ASSUME TracerInv, NEW f \in Flows, Tracing!Finish(f) PROVE TracerInv'
<1>1. TracerTyped /\ StageKept(f) /\ flows[f].at = "body" /\ FramesKept
  BY DEF TracerInv, Tracing!Finish, Tracing!At
<1>2. flows[f].stack # <<>> /\ flows[f].stack \in Seq(Tracing!Context)
  BY <1>1 DEF StageKept, TracerTyped, Flow
<1>3. PICK d : d = Tracing!Current(f)
  OBVIOUS
<1>4. /\ d.kind = "inherited"
      /\ UNCHANGED <<activeTraces, closed, created, traceOf, dropped, reading, traceEnds,
                     meddled, stopping>>
      /\ UNCHANGED <<activeSpans, spanEnds>>
  BY <1>3 DEF Tracing!Finish, Tracing!records, Tracing!history
<1>5. Len(flows[f].stack) = 1
  <2>1. Frame(f, Len(flows[f].stack), d)
    BY <1>1, <1>2, <1>3, TopIs
  <2> QED
    BY <1>1, <1>4, <2>1 DEF FramesKept
<1>6. Tracing!Front(flows[f].stack) = <<>>
  BY <1>2, <1>5 DEF Tracing!Front
<1>7. PICK k : k = [Tracing!Quiet EXCEPT !.at = "over"]
  OBVIOUS
<1>8. k \in Flow /\ k.at = "over" /\ k.stack = <<>>
  <2>1. <<>> \in Seq(Tracing!Context)
    <3>1. ASSUME NEW S PROVE <<>> \in Seq(S)
      OBVIOUS
    <3> QED
      BY <3>1
  <2>2. Tracing!Quiet \in Flow /\ Tracing!Quiet.stack = <<>>
    BY <2>1 DEF Flow, Stages, Tracing!Quiet
  <2> QED
    BY <1>7, <2>2 DEF Flow, Stages
<1>9. Moves(f, k)
  BY <1>7, <1>8 DEF Moves, Tracing!Finish
<1>10. flows'[f] = k
  BY <1>1, <1>9, MovesIs
<1>11. StageKept(f)'
  BY <1>8, <1>10 DEF StageKept
<1> QED
  BY <1>1, <1>2, <1>3, <1>4, <1>6, <1>8, <1>9, <1>11, LeftKeeps
\* A flow that opens a context goes on in its body.
LEMMA OpenedIs ==
  ASSUME TracerTyped, NEW f \in Flows, NEW d \in Tracing!Context,
         flows' = [flows EXCEPT ![f] = Tracing!Opened(@, d)]
  PROVE  \E k : /\ Moves(f, k) /\ k.stack = Append(flows[f].stack, d) /\ k.at = "body"
                /\ StageKept(f)'
<1>1. PICK flow, more : flow = flows[f] /\ more = Append(flow.stack, d)
  OBVIOUS
<1>2. flow \in Flow /\ flows \in [Flows -> Flow] /\ flow.stack \in Seq(Tracing!Context)
  BY <1>1 DEF TracerTyped, Flow
<1>3. more \in Seq(Tracing!Context) /\ more # <<>>
  <2>1. PICK s \in Seq(Tracing!Context) : s = flow.stack
    BY <1>2
  <2> QED
    BY <1>1, <2>1
<1>4. PICK k : k = [flow EXCEPT !.stack = more, !.at = "body"]
  OBVIOUS
<1>5. k \in Flow /\ k.stack = more /\ k.at = "body"
  BY <1>2, <1>3, <1>4 DEF Flow, Stages
<1>6. Moves(f, k)
  BY <1>1, <1>2, <1>4, <1>5 DEF Moves, Tracing!Opened
<1>7. flows'[f] = k
  BY <1>6, MovesIs
<1>8. StageKept(f)'
  BY <1>3, <1>5, <1>7 DEF StageKept
<1> QED
  BY <1>1, <1>5, <1>6, <1>8

\* What is open after a flow has opened a context, of a new trace or span or at its bottom.
LEMMA OpenedContexts ==
  ASSUME TracerInv, NEW f \in Flows, NEW k, Moves(f, k), NEW d \in Tracing!Context,
         k.stack = Append(flows[f].stack, d), d.trace \in Tracing!Traces,
         \A t \in Tracing!Traces : created[t] # None => created'[t] # None,
         \A s \in Tracing!Spans : traceOf[s] # None => traceOf'[s] # None,
         d.kind = "trace" => created[d.trace] = None /\ created'[d.trace] # None,
         d.kind = "span" => /\ d.span \in Tracing!Spans
                            /\ traceOf[d.span] = None /\ traceOf'[d.span] # None,
         d.kind = "inherited" => flows[f].stack = <<>>
  PROVE  /\ FramesKept'
         /\ \A t : t \in Tracing!OpenTraces' <=>
              t \in Tracing!OpenTraces \/ (d.kind = "trace" /\ d.trace = t)
         /\ \A s : s \in Tracing!OpenSpans' <=>
              s \in Tracing!OpenSpans \/ (d.kind = "span" /\ d.span = s)
<1>1. TracerTyped /\ FramesKept
  BY DEF TracerInv
<1>2. PICK n : n = Len(flows[f].stack)
  OBVIOUS
<1>3. /\ \A g, i, c : Frame(g, i, c)' <=> Frame(g, i, c) \/ (g = f /\ i = n + 1 /\ c = d)
      /\ n \in Nat /\ \A i, c : Frame(f, i, c) => i \in 1..n
  BY <1>1, <1>2, ContextOpens
<1>4. /\ \A t : t \in Tracing!OpenTraces' <=>
           t \in Tracing!OpenTraces \/ (d.kind = "trace" /\ d.trace = t)
      /\ \A s : s \in Tracing!OpenSpans' <=>
           s \in Tracing!OpenSpans \/ (d.kind = "span" /\ d.span = s)
  <2>1. Frame(f, n + 1, d)'
    BY <1>3
  <2>2. ASSUME NEW t
        PROVE  t \in Tracing!OpenTraces' <=>
                 t \in Tracing!OpenTraces \/ (d.kind = "trace" /\ d.trace = t)
    BY <1>3, <2>1, OpenIs
  <2>3. ASSUME NEW s
        PROVE  s \in Tracing!OpenSpans' <=>
                 s \in Tracing!OpenSpans \/ (d.kind = "span" /\ d.span = s)
    BY <1>3, <2>1, OpenIs
  <2> QED
    BY <2>2, <2>3
<1>5. d.kind = "inherited" => n + 1 = 1
  BY <1>2
<1>6. ASSUME NEW g, NEW i, NEW c, Frame(g, i, c)'
      PROVE  /\ c.trace \in Tracing!Traces
             /\ c.kind = "trace" => created'[c.trace] # None
             /\ c.kind = "span" => c.span \in Tracing!Spans /\ traceOf'[c.span] # None
             /\ c.kind = "inherited" => i = 1
  <2>1. CASE Frame(g, i, c)
    BY <1>1, <2>1 DEF FramesKept
  <2>2. CASE g = f /\ i = n + 1 /\ c = d
    BY <1>5, <2>2
  <2> QED
    BY <1>3, <1>6, <2>1, <2>2
<1>7. \A g, i, c : Frame(g, i, c) => ~ Twins(c, d) /\ ~ Twins(d, c)
  BY <1>1 DEF FramesKept, Twins
<1>8. ASSUME NEW g, NEW h, NEW i, NEW j, NEW c, NEW e,
             Frame(g, i, c)', Frame(h, j, e)', Twins(c, e)
      PROVE  g = h /\ i = j
  <2>1. CASE Frame(g, i, c) /\ Frame(h, j, e)
    BY <1>1, <1>8, <2>1 DEF FramesKept
  <2>2. CASE ~ (Frame(g, i, c) /\ Frame(h, j, e))
    BY <1>3, <1>7, <1>8, <2>2
  <2> QED
    BY <2>1, <2>2
<1>9. FramesKept'
  BY <1>6, <1>8 DEF FramesKept, Tracing!Traces, Tracing!Spans, Twins
<1> QED
  BY <1>4, <1>9

\* A flow that is started inside a body begins with the context of that body.
LEMMA SpawnKeeps ==
  ASSUME TracerInv, NEW f \in Flows, NEW g \in Flows, Tracing!Spawn(f, g) PROVE TracerInv'
<1>1. /\ TracerTyped /\ FramesKept /\ SpansKept /\ TracesKept /\ StageKept(f) /\ StageKept(g)
      /\ flows[f].at = "body" /\ flows[g].at = "idle"
  BY DEF TracerInv, Tracing!Spawn, Tracing!At
<1>2. PICK c : c = Tracing!Current(f)
  OBVIOUS
<1>3. flows[f].stack # <<>> /\ flows[g].stack = <<>>
  BY <1>1 DEF StageKept
<1>4. c \in Tracing!Context /\ c.trace \in Tracing!Traces
  BY <1>1, <1>2, <1>3, TopIs DEF FramesKept
<1>5. PICK d : d = [c EXCEPT !.kind = "inherited"]
  OBVIOUS
<1>6. d \in Tracing!Context /\ d.kind = "inherited" /\ d.trace \in Tracing!Traces
  BY <1>4, <1>5 DEF Tracing!Context
<1>7. /\ flows' = [flows EXCEPT ![g] = Tracing!Opened(@, d)]
      /\ UNCHANGED <<activeTraces, activeSpans, closed, created, traceOf, dropped, reading,
                     traceEnds, spanEnds, meddled, stopping>>
  BY <1>2, <1>5 DEF Tracing!Spawn, Tracing!records, Tracing!history
<1>8. PICK k : /\ Moves(g, k) /\ k.stack = Append(flows[g].stack, d) /\ k.at = "body"
               /\ StageKept(g)'
  BY <1>1, <1>6, <1>7, OpenedIs
<1>9. /\ FramesKept' /\ Tracing!OpenTraces' = Tracing!OpenTraces
      /\ Tracing!OpenSpans' = Tracing!OpenSpans
  <2>1. /\ FramesKept'
        /\ \A t : t \in Tracing!OpenTraces' <=>
             t \in Tracing!OpenTraces \/ (d.kind = "trace" /\ d.trace = t)
        /\ \A s : s \in Tracing!OpenSpans' <=>
             s \in Tracing!OpenSpans \/ (d.kind = "span" /\ d.span = s)
    BY <1>3, <1>6, <1>7, <1>8, OpenedContexts
  <2> QED
    BY <1>6, <2>1
<1>10. /\ flows' \in [Flows -> Flow] /\ flows'[g] = k
       /\ \A h \in Flows : h # g => flows'[h] = flows[h]
  BY <1>1, <1>8, MovesIs
<1>11. \A h \in Flows : StageKept(h)'
  <2>1. \A h \in Flows : h # g => StageKept(h)'
    BY <1>7, <1>10, OtherStages
  <2> QED
    BY <1>8, <2>1
<1>12. Numbered'
  BY <1>7 DEF TracerInv, Numbered, Tracing!Traces, Tracing!Spans
<1>13. TracerTyped'
  <2>1. \A h \in Flows : flows'[h] \in Flow
    BY <1>10
  <2> QED
    BY <1>1, <1>7, <1>10, <2>1 DEF TracerTyped, Tracing!TypeOK, Flow, Stages,
         Tracing!Traces, Tracing!Spans, Tracing!Context
<1>14. SpansKept'
  BY <1>1, <1>7, <1>9 DEF SpansKept, Tracing!Spans
<1>15. TracesKept'
  <2>1. \A h \in Flows : \A t :
          flows[h].at = "leave" /\ Owns(h, t) => flows'[h].at = "leave" /\ Owns(h, t)'
    <3> SUFFICES ASSUME NEW h \in Flows, NEW t, flows[h].at = "leave", Owns(h, t)
                 PROVE  flows'[h].at = "leave" /\ Owns(h, t)'
      OBVIOUS
    <3>1. h # g /\ flows'[h] = flows[h]
      BY <1>1, <1>10
    <3> QED
      BY <3>1 DEF Owns, Top
  <2> QED
    BY <1>1, <1>7, <1>9, <2>1 DEF TracesKept, Tracing!Traces
<1> QED
  BY <1>9, <1>11, <1>12, <1>13, <1>14, <1>15 DEF TracerInv

\* Ids stay in order when the next is given.
LEMMA NumberedOn ==
  ASSUME NEW n \in Nat, NEW ids, \A t \in 1..n : ids[t] # None => \A u \in 1..t : ids[u] # None,
         NEW next \in 1..n, NEW value, value # None, \A u \in 1..n : u < next => ids[u] # None,
         NEW more, \A u \in 1..n : more[u] = IF u = next THEN value ELSE ids[u]
  PROVE  \A t \in 1..n : more[t] # None => \A u \in 1..t : more[u] # None
<1> SUFFICES ASSUME NEW t \in 1..n, more[t] # None, NEW u \in 1..t PROVE more[u] # None
  OBVIOUS
<1>1. u \in 1..n /\ (t = next => u = next \/ u < next)
  OBVIOUS
<1> QED
  BY <1>1

\* A trace begins, recorded or not.
LEMMA BeginTraceKeeps ==
  ASSUME Tracing!TracerAssumption, TracerInv, NEW f \in Flows, Tracing!Begin(f) PROVE TracerInv'
<1>1. /\ TracerTyped /\ FramesKept /\ SpansKept /\ TracesKept /\ Numbered
      /\ flows[f].at = "begin"
  BY DEF TracerInv, Tracing!Begin, Tracing!At
<1>2. PICK t : t = Tracing!NextTrace
  OBVIOUS
<1>3. /\ t \in Tracing!Traces /\ created[t] = None
      /\ \A u \in Tracing!Traces : u < t => created[u] # None
  BY <1>2, NextTraceIs DEF Tracing!Begin
<1>4. PICK decision \in Tracing!ShouldSample(f) :
        /\ flows' = [flows EXCEPT ![f] = Tracing!Opened(@,
             [kind |-> "trace", trace |-> t, span |-> None, sampled |-> Tracing!Sampled(decision)])]
        /\ created' = [created EXCEPT ![t] = reading]
        /\ \/ activeTraces' = activeTraces \cup {t} /\ dropped' = dropped
           \/ /\ dropped' = [dropped EXCEPT !.traces = @ \cup {t}]
              /\ activeTraces' = activeTraces
  BY <1>2 DEF Tracing!Begin
<1>5. UNCHANGED <<activeSpans, closed, traceOf, reading, traceEnds, spanEnds, meddled, stopping>>
  BY DEF Tracing!Begin, Tracing!history
<1>6. PICK d : d = [kind |-> "trace", trace |-> t, span |-> None,
                    sampled |-> Tracing!Sampled(decision)]
  OBVIOUS
<1>7. d \in Tracing!Context /\ d.kind = "trace" /\ d.trace = t
  <2>1. Tracing!Sampled(decision) \in BOOLEAN
    BY DEF Tracing!Sampled
  <2> QED
    BY <1>3, <1>6, <2>1 DEF Tracing!Context
<1>8. PICK k : /\ Moves(f, k) /\ k.stack = Append(flows[f].stack, d) /\ k.at = "body"
               /\ StageKept(f)'
  BY <1>1, <1>4, <1>6, <1>7, OpenedIs
<1>9. /\ created \in [Tracing!Traces -> Readings \cup {None}] /\ reading \in Readings
      /\ reading # None /\ Readings \subseteq Nat
  BY <1>1 DEF TracerTyped, Tracing!TypeOK, Tracing!TracerAssumption
<1>10. /\ created' \in [Tracing!Traces -> Readings \cup {None}]
       /\ \A u \in Tracing!Traces : created'[u] = IF u = t THEN reading ELSE created[u]
  BY <1>3, <1>4, <1>9
<1>11. /\ FramesKept'
       /\ \A u : u \in Tracing!OpenTraces' <=> u \in Tracing!OpenTraces \/ u = t
       /\ \A s : s \in Tracing!OpenSpans' <=> s \in Tracing!OpenSpans
  <2>1. /\ FramesKept'
        /\ \A u : u \in Tracing!OpenTraces' <=>
             u \in Tracing!OpenTraces \/ (d.kind = "trace" /\ d.trace = u)
        /\ \A s : s \in Tracing!OpenSpans' <=>
             s \in Tracing!OpenSpans \/ (d.kind = "span" /\ d.span = s)
    BY <1>3, <1>5, <1>7, <1>8, <1>9, <1>10, OpenedContexts
  <2> QED
    BY <1>7, <2>1
<1>12. /\ flows' \in [Flows -> Flow] /\ flows'[f] = k
       /\ \A h \in Flows : h # f => flows'[h] = flows[h]
  BY <1>1, <1>8, MovesIs
<1>13. \A h \in Flows : StageKept(h)'
  <2>1. \A h \in Flows : h # f => StageKept(h)'
    BY <1>3, <1>4, <1>5, <1>9, <1>10, <1>12, OtherStages
  <2> QED
    BY <1>8, <2>1
<1>14. Numbered'
  <2>1. \A u \in Tracing!Traces : created'[u] # None => \A v \in 1..u : created'[v] # None
    BY <1>1, <1>3, <1>9, <1>10, NumberedOn DEF Numbered, Tracing!Traces, Tracing!TracerAssumption
  <2> QED
    BY <1>1, <1>5, <2>1 DEF Numbered, Tracing!Traces, Tracing!Spans
<1>15. /\ activeTraces' \subseteq Tracing!Traces
       /\ dropped' \in [traces : SUBSET Tracing!Traces, spans : SUBSET Tracing!Spans]
       /\ dropped'.spans = dropped.spans
       /\ \A u : u # t => /\ u \in activeTraces' <=> u \in activeTraces
                          /\ u \in dropped'.traces <=> u \in dropped.traces
       /\ t \in activeTraces' \cup dropped'.traces
  <2>1. PICK more : more = dropped.traces \cup {t}
    OBVIOUS
  <2>2. /\ activeTraces \subseteq Tracing!Traces /\ more \in SUBSET Tracing!Traces
        /\ dropped \in [traces : SUBSET Tracing!Traces, spans : SUBSET Tracing!Spans]
    BY <1>1, <1>3, <2>1 DEF TracerTyped, Tracing!TypeOK
  <2>3. CASE activeTraces' = activeTraces \cup {t} /\ dropped' = dropped
    BY <1>3, <2>2, <2>3
  <2>4. CASE dropped' = [dropped EXCEPT !.traces = @ \cup {t}] /\ activeTraces' = activeTraces
    <3>1. dropped' = [dropped EXCEPT !.traces = more]
      BY <2>1, <2>4
    <3>2. /\ dropped' \in [traces : SUBSET Tracing!Traces, spans : SUBSET Tracing!Spans]
          /\ dropped'.traces = more /\ dropped'.spans = dropped.spans
      BY <2>2, <3>1
    <3> QED
      BY <2>1, <2>2, <2>4, <3>2
  <2> QED
    BY <1>4, <2>3, <2>4
<1>16. TracerTyped'
  <2>1. \A h \in Flows : flows'[h] \in Flow
    BY <1>12
  <2> QED
    BY <1>1, <1>5, <1>10, <1>12, <1>15, <2>1 DEF TracerTyped, Tracing!TypeOK, Flow, Stages,
         Tracing!Traces, Tracing!Spans, Tracing!Context
<1>17. SpansKept'
  BY <1>1, <1>5, <1>11, <1>15 DEF SpansKept, Tracing!Spans
<1>18. TracesKept'
  <2> SUFFICES ASSUME NEW u \in Tracing!Traces
               PROVE  /\ u \in activeTraces' => u \in Tracing!OpenTraces'
                      /\ created'[u] = None => traceEnds'[u] = 0
                      /\ ~ stopping' /\ created'[u] # None =>
                           u \in activeTraces' \cup dropped'.traces \/ traceEnds'[u] >= 1
                      /\ u \notin meddled' =>
                           /\ traceEnds'[u] <= 1
                           /\ traceEnds'[u] = 1 =>
                                \/ u \notin Tracing!OpenTraces'
                                \/ \E g \in Flows : flows'[g].at = "leave" /\ Owns(g, u)'
    BY DEF TracesKept, Tracing!Traces
  <2>1. /\ u \in activeTraces => u \in Tracing!OpenTraces
        /\ created[u] = None => traceEnds[u] = 0
        /\ ~ stopping /\ created[u] # None =>
             u \in activeTraces \cup dropped.traces \/ traceEnds[u] >= 1
        /\ u \notin meddled =>
             /\ traceEnds[u] <= 1
             /\ traceEnds[u] = 1 => \/ u \notin Tracing!OpenTraces
                                    \/ \E g \in Flows : flows[g].at = "leave" /\ Owns(g, u)
    BY <1>1 DEF TracesKept
  <2>2. ASSUME NEW h \in Flows, flows[h].at = "leave", Owns(h, u)
        PROVE  flows'[h].at = "leave" /\ Owns(h, u)'
    <3>1. h # f /\ flows'[h] = flows[h]
      BY <1>1, <1>12, <2>2
    <3> QED
      BY <2>2, <3>1 DEF Owns, Top
  <2>3. CASE u = t
    BY <1>3, <1>5, <1>9, <1>10, <1>11, <1>15, <2>1, <2>3
  <2>4. CASE u # t
    BY <1>5, <1>10, <1>11, <1>15, <2>1, <2>2, <2>4
  <2> QED
    BY <2>3, <2>4
<1> QED
  BY <1>11, <1>13, <1>14, <1>16, <1>17, <1>18 DEF TracerInv

\* A span starts in the context that its flow has on top, recorded or not.
LEMMA StartSpanKeeps ==
  ASSUME Tracing!TracerAssumption, TracerInv, NEW f \in Flows, Tracing!StartSpan(f)
  PROVE  TracerInv'
<1>1. /\ TracerTyped /\ FramesKept /\ SpansKept /\ TracesKept /\ Numbered /\ StageKept(f)
      /\ flows[f].at = "body"
  BY DEF TracerInv, Tracing!StartSpan, Tracing!At
<1>2. PICK s, t : s = Tracing!NextSpan /\ t = Tracing!Current(f).trace
  OBVIOUS
<1>3. /\ s \in Tracing!Spans /\ traceOf[s] = None
      /\ \A u \in Tracing!Spans : u < s => traceOf[u] # None
  BY <1>2, NextSpanIs DEF Tracing!StartSpan
<1>4. t \in Tracing!Traces /\ t # None
  <2>1. Frame(f, Len(flows[f].stack), Tracing!Current(f))
    BY <1>1, TopIs DEF StageKept
  <2>2. t \in Tracing!Traces
    BY <1>1, <1>2, <2>1 DEF FramesKept
  <2> QED
    BY <2>2 DEF Tracing!TracerAssumption, Tracing!Traces
<1>5. PICK decision \in Tracing!ShouldSample(f) :
        /\ flows' = [flows EXCEPT ![f] = Tracing!Opened(@,
             [kind |-> "span", trace |-> t, span |-> s, sampled |-> Tracing!Sampled(decision)])]
        /\ traceOf' = [traceOf EXCEPT ![s] = t]
        /\ \/ activeSpans' = activeSpans \cup {s} /\ dropped' = dropped
           \/ /\ dropped' = [dropped EXCEPT !.spans = @ \cup {s}]
              /\ activeSpans' = activeSpans
  BY <1>2 DEF Tracing!StartSpan
<1>6. UNCHANGED <<activeTraces, closed, created, reading, traceEnds, spanEnds, meddled, stopping>>
  BY DEF Tracing!StartSpan, Tracing!history
<1>7. PICK d : d = [kind |-> "span", trace |-> t, span |-> s,
                    sampled |-> Tracing!Sampled(decision)]
  OBVIOUS
<1>8. d \in Tracing!Context /\ d.kind = "span" /\ d.trace = t /\ d.span = s
  <2>1. Tracing!Sampled(decision) \in BOOLEAN
    BY DEF Tracing!Sampled
  <2> QED
    BY <1>3, <1>4, <1>7, <2>1 DEF Tracing!Context
<1>9. PICK k : /\ Moves(f, k) /\ k.stack = Append(flows[f].stack, d) /\ k.at = "body"
               /\ StageKept(f)'
  BY <1>1, <1>5, <1>7, <1>8, OpenedIs
<1>10. /\ traceOf' \in [Tracing!Spans -> Tracing!Traces \cup {None}]
       /\ \A u \in Tracing!Spans : traceOf'[u] = IF u = s THEN t ELSE traceOf[u]
  <2>1. traceOf \in [Tracing!Spans -> Tracing!Traces \cup {None}]
    BY <1>1 DEF TracerTyped, Tracing!TypeOK
  <2> QED
    BY <1>3, <1>4, <1>5, <2>1
<1>11. /\ FramesKept'
       /\ \A u : u \in Tracing!OpenTraces' <=> u \in Tracing!OpenTraces
       /\ \A u : u \in Tracing!OpenSpans' <=> u \in Tracing!OpenSpans \/ u = s
  <2>1. /\ FramesKept'
        /\ \A u : u \in Tracing!OpenTraces' <=>
             u \in Tracing!OpenTraces \/ (d.kind = "trace" /\ d.trace = u)
        /\ \A u : u \in Tracing!OpenSpans' <=>
             u \in Tracing!OpenSpans \/ (d.kind = "span" /\ d.span = u)
    BY <1>3, <1>4, <1>6, <1>8, <1>9, <1>10, OpenedContexts
  <2> QED
    BY <1>8, <2>1
<1>12. /\ flows' \in [Flows -> Flow] /\ flows'[f] = k
       /\ \A h \in Flows : h # f => flows'[h] = flows[h]
  BY <1>1, <1>9, MovesIs
<1>13. \A h \in Flows : StageKept(h)'
  <2>1. \A h \in Flows : h # f => StageKept(h)'
    BY <1>6, <1>12, OtherStages
  <2> QED
    BY <1>9, <2>1
<1>14. Numbered'
  <2>1. \A u \in Tracing!Spans : traceOf'[u] # None => \A v \in 1..u : traceOf'[v] # None
    BY <1>1, <1>3, <1>4, <1>10, NumberedOn DEF Numbered, Tracing!Spans, Tracing!TracerAssumption
  <2> QED
    BY <1>1, <1>6, <2>1 DEF Numbered, Tracing!Traces, Tracing!Spans
<1>15. /\ activeSpans' \subseteq Tracing!Spans
       /\ dropped' \in [traces : SUBSET Tracing!Traces, spans : SUBSET Tracing!Spans]
       /\ dropped'.traces = dropped.traces
       /\ \A u : u # s => /\ u \in activeSpans' <=> u \in activeSpans
                          /\ u \in dropped'.spans <=> u \in dropped.spans
       /\ s \in activeSpans' \cup dropped'.spans
       /\ s \notin activeSpans \cup dropped.spans => ~ (s \in activeSpans' /\ s \in dropped'.spans)
  <2>1. PICK more : more = dropped.spans \cup {s}
    OBVIOUS
  <2>2. /\ activeSpans \subseteq Tracing!Spans /\ more \in SUBSET Tracing!Spans
        /\ dropped \in [traces : SUBSET Tracing!Traces, spans : SUBSET Tracing!Spans]
    BY <1>1, <1>3, <2>1 DEF TracerTyped, Tracing!TypeOK
  <2>3. CASE activeSpans' = activeSpans \cup {s} /\ dropped' = dropped
    BY <1>3, <2>2, <2>3
  <2>4. CASE dropped' = [dropped EXCEPT !.spans = @ \cup {s}] /\ activeSpans' = activeSpans
    <3>1. dropped' = [dropped EXCEPT !.spans = more]
      BY <2>1, <2>4
    <3>2. /\ dropped' \in [traces : SUBSET Tracing!Traces, spans : SUBSET Tracing!Spans]
          /\ dropped'.spans = more /\ dropped'.traces = dropped.traces
      BY <2>2, <3>1
    <3> QED
      BY <2>1, <2>2, <2>4, <3>2
  <2> QED
    BY <1>5, <2>3, <2>4
<1>16. TracerTyped'
  <2>1. \A h \in Flows : flows'[h] \in Flow
    BY <1>12
  <2> QED
    BY <1>1, <1>6, <1>10, <1>12, <1>15, <2>1 DEF TracerTyped, Tracing!TypeOK, Flow, Stages,
         Tracing!Traces, Tracing!Spans, Tracing!Context
<1>17. TracesKept'
  <2>1. \A h \in Flows : \A u :
          flows[h].at = "leave" /\ Owns(h, u) => flows'[h].at = "leave" /\ Owns(h, u)'
    <3> SUFFICES ASSUME NEW h \in Flows, NEW u, flows[h].at = "leave", Owns(h, u)
                 PROVE  flows'[h].at = "leave" /\ Owns(h, u)'
      OBVIOUS
    <3>1. h # f /\ flows'[h] = flows[h]
      BY <1>1, <1>12
    <3> QED
      BY <3>1 DEF Owns, Top
  <2> QED
    BY <1>1, <1>6, <1>11, <1>15, <2>1 DEF TracesKept, Tracing!Traces
<1>18. SpansKept'
  <2> SUFFICES ASSUME NEW u \in Tracing!Spans
               PROVE  /\ spanEnds'[u] <= 1
                      /\ u \in activeSpans' => spanEnds'[u] = 0 /\ u \in Tracing!OpenSpans'
                      /\ u \in dropped'.spans => spanEnds'[u] = 0 /\ u \notin activeSpans'
                      /\ traceOf'[u] = None =>
                           spanEnds'[u] = 0 /\ u \notin activeSpans' \cup dropped'.spans
                      /\ ~ stopping' /\ traceOf'[u] # None =>
                           u \in activeSpans' \cup dropped'.spans \/ spanEnds'[u] = 1
    BY DEF SpansKept, Tracing!Spans
  <2>1. /\ spanEnds[u] \in Nat /\ spanEnds[u] <= 1
        /\ u \in activeSpans => spanEnds[u] = 0 /\ u \in Tracing!OpenSpans
        /\ u \in dropped.spans => spanEnds[u] = 0 /\ u \notin activeSpans
        /\ traceOf[u] = None => spanEnds[u] = 0 /\ u \notin activeSpans \cup dropped.spans
        /\ ~ stopping /\ traceOf[u] # None =>
             u \in activeSpans \cup dropped.spans \/ spanEnds[u] = 1
    BY <1>1 DEF SpansKept, TracerTyped, Tracing!TypeOK
  <2>2. CASE u = s
    BY <1>3, <1>4, <1>6, <1>10, <1>11, <1>15, <2>1, <2>2
  <2>3. CASE u # s
    BY <1>6, <1>10, <1>11, <1>15, <2>1, <2>3
  <2> QED
    BY <2>2, <2>3
<1> QED
  BY <1>11, <1>13, <1>14, <1>16, <1>17, <1>18 DEF TracerInv

\* The tracer is closed at the end of shutdown, with what is still in its maps.
LEMMA CloseKeeps ==
  ASSUME TracerInv, NEW f \in Flows, Tracing!Close(f) PROVE TracerInv'
<1>1. /\ TracerTyped /\ FramesKept /\ SpansKept /\ TracesKept /\ StageKept(f)
      /\ flows[f].at = "flush"
  BY DEF TracerInv, Tracing!Close, Tracing!At
<1>2. stopping
  BY <1>1 DEF StageKept
<1>3. /\ activeTraces' = {} /\ activeSpans' = {} /\ closed' = TRUE
      /\ UNCHANGED <<created, traceOf, dropped, reading, traceEnds, spanEnds, meddled, stopping>>
  BY DEF Tracing!Close, Tracing!history
<1>4. PICK flow, at : flow = flows[f] /\ at = IF flow.stack = <<>> THEN "idle" ELSE "body"
  OBVIOUS
<1>5. PICK k : k = [flow EXCEPT !.at = at]
  OBVIOUS
<1>6. flow \in Flow /\ k \in Flow /\ k.at = at /\ k.stack = flow.stack
  BY <1>1, <1>4, <1>5 DEF TracerTyped, Flow, Stages
<1>7. Moves(f, k)
  BY <1>4, <1>5, <1>6 DEF Moves, Tracing!Close, Tracing!Resumed
<1>8. /\ flows' \in [Flows -> Flow] /\ flows'[f] = k
      /\ \A g \in Flows : g # f => flows'[g] = flows[g]
  BY <1>1, <1>7, MovesIs
<1>9. /\ \A g, i, c : Frame(g, i, c)' <=> Frame(g, i, c)
      /\ \A g \in Flows : \A t : Owns(g, t)' <=> Owns(g, t)
  BY <1>1, <1>4, <1>6, <1>7, ContextStays
<1>10. /\ FramesKept' /\ Numbered'
       /\ Tracing!OpenTraces' = Tracing!OpenTraces /\ Tracing!OpenSpans' = Tracing!OpenSpans
  BY <1>3, <1>9, SameContexts
<1>11. \A g \in Flows : StageKept(g)'
  <2>1. StageKept(f)'
    BY <1>4, <1>6, <1>8 DEF StageKept
  <2>2. \A g \in Flows : g # f => StageKept(g)'
    BY <1>3, <1>8, OtherStages
  <2> QED
    BY <2>1, <2>2
<1>12. TracerTyped'
  <2>1. \A g \in Flows : flows'[g] \in Flow
    BY <1>8
  <2> QED
    BY <1>1, <1>3, <1>8, <2>1 DEF TracerTyped, Tracing!TypeOK, Flow, Stages,
         Tracing!Traces, Tracing!Spans, Tracing!Context
<1>13. SpansKept'
  BY <1>1, <1>2, <1>3 DEF SpansKept, Tracing!Spans
<1>14. TracesKept'
  <2>1. \A g \in Flows : \A t :
          flows[g].at = "leave" /\ Owns(g, t) => flows'[g].at = "leave" /\ Owns(g, t)'
    BY <1>1, <1>8, <1>9
  <2> QED
    BY <1>1, <1>2, <1>3, <1>10, <2>1 DEF TracesKept, Tracing!Traces
<1> QED
  BY <1>10, <1>11, <1>12, <1>13, <1>14 DEF TracerInv

\* The invariant holds of a tracer that has recorded nothing.
LEMMA TracerBegins ==
  ASSUME Tracing!TracerAssumption, Tracing!Init PROVE TracerInv
<1>1. /\ \A f \in Flows : flows[f] = Tracing!Quiet
      /\ flows = [f \in Flows |-> Tracing!Quiet]
      /\ dropped = [traces |-> {}, spans |-> {}]
      /\ \A t \in Tracing!Traces : created[t] = None /\ traceEnds[t] = 0
      /\ \A s \in Tracing!Spans : traceOf[s] = None /\ spanEnds[s] = 0
  BY DEF Tracing!Init
<1>2. <<>> \in Seq(Tracing!Context)
  <2>1. ASSUME NEW S PROVE <<>> \in Seq(S)
    OBVIOUS
  <2> QED
    BY <2>1
<1>3. Tracing!Quiet \in Flow /\ Tracing!Quiet.stack = <<>> /\ Tracing!Quiet.at = "idle"
  BY <1>2 DEF Tracing!Quiet, Flow, Stages
<1>4. TracerTyped
  <2>1. \A f \in Flows : flows[f] \in Flow
    BY <1>1, <1>3
  <2>2. flows \in [Flows -> Flow]
    BY <1>1, <1>3
  <2>3. /\ created \in [Tracing!Traces -> Readings \cup {None}]
        /\ traceOf \in [Tracing!Spans -> Tracing!Traces \cup {None}]
        /\ traceEnds \in [Tracing!Traces -> Nat] /\ spanEnds \in [Tracing!Spans -> Nat]
    BY DEF Tracing!Init
  <2>4. dropped \in [traces : SUBSET Tracing!Traces, spans : SUBSET Tracing!Spans]
    BY <1>1
  <2> QED
    BY <2>1, <2>2, <2>3, <2>4
       DEF TracerTyped, Tracing!TypeOK, Tracing!Init, Flow, Stages, Tracing!TracerAssumption
<1>5. \A g, i, c : ~ Frame(g, i, c)
  <2>1. \A i : i \notin DOMAIN <<>>
    OBVIOUS
  <2> QED
    BY <1>1, <1>3, <2>1 DEF Frame
<1>6. Numbered /\ FramesKept
  BY <1>1, <1>5 DEF Numbered, FramesKept
<1>7. SpansKept /\ TracesKept
  BY <1>1 DEF SpansKept, TracesKept, Tracing!Init
<1>8. \A g \in Flows : StageKept(g)
  BY <1>1, <1>3 DEF StageKept
<1> QED
  BY <1>4, <1>6, <1>7, <1>8 DEF TracerInv

\* Every step keeps the invariant.
LEMMA TracerStep ==
  ASSUME Tracing!TracerAssumption, TracerInv, [Tracing!Next]_Tracing!tracerVars PROVE TracerInv'
<1>1. CASE UNCHANGED Tracing!tracerVars \/ Tracing!Tick
  <2>1. /\ UNCHANGED <<activeTraces, activeSpans, closed, created, traceOf, dropped, flows,
                       traceEnds, spanEnds, meddled, stopping>>
        /\ reading \in Readings => reading' \in Readings
    BY <1>1 DEF Tracing!tracerVars, Tracing!records, Tracing!history, Tracing!Tick
  <2>2. /\ \A g, i, c : Frame(g, i, c)' <=> Frame(g, i, c)
        /\ \A g, t : Owns(g, t)' <=> Owns(g, t)
    BY <2>1 DEF Frame, Owns, Top
  <2>3. /\ FramesKept' /\ Numbered'
        /\ Tracing!OpenTraces' = Tracing!OpenTraces /\ Tracing!OpenSpans' = Tracing!OpenSpans
    BY <2>1, <2>2, SameContexts
  <2>4. TracerTyped'
    BY <2>1 DEF TracerInv, TracerTyped, Tracing!TypeOK, Flow, Stages,
         Tracing!Traces, Tracing!Spans, Tracing!Context
  <2>5. \A g \in Flows : StageKept(g)'
    BY <2>1, <2>2 DEF TracerInv, StageKept, Tracing!Traces
  <2>6. SpansKept'
    BY <2>1, <2>3 DEF TracerInv, SpansKept, Tracing!Spans
  <2>7. TracesKept'
    BY <2>1, <2>2, <2>3 DEF TracerInv, TracesKept, Tracing!Traces
  <2> QED
    BY <2>3, <2>4, <2>5, <2>6, <2>7 DEF TracerInv
<1>2. ASSUME NEW f \in Flows,
             \/ Tracing!Trace(f) \/ Tracing!Prune(f) \/ Tracing!Limit(f) \/ Tracing!Begin(f)
             \/ Tracing!Ending(f) \/ Tracing!EndOwnTrace(f) \/ Tracing!LeaveTrace(f)
             \/ Tracing!StartSpan(f) \/ Tracing!EndOwnSpan(f) \/ Tracing!Finish(f)
             \/ Tracing!Shutdown(f) \/ Tracing!Stop(f) \/ Tracing!Close(f)
             \/ \E g \in Flows : Tracing!Spawn(f, g)
      PROVE  TracerInv'
  BY <1>2, ListsKeep, PruneKeeps, BeginTraceKeeps, EndingKeeps, EndOwnTraceKeeps,
     LeaveTraceKeeps, StartSpanKeeps, EndOwnSpanKeeps, FinishKeeps, CloseKeeps, SpawnKeeps
<1> QED
  BY <1>1, <1>2 DEF Tracing!Next

\* The invariant says what the property says.
LEMMA TracerSaid ==
  ASSUME TracerInv PROVE Tracing!TypeOK /\ TracesWhole
<1>1. TracerTyped /\ SpansKept /\ TracesKept
  BY DEF TracerInv
<1>2. ASSUME NEW s \in Tracing!Spans
      PROVE  /\ spanEnds[s] + (IF s \in activeSpans THEN 1 ELSE 0) <= 1
             /\ s \in dropped.spans => spanEnds[s] = 0
  BY <1>1 DEF SpansKept, TracerTyped, Tracing!TypeOK
<1>3. ASSUME ~ stopping
      PROVE  /\ \A s \in Tracing!Spans :
                  traceOf[s] # None /\ s \notin Tracing!OpenSpans \cup dropped.spans
                    => spanEnds[s] = 1
             /\ \A t \in Tracing!Traces :
                  created[t] # None /\ t \notin Tracing!OpenTraces \cup dropped.traces
                    => traceEnds[t] >= 1
             /\ activeSpans \subseteq Tracing!OpenSpans
             /\ activeTraces \subseteq Tracing!OpenTraces
  BY <1>1, <1>3 DEF SpansKept, TracesKept, TracerTyped, Tracing!TypeOK
<1>4. ASSUME NEW t \in Tracing!Traces \ meddled
      PROVE  /\ traceEnds[t] <= 1
             /\ traceEnds[t] = 1 =>
                  \/ t \notin Tracing!OpenTraces
                  \/ \E f \in Flows : Tracing!At(f, "leave") /\ Tracing!Current(f).trace = t
  <2>1. ASSUME NEW g \in Flows, flows[g].at = "leave", Owns(g, t)
        PROVE  Tracing!At(g, "leave") /\ Tracing!Current(g).trace = t
    BY <1>1, <2>1, OwnsIs DEF Tracing!At
  <2> QED
    BY <1>1, <2>1 DEF TracesKept
<1>5. TracesWhole
  BY <1>2, <1>3, <1>4 DEF TracesWhole, Tracing!TracesWhole
<1> QED
  BY <1>1, <1>5 DEF TracerTyped

(***************************************************************************)
(* Exporters are told of the end of every recorded span once, whoever ends *)
(* its trace, and up to shutdown nothing that a flow has left stays in the *)
(* maps (simple-tracer.ts: endSpan, endTrace, pruneActiveTraces), for any  *)
(* number of flows, traces and spans.                                      *)
(***************************************************************************)
THEOREM TracesStayWhole ==
  ASSUME Tracing!TracerAssumption PROVE Tracing!Spec => [](Tracing!TypeOK /\ TracesWhole)
<1>1. Tracing!Init => TracerInv
  BY TracerBegins
<1>2. TracerInv /\ [Tracing!Next]_Tracing!tracerVars => TracerInv'
  BY TracerStep
<1>3. TracerInv => Tracing!TypeOK /\ TracesWhole
  BY TracerSaid
<1> QED
  BY <1>1, <1>2, <1>3, PTL DEF Tracing!Spec

-----------------------------------------------------------------------------
(***************************************************************************)
(* Lazy values.  As long as no reset comes during a run, the promise that  *)
(* callers share is the last run and the only one under way.               *)
(***************************************************************************)
MakingInv ==
  /\ makings \in Nat
  /\ pending # None => pending \in making
  /\ ~resetMeanwhile =>
       /\ making = (IF pending = None THEN {} ELSE {pending})
       /\ pending # None => pending = makings
       /\ ready => making = {} /\ made = makings

\* Nothing has been made.
LEMMA MakingStart == Making!Init => MakingInv
BY DEF Making!Init, MakingInv

\* What runs, resets and their results leave so.
LEMMA MakingStep ==
  ASSUME Making!LazyAssumption, MakingInv, [Making!Next]_Making!lazyVars PROVE MakingInv'
<1>1. CASE UNCHANGED Making!lazyVars
  BY <1>1 DEF Making!lazyVars, MakingInv
<1>2. CASE Making!MakeNow
  BY <1>2 DEF Making!MakeNow, Making!Make, MakingInv
<1>3. CASE Making!MakeLater
  <2>1. /\ ~ready /\ pending = None /\ makings \in Nat /\ makings + 1 # None
        /\ makings' = makings + 1 /\ pending' = makings + 1 /\ making' = making \cup {makings + 1}
        /\ UNCHANGED <<made, ready, resetMeanwhile>>
    BY <1>3 DEF Making!MakeLater, Making!Make, MakingInv, Making!LazyAssumption
  <2> QED
    BY <2>1 DEF MakingInv
<1>4. CASE Making!Reset
  BY <1>4 DEF Making!Reset, MakingInv
<1>5. ASSUME NEW r \in 1..MaxRuns, Making!Resolve(r) PROVE MakingInv'
  BY <1>5 DEF Making!Resolve, MakingInv
<1>6. ASSUME NEW r \in 1..MaxRuns, Making!Fail(r) PROVE MakingInv'
  BY <1>6 DEF Making!Fail, MakingInv
<1> QED
  BY <1>1, <1>2, <1>3, <1>4, <1>5, <1>6 DEF Making!Next

(***************************************************************************)
(* However often a lazy value is asked for and reset: nobody is given a    *)
(* promise that is settled, and as long as no reset comes during a run     *)
(* there is one run at a time, none beside a value that is ready, and the  *)
(* value is that of the last run (lazy.ts).                                *)
(***************************************************************************)
THEOREM LazyMadeOnce ==
  ASSUME Making!LazyAssumption PROVE Making!Spec => []Making!LazyOnce
<1>1. MakingInv => Making!LazyOnce
  BY DEF MakingInv, Making!LazyOnce
<1>2. MakingInv /\ [Making!Next]_Making!lazyVars => MakingInv'
  BY MakingStep
<1> QED
  BY <1>1, <1>2, MakingStart, PTL DEF Making!Spec

-----------------------------------------------------------------------------
(***************************************************************************)
(* Numbers.  What has been issued in a cycle goes in one direction, and    *)
(* the current number is the last of it.                                   *)
(***************************************************************************)
Onward(a, b) == IF config.increment > 0 THEN a < b ELSE b < a

\* Within the bounds.
Between(n) == ~Numbering!TooLarge(n) /\ ~Numbering!TooSmall(n)

\* What holds of a sequence at every step.
NumberingInv ==
  /\ config \in Configs /\ current \in Int \cup {None} /\ issued \in Seq(Int)
  /\ issued # <<>> => current = issued[Len(issued)]
  /\ \A i \in 1..Len(issued) : Between(issued[i])
  /\ \A i, j \in 1..Len(issued) : i < j => Onward(issued[i], issued[j])

\* Nothing has been issued.
LEMMA NumberingStart == ASSUME Numbering!SequenceAssumption PROVE Numbering!Init => NumberingInv
<1>1. <<>> \in Seq(Int) /\ 1..Len(<<>>) = {}
  OBVIOUS
<1> QED
  BY <1>1 DEF Numbering!Init, NumberingInv, Numbering!SequenceAssumption

\* A configuration has numbers.
LEMMA ConfigIs ==
  ASSUME Numbering!SequenceAssumption, config \in Configs
  PROVE  /\ config.start \in Int /\ config.increment \in Int /\ config.increment # 0
         /\ config.min \in Int \cup {None} /\ config.max \in Int \cup {None} /\ None \notin Int
         /\ config.min # None /\ config.max # None => config.min <= config.max
BY DEF Numbering!SequenceAssumption

\* The next number, in the same cycle or the first of another one.
LEMMA NumberIs ==
  ASSUME Numbering!SequenceAssumption, NumberingInv, Numbering!NextNumber
  PROVE  /\ current' \in Int /\ Between(current') /\ config' = config
         /\ \/ issued' = Append(issued, current')
               /\ \A i \in 1..Len(issued) : Onward(issued[i], current')
            \/ issued' = <<current'>>
<1>1. /\ config.start \in Int /\ config.increment \in Int /\ config.increment # 0
      /\ config.min \in Int \cup {None} /\ config.max \in Int \cup {None} /\ None \notin Int
      /\ config.min # None /\ config.max # None => config.min <= config.max
  BY ConfigIs DEF NumberingInv
<1> PICK c : c = Numbering!Candidate
  OBVIOUS
<1>2. /\ c \in Int /\ current' = Numbering!Bounded(c) /\ current' # None /\ config' = config
      /\ issued' = (IF current' = c THEN issued ELSE <<>>) \o <<current'>>
  BY <1>1 DEF NumberingInv, Numbering!NextNumber, Numbering!Candidate
<1>3. current' \in Int /\ Between(current')
  BY <1>1, <1>2 DEF Numbering!Bounded, Between, Numbering!TooLarge, Numbering!TooSmall
<1>4. CASE current' # c
  BY <1>2, <1>3, <1>4
<1>5. CASE current' = c
  <2>1. issued' = Append(issued, current')
    BY <1>2, <1>5 DEF NumberingInv
  <2>2. ASSUME NEW i \in 1..Len(issued) PROVE Onward(issued[i], c)
    <3>1. Len(issued) \in Nat /\ Len(issued) \in 1..Len(issued) /\ issued # <<>>
      BY <2>2 DEF NumberingInv
    <3>2. current = issued[Len(issued)] /\ issued[i] \in Int /\ current \in Int
      BY <2>2, <3>1 DEF NumberingInv
    <3>3. c = current + config.increment
      BY <1>1, <3>2 DEF Numbering!Candidate
    <3>4. i = Len(issued) \/ Onward(issued[i], current)
      BY <2>2, <3>1, <3>2 DEF NumberingInv
    <3> QED
      BY <1>1, <3>2, <3>3, <3>4 DEF Onward
  <2> QED
    BY <1>3, <1>2, <1>5, <2>1, <2>2
<1> QED
  BY <1>4, <1>5

\* One more number.
LEMMA NumberingStep ==
  ASSUME Numbering!SequenceAssumption, NumberingInv, [Numbering!Next]_Numbering!sequenceVars
  PROVE  NumberingInv'
<1>1. CASE UNCHANGED Numbering!sequenceVars
  BY <1>1 DEF Numbering!sequenceVars, NumberingInv, Between, Onward,
              Numbering!TooLarge, Numbering!TooSmall
<1>2. ASSUME NEW n \in SetNumbers, Numbering!SetCurrent(n) PROVE NumberingInv'
  <2>1. <<>> \in Seq(Int) /\ 1..Len(<<>>) = {} /\ n \in Int
    BY DEF Numbering!SequenceAssumption
  <2> QED
    BY <1>2, <2>1 DEF NumberingInv, Numbering!SetCurrent
<1>3. CASE Numbering!NextNumber
  <2>1. config' = config /\ config' \in Configs /\ current' \in Int /\ Between(current')
    BY <1>3, NumberIs DEF NumberingInv
  <2>2. CASE issued' = <<current'>>
    <3>1. issued' \in Seq(Int) /\ 1..Len(issued') = {1} /\ Len(issued') = 1 /\ issued'[1] = current'
      BY <2>1, <2>2
    <3> QED
      BY <2>1, <3>1 DEF NumberingInv, Between, Numbering!TooLarge, Numbering!TooSmall
  <2>3. CASE issued' = Append(issued, current')
             /\ \A i \in 1..Len(issued) : Onward(issued[i], current')
    <3> PICK n \in Nat : n = Len(issued)
      BY DEF NumberingInv
    <3>1. /\ issued' \in Seq(Int) /\ Len(issued') = n + 1 /\ 1..Len(issued') = 1..(n + 1)
          /\ issued'[n + 1] = current' /\ \A i \in 1..n : issued'[i] = issued[i]
          /\ \A i \in 1..(n + 1) : i = n + 1 \/ i \in 1..n
      BY <2>1, <2>3 DEF NumberingInv
    <3>2. \A i \in 1..(n + 1) : Between(issued'[i])
      BY <2>1, <3>1 DEF NumberingInv
    <3>3. ASSUME NEW i \in 1..(n + 1), NEW j \in 1..(n + 1), i < j
          PROVE  Onward(issued'[i], issued'[j])
      <4>1. i \in 1..n
        BY <3>3
      <4>2. CASE j = n + 1
        BY <2>3, <3>1, <4>1, <4>2
      <4>3. CASE j \in 1..n
        BY <3>1, <3>3, <4>1, <4>3 DEF NumberingInv
      <4> QED
        BY <3>1, <4>2, <4>3
    <3> QED
      BY <2>1, <3>1, <3>2, <3>3 DEF NumberingInv, Between, Onward,
                                    Numbering!TooLarge, Numbering!TooSmall
  <2> QED
    BY <1>3, <2>2, <2>3, NumberIs
<1> QED
  BY <1>1, <1>2, <1>3 DEF Numbering!Next

(***************************************************************************)
(* For any start, increment, bounds and cycling, and whatever the sequence *)
(* is set to: what it issues is within its bounds, and no number is issued *)
(* twice in a cycle (sequence.ts).                                         *)
(***************************************************************************)
THEOREM NumbersOnce ==
  ASSUME Numbering!SequenceAssumption PROVE Numbering!Spec => []Numbering!NumbersKept
<1>1. NumberingInv => Numbering!NumbersKept
  <2> SUFFICES ASSUME NumberingInv PROVE Numbering!NumbersKept
    OBVIOUS
  <2>1. DOMAIN issued = 1..Len(issued) /\ Len(issued) \in Nat
        /\ \A i \in 1..Len(issued) : issued[i] \in Int
    BY DEF NumberingInv
  <2>2. \A n \in Numbering!Range(issued) : ~Numbering!TooLarge(n) /\ ~Numbering!TooSmall(n)
    BY <2>1 DEF Numbering!Range, NumberingInv, Between
  <2>3. ASSUME NEW i \in 1..Len(issued), NEW j \in 1..Len(issued), i # j
        PROVE  issued[i] # issued[j]
    <3>1. i < j \/ j < i
      BY <2>1, <2>3
    <3>2. Onward(issued[i], issued[j]) \/ Onward(issued[j], issued[i])
      BY <3>1 DEF NumberingInv
    <3> QED
      BY <2>1, <3>2 DEF Onward
  <2>4. Numbering!IsInjective(issued)
    BY <2>1, <2>3 DEF Numbering!IsInjective
  <2> QED
    BY <2>2, <2>4 DEF Numbering!NumbersKept
<1>2. NumberingInv /\ [Numbering!Next]_Numbering!sequenceVars => NumberingInv'
  BY NumberingStep
<1>3. Numbering!Init => NumberingInv
  BY NumberingStart
<1> QED
  BY <1>1, <1>2, <1>3, PTL DEF Numbering!Spec

-----------------------------------------------------------------------------
(***************************************************************************)
(* Windows.  Where the window kept is full, what was recorded in it is     *)
(* what was accepted; and the events of any window to which one more is    *)
(* added are still kept when it is.                                        *)
(***************************************************************************)
\* The window sums with its own copy of the definition.
LEMMA WindowSums ==
  /\ \A f : Window!SumFunction(f) = SumFunctionOnSet(f, DOMAIN f)
  /\ \A f, S : Window!SumFunctionOnSet(f, S) = SumFunctionOnSet(f, S)
BY DEF Window!SumFunction, Window!SumFunctionOnSet, SumFunctionOnSet,
       Window!FoldFunctionOnSet, FoldFunctionOnSet, Window!MapThenFoldSet, MapThenFoldSet

\* The times of a window that ends at t.
WindowTo(t) == {s \in Window!Times : s > t - windowMs /\ s <= t}

\* What holds of a window at every step.
WindowInv ==
  /\ timestamps \in [Window!Times -> Nat] /\ saved \in [Window!Times -> Nat]
  /\ accepted \in [Window!Times -> Nat] /\ clock \in Window!Times
  /\ regular =>
       /\ \A s \in Window!Times : s > clock => accepted[s] = 0
       /\ \A s \in Window!Times : s > clock - windowMs => timestamps[s] = accepted[s]
       /\ \A t \in Window!Times : SumFunctionOnSet(accepted, WindowTo(t)) <= maxEvents

\* The times are finitely many numbers.
LEMMA TimesAre ==
  ASSUME Window!WindowAssumption
  PROVE  /\ IsFiniteSet(Window!Times) /\ Window!Times \subseteq Nat
         /\ windowMs \in Nat /\ windowMs > 0 /\ maxEvents \in Nat /\ maxEvents > 0
         /\ \A t \in Window!Times : IsFiniteSet(WindowTo(t)) /\ WindowTo(t) \subseteq Window!Times
<1>1. windowMs \in Nat /\ windowMs > 0 /\ maxEvents \in Nat /\ maxEvents > 0 /\ MaxTime \in Nat
  BY DEF Window!WindowAssumption
<1>2. IsFiniteSet(Window!Times) /\ Window!Times \subseteq Nat
  <2>1. IsFiniteSet(0..MaxTime)
    BY <1>1, FS_Interval
  <2> QED
    BY <1>1, <2>1 DEF Window!Times
<1>3. ASSUME NEW t \in Window!Times
      PROVE  IsFiniteSet(WindowTo(t)) /\ WindowTo(t) \subseteq Window!Times
  <2>1. WindowTo(t) \subseteq Window!Times
    BY DEF WindowTo
  <2> QED
    BY <1>2, <2>1, FS_Subset
<1> QED
  BY <1>1, <1>2, <1>3

\* What is left of a bag when it is pruned.
LEMMA PrunedIs ==
  ASSUME Window!WindowAssumption, NEW bag \in [Window!Times -> Nat], NEW time \in Int
  PROVE  /\ Window!Pruned(bag, time) \in [Window!Times -> Nat]
         /\ \A t \in Window!Times : t > time - windowMs => Window!Pruned(bag, time)[t] = bag[t]
         /\ \A t \in Window!Times : ~ (t > time - windowMs) => Window!Pruned(bag, time)[t] = 0
         /\ Window!SumFunction(Window!Pruned(bag, time))
              = SumFunctionOnSet(Window!Pruned(bag, time), Window!Times)
         /\ SumFunctionOnSet(Window!Pruned(bag, time), Window!Times) \in Nat
<1>1. Window!Pruned(bag, time) \in [Window!Times -> Nat]
  BY DEF Window!Pruned
<1>2. DOMAIN Window!Pruned(bag, time) = Window!Times
  BY <1>1
<1>3. SumFunctionOnSet(Window!Pruned(bag, time), Window!Times) \in Nat
  BY <1>1, TimesAre, SumNatural
<1> QED
  BY <1>1, <1>2, <1>3, WindowSums DEF Window!Pruned

\* What is kept at the time of the clock.
LEMMA KeptIs ==
  ASSUME Window!WindowAssumption, WindowInv, NEW kept, kept = Window!Pruned(timestamps, clock)
  PROVE  /\ clock \in Window!Times /\ clock \in Nat
         /\ timestamps \in [Window!Times -> Nat] /\ kept \in [Window!Times -> Nat]
         /\ \A t \in Window!Times : t > clock - windowMs => kept[t] = timestamps[t]
         /\ \A t \in Window!Times : ~ (t > clock - windowMs) => kept[t] = 0
         /\ SumFunctionOnSet(kept, Window!Times) \in Nat
         /\ Window!SumFunction(kept) = SumFunctionOnSet(kept, Window!Times)
         /\ Window!Available(timestamps, clock) <=> SumFunctionOnSet(kept, Window!Times) < maxEvents
<1>1. timestamps \in [Window!Times -> Nat] /\ clock \in Int /\ clock \in Nat /\ clock \in Window!Times
  BY TimesAre DEF WindowInv
<1>2. /\ kept \in [Window!Times -> Nat]
      /\ \A t \in Window!Times : t > clock - windowMs => kept[t] = timestamps[t]
      /\ \A t \in Window!Times : ~ (t > clock - windowMs) => kept[t] = 0
      /\ SumFunctionOnSet(kept, Window!Times) \in Nat
      /\ Window!SumFunction(kept) = SumFunctionOnSet(kept, Window!Times)
  BY <1>1, PrunedIs
<1>3. Window!Available(timestamps, clock) <=> Window!SumFunction(kept) < maxEvents
  BY DEF Window!Available
<1> QED
  BY <1>1, <1>2, <1>3

\* Nothing has been recorded.
LEMMA WindowStart ==
  ASSUME Window!WindowAssumption PROVE Window!Init => WindowInv
<1> SUFFICES ASSUME Window!Init PROVE WindowInv
  OBVIOUS
<1>1. /\ timestamps = [t \in Window!Times |-> 0] /\ accepted = [t \in Window!Times |-> 0]
      /\ clock = 0 /\ 0 \in Window!Times
  BY DEF Window!Init, Window!NoEvents, Window!WindowAssumption, Window!Times
<1>2. saved \in [Window!Times -> Nat]
  BY <1>1, TimesAre DEF Window!Init, Window!NoEvents
<1>3. ASSUME NEW t \in Window!Times
      PROVE  SumFunctionOnSet(accepted, WindowTo(t)) <= maxEvents
  <2>1. \A s \in WindowTo(t) : accepted[s] = 0
    BY <1>1, TimesAre
  <2>2. SumFunctionOnSet(accepted, WindowTo(t)) = 0
    BY <2>1, TimesAre, SumZero
  <2> QED
    BY <2>2, TimesAre
<1> QED
  BY <1>1, <1>2, <1>3 DEF WindowInv

\* One more event at the time of the clock: every window that ends later holds no more
\* of what was accepted than is kept.
LEMMA RecordedFits ==
  ASSUME Window!WindowAssumption, WindowInv, regular, Window!Available(timestamps, clock),
         NEW after, after = [accepted EXCEPT ![clock] = @ + 1], NEW t \in Window!Times
  PROVE  SumFunctionOnSet(after, WindowTo(t)) <= maxEvents
<1> PICK kept : kept = Window!Pruned(timestamps, clock)
  OBVIOUS
<1>1. /\ clock \in Window!Times /\ clock \in Nat /\ t \in Nat
      /\ accepted \in [Window!Times -> Nat] /\ after \in [Window!Times -> Nat]
      /\ after[clock] = accepted[clock] + 1
      /\ \A s \in Window!Times : s # clock => after[s] = accepted[s]
      /\ IsFiniteSet(WindowTo(t)) /\ WindowTo(t) \subseteq Window!Times
      /\ IsFiniteSet(Window!Times) /\ maxEvents \in Nat
  BY TimesAre DEF WindowInv
<1>2. /\ kept \in [Window!Times -> Nat]
      /\ \A s \in Window!Times : s > clock - windowMs => kept[s] = accepted[s]
      /\ SumFunctionOnSet(kept, Window!Times) < maxEvents
      /\ SumFunctionOnSet(kept, Window!Times) \in Nat
  <2>1. /\ kept \in [Window!Times -> Nat]
        /\ \A s \in Window!Times : s > clock - windowMs => kept[s] = timestamps[s]
        /\ SumFunctionOnSet(kept, Window!Times) < maxEvents
        /\ SumFunctionOnSet(kept, Window!Times) \in Nat
    BY KeptIs
  <2> QED
    BY <2>1 DEF WindowInv
<1> PICK S : S = WindowTo(t)
  OBVIOUS
<1>5. IsFiniteSet(S) /\ S \subseteq Window!Times
  BY <1>1
<1>3. CASE clock \notin S
  <2>1. ASSUME NEW s \in S PROVE accepted[s] \in Int /\ after[s] = accepted[s]
    BY <1>1, <1>3, <1>5
  <2>2. SumFunctionOnSet(after, S) = SumFunctionOnSet(accepted, S)
    BY <1>5, <2>1, SumSame
  <2> QED
    BY <2>2 DEF WindowInv
<1>4. CASE clock \in S
  <2>1. ASSUME NEW s \in S
        PROVE  accepted[s] \in Int /\ kept[s] \in Int /\ accepted[s] = kept[s]
    <3>1. /\ s \in Nat /\ s > t - windowMs /\ clock <= t /\ windowMs \in Nat
          /\ s \in Window!Times
      BY <1>4, <1>5, TimesAre DEF WindowTo
    <3>2. s > clock - windowMs
      BY <1>1, <3>1
    <3> QED
      BY <1>1, <1>2, <3>1, <3>2
  <2>2. SumFunctionOnSet(after, S) = SumFunctionOnSet(accepted, S) + 1
    <3>1. \A s \in S : accepted[s] \in Int
      BY <2>1
    <3>2. \A s \in S : s # clock => after[s] = accepted[s]
      BY <1>1, <1>5
    <3>3. after[clock] = accepted[clock] + 1 /\ 1 \in Int
      BY <1>1
    <3> QED
      BY ONLY <1>4, <1>5, <3>1, <3>2, <3>3, SumChanges
  <2>3. SumFunctionOnSet(accepted, S) = SumFunctionOnSet(kept, S)
    BY <1>5, <2>1, SumSame
  <2>4. SumFunctionOnSet(kept, S) <= SumFunctionOnSet(kept, Window!Times)
    BY <1>1, <1>2, <1>5, SumSubset
  <2>5. SumFunctionOnSet(kept, S) \in Int
    <3>1. \A s \in S : kept[s] \in Int
      BY <2>1
    <3> QED
      BY <1>5, <3>1, SumType
  <2> QED
    BY <1>1, <1>2, <2>2, <2>3, <2>4, <2>5
<1> QED
  BY <1>3, <1>4

\* Whatever is recorded, saved, restored or reset while time passes.
LEMMA WindowStep ==
  ASSUME Window!WindowAssumption, WindowInv, [Window!Next]_Window!windowVars PROVE WindowInv'
<1>1. /\ timestamps \in [Window!Times -> Nat] /\ saved \in [Window!Times -> Nat]
      /\ accepted \in [Window!Times -> Nat] /\ clock \in Window!Times /\ clock \in Int
  BY TimesAre DEF WindowInv
<1>2. [t \in Window!Times |-> 0] \in [Window!Times -> Nat]
  OBVIOUS
<1>3. CASE UNCHANGED Window!windowVars
  BY <1>3 DEF Window!windowVars, WindowInv
<1>4. CASE Window!Save
  <2>1. /\ saved' = Window!Pruned(timestamps, clock) /\ timestamps' = saved'
        /\ UNCHANGED <<clock, accepted, regular>>
    BY <1>4 DEF Window!Save
  <2>2. saved' \in [Window!Times -> Nat]
        /\ \A s \in Window!Times : s > clock - windowMs => saved'[s] = timestamps[s]
    BY <1>1, <2>1, PrunedIs
  <2> QED
    BY <2>1, <2>2 DEF WindowInv
<1>5. CASE Window!Restore
  <2>1. timestamps' \in [Window!Times -> Nat]
    BY <1>1, <1>5, PrunedIs DEF Window!Restore
  <2> QED
    BY <1>1, <1>2, <1>5, <2>1 DEF WindowInv, Window!Restore, Window!NoEvents
<1>6. CASE Window!Reset
  BY <1>1, <1>2, <1>6 DEF WindowInv, Window!Reset, Window!NoEvents
<1>7. CASE Window!Tick
  <2>1. clock' = clock + 1 /\ clock' \in Window!Times /\ clock \in Nat
        /\ UNCHANGED <<timestamps, saved, accepted, regular>>
    BY <1>1, <1>7 DEF Window!Tick, Window!Times, Window!WindowAssumption
  <2>2. \A s \in Window!Times : (s > clock + 1 => s > clock)
           /\ (s > (clock + 1) - windowMs => s > clock - windowMs)
    BY <2>1, TimesAre
  <2> QED
    BY <2>1, <2>2 DEF WindowInv
<1>8. ASSUME NEW t \in Window!Times, Window!Record(t) PROVE WindowInv'
  <2> PICK kept : kept = Window!Pruned(timestamps, clock)
    OBVIOUS
  <2>1. /\ timestamps' = [kept EXCEPT ![t] = @ + 1] /\ Window!Available(timestamps, clock)
        /\ regular' = (regular /\ t = clock)
        /\ accepted' = IF regular' THEN [accepted EXCEPT ![t] = @ + 1]
                       ELSE [u \in Window!Times |-> 0]
        /\ UNCHANGED <<saved, clock>>
    BY <1>8 DEF Window!Record, Window!NoEvents
  <2>2. kept \in [Window!Times -> Nat]
        /\ \A s \in Window!Times : s > clock - windowMs => kept[s] = timestamps[s]
    BY <1>1, PrunedIs
  <2>3. timestamps' \in [Window!Times -> Nat] /\ accepted' \in [Window!Times -> Nat]
    BY <1>1, <1>2, <2>1, <2>2
  <2>4. CASE ~regular'
    BY <1>1, <2>1, <2>3, <2>4 DEF WindowInv
  <2>5. CASE regular'
    <3>1. regular /\ t = clock /\ accepted' = [accepted EXCEPT ![clock] = @ + 1]
      BY <2>1, <2>5
    <3>2. \A u \in Window!Times : SumFunctionOnSet(accepted', WindowTo(u)) <= maxEvents
      BY <2>1, <3>1, RecordedFits
    <3>3. \A s \in Window!Times : s > clock => accepted'[s] = 0
      BY <1>1, <3>1, TimesAre DEF WindowInv
    <3>4. \A s \in Window!Times : s > clock - windowMs => timestamps'[s] = accepted'[s]
      BY <1>1, <2>1, <2>2, <3>1 DEF WindowInv
    <3> QED
      BY <1>1, <2>1, <2>3, <3>2, <3>3, <3>4 DEF WindowInv, WindowTo
  <2> QED
    BY <2>4, <2>5
<1> QED
  BY <1>3, <1>4, <1>5, <1>6, <1>7, <1>8 DEF Window!Next

\* The event that is waited for is the oldest that is kept.
LEMMA OldestIs ==
  ASSUME Window!WindowAssumption, WindowInv, ~Window!Available(timestamps, clock),
         NEW kept, kept = Window!Pruned(timestamps, clock)
  PROVE  \E oldest \in Window!Times :
           /\ kept[oldest] > 0 /\ \A t \in Window!Times : kept[t] > 0 => oldest <= t
           /\ oldest > clock - windowMs /\ Window!Wait = (oldest + windowMs) - clock
           /\ Window!Wait \in Nat
<1> DEFINE P == {t \in Window!Times : kept[t] > 0}
<1>1. /\ clock \in Nat /\ kept \in [Window!Times -> Nat]
      /\ SumFunctionOnSet(kept, Window!Times) >= maxEvents
      /\ SumFunctionOnSet(kept, Window!Times) \in Nat
  BY KeptIs, TimesAre
<1>2. P # {}
  <2> SUFFICES ASSUME P = {} PROVE FALSE
    OBVIOUS
  <2>1. \A t \in Window!Times : kept[t] = 0
    BY <1>1
  <2>2. SumFunctionOnSet(kept, Window!Times) = 0
    BY <2>1, TimesAre, SumZero
  <2> QED
    BY <1>1, <2>2, TimesAre
<1>3. PICK m \in P : \A q \in P : m <= q
  <2>1. P \in SUBSET Nat
    BY TimesAre
  <2> HIDE DEF P
  <2> QED
    BY <1>2, <2>1, NatLeast
<1>4. P \subseteq Nat
  BY TimesAre
<1>5. Window!Min(P) = m
  <2>1. \A n \in P : (\A q \in P : n <= q) => n = m
    BY <1>3, <1>4
  <2> HIDE DEF P
  <2> QED
    BY <1>3, <2>1 DEF Window!Min
<1>6. m \in Window!Times /\ m \in Nat /\ kept[m] > 0 /\ m > clock - windowMs
  <2>1. m \in Window!Times /\ m \in Nat /\ kept[m] > 0 /\ kept[m] # 0
    BY <1>1, <1>3, <1>4
  <2> QED
    BY <2>1, KeptIs
<1> PICK w : w = (m + windowMs) - clock
  OBVIOUS
<1>7. w \in Nat /\ w > 0
  BY <1>1, <1>6, TimesAre
<1>8. Window!Max({0, w}) = w
  <2>1. \A n \in {0, w} : (\A q \in {0, w} : n >= q) => n = w
    BY <1>7
  <2>2. w \in {0, w} /\ \A q \in {0, w} : w >= q
    BY <1>7
  <2> QED
    BY <2>1, <2>2 DEF Window!Max
<1>9. Window!Wait = w
  <2>1. Window!Wait = Window!Max({0, Window!Min(P) + windowMs - clock})
    BY DEF Window!Wait
  <2>2. m + windowMs - clock = w
    BY <1>1, <1>6, TimesAre
  <2>3. Window!Wait = Window!Max({0, m + windowMs - clock})
    BY <1>5, <2>1
  <2> QED
    BY <1>8, <2>2, <2>3
<1> QED
  BY <1>3, <1>6, <1>7, <1>9

\* There is room when that event has left, and not before.
LEMMA WaitExact ==
  ASSUME Window!WindowAssumption, WindowInv,
         Window!SumFunction(Window!Pruned(timestamps, clock)) <= maxEvents
  PROVE  /\ Window!Available(timestamps, clock + Window!Wait)
         /\ \A sooner \in 0..(Window!Wait - 1) : ~Window!Available(timestamps, clock + sooner)
<1> PICK kept : kept = Window!Pruned(timestamps, clock)
  OBVIOUS
<1>1. /\ clock \in Nat /\ kept \in [Window!Times -> Nat]
      /\ timestamps \in [Window!Times -> Nat]
      /\ \A t \in Window!Times : t > clock - windowMs => kept[t] = timestamps[t]
      /\ \A t \in Window!Times : ~ (t > clock - windowMs) => kept[t] = 0
      /\ SumFunctionOnSet(kept, Window!Times) <= maxEvents
      /\ SumFunctionOnSet(kept, Window!Times) \in Nat
      /\ Window!SumFunction(kept) = SumFunctionOnSet(kept, Window!Times)
      /\ IsFiniteSet(Window!Times) /\ Window!Times \subseteq Nat
      /\ maxEvents \in Nat /\ windowMs \in Nat
  <2>1. SumFunctionOnSet(kept, Window!Times) = Window!SumFunction(kept)
    BY KeptIs
  <2> QED
    BY <2>1, KeptIs, TimesAre
<1>2. CASE Window!Available(timestamps, clock)
  <2>1. Window!Wait = 0
    BY <1>2 DEF Window!Wait
  <2>2. clock + 0 = clock /\ 0..(0 - 1) = {}
    BY <1>1
  <2> QED
    BY <1>2, <2>1, <2>2
<1>3. CASE ~Window!Available(timestamps, clock)
  <2>1. PICK oldest \in Window!Times :
           /\ kept[oldest] > 0 /\ \A t \in Window!Times : kept[t] > 0 => oldest <= t
           /\ oldest > clock - windowMs /\ Window!Wait = (oldest + windowMs) - clock
           /\ Window!Wait \in Nat
    BY <1>3, OldestIs
  <2>2. SumFunctionOnSet(kept, Window!Times) >= maxEvents
    BY <1>1, <1>3 DEF Window!Available
  <2>3. Window!Available(timestamps, clock + Window!Wait)
    <3> PICK time : time = clock + Window!Wait
      OBVIOUS
    <3>1. time \in Int /\ time - windowMs = oldest /\ oldest \in Nat
      BY <1>1, <2>1
    <3> PICK left : left = Window!Pruned(timestamps, time)
      OBVIOUS
    <3>2. /\ left \in [Window!Times -> Nat]
          /\ \A t \in Window!Times : t > oldest => left[t] = timestamps[t]
          /\ \A t \in Window!Times : ~ (t > oldest) => left[t] = 0
          /\ Window!SumFunction(left) = SumFunctionOnSet(left, Window!Times)
      BY <1>1, <3>1, PrunedIs
    <3>3. \A t \in Window!Times : left[t] \in Int /\ kept[t] \in Int /\ left[t] <= kept[t]
      <4> SUFFICES ASSUME NEW t \in Window!Times PROVE left[t] <= kept[t]
        BY <1>1, <3>2
      <4>1. CASE t > oldest
        <5>1. t > clock - windowMs
          BY <1>1, <2>1, <3>1, <4>1
        <5> QED
          BY <1>1, <3>2, <4>1, <5>1
      <4>2. CASE ~ (t > oldest)
        BY <1>1, <3>2, <4>2
      <4> QED
        BY <4>1, <4>2
    <3>4. left[oldest] < kept[oldest]
      BY <2>1, <3>1, <3>2
    <3>5. SumFunctionOnSet(left, Window!Times) < SumFunctionOnSet(kept, Window!Times)
      BY ONLY <1>1, <3>3, <3>4, oldest \in Window!Times, SumStrict
    <3>6. SumFunctionOnSet(left, Window!Times) \in Int
      BY <1>1, <3>3, SumType
    <3>7. Window!SumFunction(left) < maxEvents
      BY <1>1, <3>2, <3>5, <3>6
    <3> QED
      BY <3>7 DEF Window!Available
  <2>4. ASSUME NEW sooner \in 0..(Window!Wait - 1)
        PROVE  ~Window!Available(timestamps, clock + sooner)
    <3> PICK time : time = clock + sooner
      OBVIOUS
    <3>1. time \in Int /\ time - windowMs < oldest /\ time >= clock /\ oldest \in Nat
      BY <1>1, <2>1
    <3> PICK left : left = Window!Pruned(timestamps, time)
      OBVIOUS
    <3>2. /\ left \in [Window!Times -> Nat]
          /\ \A t \in Window!Times : t > time - windowMs => left[t] = timestamps[t]
          /\ \A t \in Window!Times : ~ (t > time - windowMs) => left[t] = 0
          /\ Window!SumFunction(left) = SumFunctionOnSet(left, Window!Times)
      BY <1>1, <3>1, PrunedIs
    <3>3. ASSUME NEW t \in Window!Times PROVE left[t] = kept[t] /\ kept[t] \in Int
      <4>1. t \in Nat /\ kept[t] \in Nat
        BY <1>1
      <4>2. CASE kept[t] > 0
        <5>1. oldest <= t /\ t > clock - windowMs
          BY <1>1, <2>1, <4>2
        <5>2. t > time - windowMs
          BY <1>1, <3>1, <4>1, <5>1
        <5> QED
          BY <1>1, <3>2, <5>1, <5>2
      <4>3. CASE kept[t] = 0
        <5>1. CASE t > time - windowMs
          <6>1. t > clock - windowMs
            BY <1>1, <3>1, <4>1, <5>1
          <6> QED
            BY <1>1, <3>2, <5>1, <6>1
        <5>2. CASE ~ (t > time - windowMs)
          BY <3>2, <4>3, <5>2
        <5> QED
          BY <5>1, <5>2
      <4> QED
        BY <4>1, <4>2, <4>3
    <3>4. SumFunctionOnSet(left, Window!Times) = SumFunctionOnSet(kept, Window!Times)
      BY <1>1, <3>3, SumSame
    <3>5. ~ (Window!SumFunction(left) < maxEvents)
      BY <1>1, <2>2, <3>2, <3>4
    <3> QED
      BY <3>5 DEF Window!Available
  <2> QED
    BY <2>3, <2>4
<1> QED
  BY <1>2, <1>3

(***************************************************************************)
(* For any window and any bound: no window holds more events than it may,  *)
(* if they are recorded as they happen, and msUntilAvailable is exact      *)
(* unless more has been restored than fits (sliding-window.ts).            *)
(***************************************************************************)
THEOREM WindowBounds ==
  ASSUME Window!WindowAssumption PROVE Window!Spec => []Window!WindowKept
<1>1. WindowInv => Window!WindowKept
  <2> SUFFICES ASSUME WindowInv PROVE Window!WindowKept
    OBVIOUS
  <2>1. regular => \A t \in Window!Times :
          Window!SumFunctionOnSet(accepted, {s \in Window!Times : s > t - windowMs /\ s <= t})
            <= maxEvents
    BY WindowSums DEF WindowInv, WindowTo
  <2> QED
    BY <2>1, WaitExact DEF Window!WindowKept
<1>2. WindowInv /\ [Window!Next]_Window!windowVars => WindowInv'
  BY WindowStep
<1>3. Window!Init => WindowInv
  BY WindowStart
<1> QED
  BY <1>1, <1>2, <1>3, PTL DEF Window!Spec

-----------------------------------------------------------------------------
(***************************************************************************)
(* Retries.  There is one error more than attempts were left behind, until *)
(* the next attempt begins, and no sleep without an error.                 *)
(***************************************************************************)
PolicyInv ==
  /\ attempt \in 0..maxRetries /\ errors \in Nat /\ slept \in Seq(0..maxDelayMs)
  /\ doing = "sleeping" => attempt < maxRetries
  /\ doing \in {"calling", "sleeping"} => outcome = "none"
  /\ Len(slept) = attempt + (IF doing = "sleeping" \/ outcome = "aborted" THEN 1 ELSE 0)
  /\ doing = "calling" => errors = attempt
  /\ doing = "sleeping" => errors = attempt + 1
  /\ outcome = "exhausted" => errors = maxRetries + 1

\* No delay is out of its bounds, whatever was computed.
LEMMA DelaysBounded ==
  ASSUME Policy!RetryAssumption PROVE Policy!Computed \subseteq 0..maxDelayMs
<1>1. maxDelayMs \in Nat
  BY DEF Policy!RetryAssumption
<1> SUFFICES ASSUME NEW delay \in (0..Policy!Backoff) \cup Delays
             PROVE  Policy!Max({0, Policy!Min({delay, maxDelayMs})}) \in 0..maxDelayMs
  BY DEF Policy!Computed
<1>2. delay \in Int
  BY DEF Policy!RetryAssumption
<1> PICK least : least = (IF delay <= maxDelayMs THEN delay ELSE maxDelayMs)
  OBVIOUS
<1>3. Policy!Min({delay, maxDelayMs}) = least
  <2>1. \A n \in {delay, maxDelayMs} : (\A q \in {delay, maxDelayMs} : n <= q) => n = least
    BY <1>1, <1>2
  <2>2. least \in {delay, maxDelayMs} /\ \A q \in {delay, maxDelayMs} : least <= q
    BY <1>1, <1>2
  <2> QED
    BY <2>1, <2>2 DEF Policy!Min
<1> PICK most : most = (IF least <= 0 THEN 0 ELSE least)
  OBVIOUS
<1>4. Policy!Max({0, least}) = most
  <2>1. \A n \in {0, least} : (\A q \in {0, least} : n >= q) => n = most
    BY <1>1, <1>2
  <2>2. most \in {0, least} /\ \A q \in {0, least} : most >= q
    BY <1>1, <1>2
  <2> QED
    BY <2>1, <2>2 DEF Policy!Max
<1> QED
  BY <1>1, <1>2, <1>3, <1>4

\* The first attempt.
LEMMA PolicyStart == ASSUME Policy!RetryAssumption PROVE Policy!Init => PolicyInv
<1>1. <<>> \in Seq(0..maxDelayMs) /\ Len(<<>>) = 0
  OBVIOUS
<1> QED
  BY <1>1 DEF Policy!Init, PolicyInv, Policy!RetryAssumption

\* Calls, sleeps and aborts.
LEMMA PolicyStep ==
  ASSUME Policy!RetryAssumption, PolicyInv, [Policy!Next]_Policy!retryVars PROVE PolicyInv'
<1>1. maxRetries \in Nat /\ maxDelayMs \in Nat /\ attempt \in Nat /\ Len(slept) \in Nat
  BY DEF Policy!RetryAssumption, PolicyInv
<1>2. CASE UNCHANGED Policy!retryVars
  BY <1>2 DEF Policy!retryVars, PolicyInv
<1>3. CASE Policy!Succeed
  BY <1>1, <1>3 DEF Policy!Succeed, Policy!End, PolicyInv
<1>4. CASE Policy!GiveUp
  BY <1>1, <1>4 DEF Policy!GiveUp, Policy!End, PolicyInv
<1>5. CASE Policy!Sleep
  <2>1. PICK delay \in 0..maxDelayMs : slept' = Append(slept, delay)
    BY <1>5, DelaysBounded DEF Policy!Sleep
  <2>2. slept' \in Seq(0..maxDelayMs) /\ Len(slept') = Len(slept) + 1
    BY <2>1 DEF PolicyInv
  <2> QED
    BY <1>1, <1>5, <2>2 DEF Policy!Sleep, PolicyInv
<1>6. CASE Policy!Again
  BY <1>1, <1>6 DEF Policy!Again, PolicyInv
<1>7. CASE Policy!Abort
  BY <1>1, <1>7 DEF Policy!Abort, Policy!End, PolicyInv
<1> QED
  BY <1>2, <1>3, <1>4, <1>5, <1>6, <1>7 DEF Policy!Next

\* What the inductive invariant says of the property.
LEMMA PolicyBounded == PolicyInv => Policy!RetriesBounded
<1> SUFFICES ASSUME PolicyInv PROVE Policy!RetriesBounded
  OBVIOUS
<1> PICK delays : delays = 0..maxDelayMs
  OBVIOUS
<1>1. slept \in Seq(delays)
  BY DEF PolicyInv
<1>2. DOMAIN slept = 1..Len(slept)
  BY <1>1
<1>3. ASSUME NEW i \in 1..Len(slept) PROVE slept[i] \in delays
  BY ONLY <1>1, <1>2
<1> QED
  BY <1>2, <1>3 DEF PolicyInv, Policy!RetriesBounded

-----------------------------------------------------------------------------
(***************************************************************************)
(* Checkpoints of imports.  What importers hold tells of errors as what is *)
(* stored does.                                                            *)
(***************************************************************************)
TellsErrors(c) ==
  c # None => /\ c \in Importing!Checkpoint
              /\ c.status = "active" => ~c.lastError
              /\ c.status = "failed" => c.lastError

\* What is stored and what is held.
ImportingInv == /\ TellsErrors(progress)
                /\ DOMAIN progressCopy = Importers
                /\ \A i \in Importers : TellsErrors(progressCopy[i])

\* Nothing is stored.
LEMMA ImportingStart == Importing!Init => ImportingInv
BY DEF Importing!Init, ImportingInv, TellsErrors

\* An importer that holds another checkpoint.
LEMMA HoldsKept ==
  ASSUME ImportingInv, NEW i \in Importers, NEW c, TellsErrors(c),
         Importing!Holds(i, c), UNCHANGED progress
  PROVE  ImportingInv'
<1>1. /\ progressCopy' = [progressCopy EXCEPT ![i] = c]
      /\ progress' = progress
  BY DEF Importing!Holds
<1>2. \A j \in Importers : progressCopy'[j] = IF j = i THEN c ELSE progressCopy[j]
  BY <1>1 DEF ImportingInv
<1>3. TellsErrors(progress') /\ \A j \in Importers : TellsErrors(progressCopy'[j])
  BY <1>1, <1>2 DEF ImportingInv
<1>4. DOMAIN progressCopy' = Importers
  BY <1>1 DEF ImportingInv
<1> QED
  BY <1>3, <1>4 DEF ImportingInv, TellsErrors

\* Whatever importers save over each other.
LEMMA ImportingStep ==
  ASSUME ImportingInv, [Importing!Next]_Importing!syncVars PROVE ImportingInv'
<1>1. CASE UNCHANGED Importing!syncVars
  BY <1>1 DEF Importing!syncVars, ImportingInv, TellsErrors
<1> SUFFICES ASSUME NEW i \in Importers,
                    \/ Importing!Create(i) \/ Importing!LoadCheckpoint(i) \/ Importing!Advance(i)
                    \/ Importing!MarkFailed(i) \/ Importing!MarkStale(i)
                    \/ Importing!SaveCheckpoint(i)
             PROVE  ImportingInv'
  BY <1>1 DEF Importing!Next
<1>2. CASE Importing!Create(i) \/ Importing!Advance(i)
  <2>1. UNCHANGED progress
    BY <1>2 DEF Importing!Create, Importing!Advance
  <2>2. PICK cursor \in 0..MaxCursor :
          Importing!Holds(i, [cursor |-> cursor, status |-> "active", lastError |-> FALSE])
    <3>1. CASE Importing!Create(i)
      BY <3>1 DEF Importing!Create
    <3>2. CASE Importing!Advance(i)
      <4>1. PICK cursor \in (progressCopy[i].cursor)..MaxCursor :
              Importing!Holds(i, [cursor |-> cursor, status |-> "active", lastError |-> FALSE])
        BY <3>2 DEF Importing!Advance
      <4>2. progressCopy[i].cursor \in Nat
        BY <3>2 DEF Importing!Advance, ImportingInv, TellsErrors, Importing!Checkpoint
      <4>3. cursor \in 0..MaxCursor
        BY <4>2
      <4> QED
        BY <4>1, <4>3
    <3> QED
      BY <1>2, <3>1, <3>2
  <2> PICK c : c = [cursor |-> cursor, status |-> "active", lastError |-> FALSE]
    OBVIOUS
  <2>3. TellsErrors(c)
    BY DEF TellsErrors, Importing!Checkpoint
  <2> QED
    BY <2>1, <2>2, <2>3, HoldsKept
<1>3. CASE Importing!LoadCheckpoint(i)
  BY <1>3, HoldsKept DEF Importing!LoadCheckpoint, ImportingInv
<1>4. CASE Importing!MarkFailed(i)
  <2> PICK c : c = [progressCopy[i] EXCEPT !.status = "failed", !.lastError = TRUE]
    OBVIOUS
  <2>1. UNCHANGED progress /\ Importing!Holds(i, c) /\ progressCopy[i] \in Importing!Checkpoint
    BY <1>4 DEF Importing!MarkFailed, ImportingInv, TellsErrors
  <2>2. c \in Importing!Checkpoint /\ c.status = "failed" /\ c.lastError = TRUE
    BY <2>1 DEF Importing!Checkpoint
  <2>3. TellsErrors(c)
    BY <2>2 DEF TellsErrors
  <2> QED
    BY <2>1, <2>3, HoldsKept
<1>5. CASE Importing!MarkStale(i)
  <2> DEFINE checkpoint == progressCopy[i]
  <2>1. UNCHANGED progress /\ checkpoint \in Importing!Checkpoint
    <3>1. progressCopy[i] # None /\ UNCHANGED progress
      BY <1>5, Zenon DEF Importing!MarkStale
    <3> QED
      BY <3>1 DEF ImportingInv, TellsErrors
  <2>2. \E error \in BOOLEAN :
          Importing!Holds(i, [checkpoint EXCEPT !.status = "stale",
                                                !.lastError = checkpoint.lastError \/ error])
    BY <1>5, Zenon DEF Importing!MarkStale
  <2>3. PICK c : c \in Importing!Checkpoint /\ c.status = "stale" /\ Importing!Holds(i, c)
    <3>1. PICK error \in BOOLEAN :
          Importing!Holds(i, [checkpoint EXCEPT !.status = "stale",
                                                !.lastError = checkpoint.lastError \/ error])
      BY <2>2, Zenon
    <3>2. PICK failed \in BOOLEAN : failed = (checkpoint.lastError \/ error)
      OBVIOUS
    <3>3. PICK c : c = [checkpoint EXCEPT !.status = "stale", !.lastError = failed]
      OBVIOUS
    <3>4. c \in Importing!Checkpoint /\ c.status = "stale"
      BY ONLY <2>1, <3>2, <3>3 DEF Importing!Checkpoint
    <3>5. Importing!Holds(i, c)
      BY ONLY <3>1, <3>2, <3>3, Zenon
    <3> QED
      BY <3>4, <3>5
  <2>4. TellsErrors(c)
    BY <2>3 DEF TellsErrors
  <2> QED
    BY <2>1, <2>3, <2>4, HoldsKept
<1>6. CASE Importing!SaveCheckpoint(i)
  BY <1>6 DEF Importing!SaveCheckpoint, ImportingInv, TellsErrors
<1> QED
  BY <1>2, <1>3, <1>4, <1>5, <1>6

-----------------------------------------------------------------------------
(***************************************************************************)
(* The five primitives of the run together, for every value of their       *)
(* constants: windows and their waiting time, retries and their delays,    *)
(* numbers, checkpoints of imports and lazy values (primitives/*.ts).      *)
(***************************************************************************)
THEOREM PrimitivesStayKept ==
  ASSUME Window!WindowAssumption, Policy!RetryAssumption, Numbering!SequenceAssumption,
         Making!LazyAssumption
  PROVE  Window!Spec /\ Policy!Spec /\ Numbering!Spec /\ Importing!Spec /\ Making!Spec
           => []PrimitivesKept
<1>1. Window!Spec => []Window!WindowKept
  BY WindowBounds
<1>2. Numbering!Spec => []Numbering!NumbersKept
  BY NumbersOnce
<1>3. Making!Spec => []Making!LazyOnce
  BY LazyMadeOnce
<1>4. Policy!Spec => []Policy!RetriesBounded
  <2>1. PolicyInv /\ [Policy!Next]_Policy!retryVars => PolicyInv'
    BY PolicyStep
  <2>2. Policy!Init => PolicyInv
    BY PolicyStart
  <2> QED
    BY <2>1, <2>2, PolicyBounded, PTL DEF Policy!Spec
<1>5. Importing!Spec => []Importing!ErrorsTold
  <2>1. ImportingInv /\ [Importing!Next]_Importing!syncVars => ImportingInv'
    BY ImportingStep
  <2>2. ImportingInv => Importing!ErrorsTold
    BY DEF ImportingInv, TellsErrors, Importing!ErrorsTold
  <2> QED
    BY <2>1, <2>2, ImportingStart, PTL DEF Importing!Spec
<1>6. Window!WindowKept /\ Policy!RetriesBounded /\ Numbering!NumbersKept
        /\ Importing!ErrorsTold /\ Making!LazyOnce => PrimitivesKept
  BY DEF PrimitivesKept
<1> QED
  BY <1>1, <1>2, <1>3, <1>4, <1>5, <1>6, PTL
-----------------------------------------------------------------------------
(***************************************************************************)
(* Upgrades of packages.  What the findings of a comparison leave out is   *)
(* what does not change, or what nobody relied on.                         *)
(***************************************************************************)
PackageVersions == [version : Version, workflow : Workflow, schema : Schema]

\* No version comes before itself, or both before and after another.
LEMMA VersionsOrdered ==
  ASSUME CompatibilityAssumption, NEW v \in Version, NEW w \in Version
  PROVE  ~(Before(v, w) /\ Before(w, v))
<1>1. /\ v.major \in Nat /\ v.minor \in Nat /\ v.patch \in Nat /\ v.pre \in Nat \cup {None}
      /\ w.major \in Nat /\ w.minor \in Nat /\ w.patch \in Nat /\ w.pre \in Nat \cup {None}
  BY DEF Version
<1>2. ~(PreBefore(v.pre, w.pre) /\ PreBefore(w.pre, v.pre))
  BY <1>1 DEF PreBefore, CompatibilityAssumption
<1> QED
  BY <1>1, <1>2 DEF Before

\* Within a major version nothing is found that breaks.
LEMMA MinorUnbroken ==
  ASSUME NEW from \in PackageVersions, NEW to \in PackageVersions, Minor(from, to)
  PROVE  /\ "breaking" \notin WorkflowFindings(from.workflow, to.workflow)
         /\ "breaking" \notin SchemaFindings(from.schema, to.schema)
         /\ RequiredBump(from, to) # 3
<1>1. Bump(from.version, to.version) \in {0, 1, 2}
  BY DEF Minor, Bump
<1>2. Bump(from.version, to.version) >= RequiredBump(from, to)
  BY DEF Minor, UpgradeAllowed
<1>3. RequiredBump(from, to) \in {1, 2, 3}
  BY DEF RequiredBump
<1>4. RequiredBump(from, to) # 3
  BY <1>1, <1>2, <1>3
<1> QED
  BY <1>4 DEF RequiredBump

\* A field that is compared with nothing to say is not stricter than before.
LEMMA FieldKept ==
  ASSUME CompatibilityAssumption, NEW f \in Field, NEW g \in Field, NEW value \in Value,
         "breaking" \notin FieldFindings(f, g), Fits(f, value)
  PROVE  Fits(g, value)
<1>1. f.kind = g.kind
  BY DEF FieldFindings
<1>2. CASE f.kind = "enum"
  <2>1. "breaking" \notin SetFindings(f.values, g.values, "info")
    BY <1>1, <1>2 DEF FieldFindings
  <2>2. f.values \subseteq g.values
    BY <2>1 DEF SetFindings
  <2> QED
    BY <1>1, <1>2, <2>2 DEF Fits
<1>3. CASE f.kind = "number"
  BY <1>1, <1>3 DEF Fits
<1>4. CASE f.kind \in {"string", "array"}
  <2>1. "breaking" \notin MinimumFindings(f.size, g.size)
    BY <1>1, <1>4 DEF FieldFindings
  <2>2. ~(g.size > f.size)
    BY <2>1 DEF MinimumFindings
  <2>3. f.size \in Nat /\ g.size \in Nat /\ value.size \in Nat
    BY DEF Field, Value, CompatibilityAssumption
  <2>4. value.kind = f.kind /\ value.size >= f.size
    BY <1>4 DEF Fits
  <2> QED
    BY <1>1, <1>4, <2>2, <2>3, <2>4 DEF Fits
<1> QED
  BY <1>2, <1>3, <1>4 DEF Field, Kinds

\* What a schema accepts is accepted by one that is compared with nothing to say.
LEMMA SchemasKept ==
  ASSUME CompatibilityAssumption, NEW from \in Schema, NEW to \in Schema,
         "breaking" \notin SchemaFindings(from, to),
         ~(from.additional /\ \E n \in Names : from.fields[n] = None /\ to.fields[n] # None)
  PROVE  SchemaKept(from, to)
<1> SUFFICES ASSUME NEW fields \in FieldSets, Accepts(from, fields), NEW n \in Names
             PROVE  LET field == to.fields[n]
                        value == fields[n]
                    IN  IF value = None THEN field # None => ~field.required
                        ELSE IF field = None THEN to.additional ELSE Fits(field, value)
  BY DEF SchemaKept, Accepts
<1> PICK f : f = from.fields[n]
  OBVIOUS
<1> PICK g : g = to.fields[n]
  OBVIOUS
<1> PICK value : value = fields[n]
  OBVIOUS
<1>1. f \in Field \cup {None} /\ g \in Field \cup {None} /\ value \in Value \cup {None}
  BY DEF Schema, FieldSets
<1>2. IF value = None THEN f # None => ~f.required
      ELSE IF f = None THEN from.additional ELSE Fits(f, value)
  BY DEF Accepts
<1>3. "breaking" \notin NameFindings(f, g)
  BY DEF SchemaFindings
<1>4. from.additional => to.additional
  BY DEF SchemaFindings
<1>5. ~(from.additional /\ f = None /\ g # None)
  OBVIOUS
<1>6. CASE f = None /\ g = None
  BY <1>2, <1>4, <1>6
<1>7. CASE f # None /\ g = None
  BY <1>3, <1>7 DEF NameFindings
<1>8. CASE f = None /\ g # None
  BY <1>2, <1>3, <1>5, <1>8 DEF NameFindings
<1>9. CASE f # None /\ g # None
  <2>1. "breaking" \notin FieldFindings(f, g)
    BY <1>3, <1>9 DEF NameFindings
  <2>2. g.required => f.required
    BY <2>1 DEF FieldFindings
  <2>3. value # None => Fits(g, value)
    BY <1>1, <1>2, <1>9, <2>1, FieldKept
  <2> QED
    BY <1>2, <1>9, <2>2, <2>3
<1> QED
  BY <1>6, <1>7, <1>8, <1>9

\* What a work item may do in a workflow it may in one that is compared with nothing to say.
LEMMA WorkflowsKept ==
  ASSUME NEW from \in Workflow, NEW to \in Workflow,
         "breaking" \notin WorkflowFindings(from, to),
         ~\E t \in from.transitions, u \in to.transitions :
            <<t.action, t.from, t.to>> = <<u.action, u.from, u.to>> /\ ~(u.requires \subseteq t.requires)
  PROVE  WorkflowKept(from, to)
<1>1. from.initial = to.initial
  BY DEF WorkflowFindings
<1>2. from.closed = to.closed
  <2>1. "breaking" \notin SetFindings(from.closed, to.closed, "breaking")
    BY DEF WorkflowFindings
  <2> QED
    BY <2>1 DEF SetFindings
<1>3. TransitionKeys(from) \subseteq TransitionKeys(to)
  <2>1. "breaking" \notin SetFindings(TransitionKeys(from), TransitionKeys(to), "info")
    BY DEF WorkflowFindings
  <2> QED
    BY <2>1 DEF SetFindings
<1>4. ASSUME NEW state \in from.states, NEW action \in Actions, NEW present \in SUBSET Names,
             NEW next \in Outcomes(from, state, action, present)
      PROVE  next \in Outcomes(to, state, action, present)
  <2>1. PICK t \in from.transitions :
          /\ t.from = state /\ t.action = action /\ state \notin from.closed
          /\ t.requires \subseteq present /\ t.to = next
    BY DEF Outcomes
  <2>2. <<t.action, t.from, t.to>> \in TransitionKeys(to)
    BY <1>3 DEF TransitionKeys
  <2>3. PICK u \in to.transitions : <<t.action, t.from, t.to>> = <<u.action, u.from, u.to>>
    BY <2>2 DEF TransitionKeys
  <2>4. u.requires \subseteq t.requires
    BY <2>3
  <2>5. u.from = state /\ u.action = action /\ u.to = next
    BY <2>1, <2>3
  <2> QED
    BY <1>2, <2>1, <2>4, <2>5 DEF Outcomes
<1> QED
  BY <1>1, <1>4 DEF WorkflowKept

(***************************************************************************)
(* For any two versions of a package, with any fields, sizes, states and   *)
(* actions: upgrades go one way only, and one within a major version keeps *)
(* what was valid and what a work item could do, but for the changes that  *)
(* the comparison overlooks (package-compatibility.ts).                    *)
(***************************************************************************)
THEOREM UpgradesAreSound ==
  ASSUME CompatibilityAssumption, NEW from \in PackageVersions, NEW to \in PackageVersions
  PROVE  pair = <<from, to>> => UpgradesSound
<1> SUFFICES ASSUME pair = <<from, to>> PROVE UpgradesSound
  OBVIOUS
<1>1. /\ from.version \in Version /\ from.workflow \in Workflow /\ from.schema \in Schema
      /\ to.version \in Version /\ to.workflow \in Workflow /\ to.schema \in Schema
  BY DEF PackageVersions
<1>2. ~(UpgradeAllowed(from, to) /\ UpgradeAllowed(to, from))
  BY <1>1, VersionsOrdered DEF UpgradeAllowed
<1>3. ASSUME Minor(from, to)
      PROVE  /\ EvolutionStatus(from, to, {}) = "compatible"
             /\ ~Overlooked(from, to) => /\ SchemaKept(from.schema, to.schema)
                                         /\ WorkflowKept(from.workflow, to.workflow)
  <2>1. /\ "breaking" \notin WorkflowFindings(from.workflow, to.workflow)
        /\ "breaking" \notin SchemaFindings(from.schema, to.schema)
        /\ RequiredBump(from, to) # 3
    BY <1>3, MinorUnbroken
  <2>2. EvolutionStatus(from, to, {}) = "compatible"
    BY <2>1 DEF EvolutionStatus, RequiredKinds
  <2>3. ASSUME ~Overlooked(from, to) PROVE SchemaKept(from.schema, to.schema)
    BY <1>1, <2>1, <2>3, SchemasKept DEF Overlooked
  <2>4. ASSUME ~Overlooked(from, to) PROVE WorkflowKept(from.workflow, to.workflow)
    BY <1>1, <2>1, <2>4, WorkflowsKept DEF Overlooked
  <2> QED
    BY <2>2, <2>3, <2>4
<1>4. pair[1] = from /\ pair[2] = to
  OBVIOUS
<1> QED
  BY <1>2, <1>3, <1>4 DEF UpgradesSound
-----------------------------------------------------------------------------
(***************************************************************************)
(* Contracts.  What is compared with nothing that breaks, and leaves       *)
(* nothing unsaid, is read.                                                *)
(***************************************************************************)
Fitting(r, w) == /\ r.type # None => w.type = r.type
                 /\ r.const # None => w.const = r.const

\* Between two nodes.
LEMMA NodesFit ==
  ASSUME NEW r, NEW w, \A f \in Rules!NodeFindings(r, w) : f.severity # "breaking",
         ~Rules!LessSaid(r, w)
  PROVE  Fitting(r, w)
<1>1. \A code : Rules!Breaking(code).severity = "breaking"
  BY DEF Rules!Breaking
<1>2. ~Rules!Differ(r.type, w.type) /\ ~Rules!Differ(r.const, w.const)
  BY <1>1 DEF Rules!NodeFindings
<1> QED
  BY <1>2 DEF Rules!Differ, Rules!LessSaid, Fitting

\* What a leaf accepts, one that it fits accepts.
LEMMA LeavesRead ==
  ASSUME NEW r, NEW w, NEW v, Fitting(r, w), Rules!LeafAccepts(w, v)
  PROVE  Rules!LeafAccepts(r, v)
BY DEF Fitting, Rules!LeafAccepts

\* What an object says of the value of one property, None if there is none.
Admits(o, n, value) ==
  /\ value = None => n \notin o.required
  /\ value # None => IF o.properties[n] = None THEN ~o.closed
                     ELSE Rules!LeafAccepts(o.properties[n], value)

\* A reader that takes no other properties is given none.
LEMMA ClosedKept ==
  ASSUME NEW reader, NEW writer, reader.type = "object", writer.type = "object",
         \A f \in Rules!ObjectFindings(reader, writer) : f.severity # "breaking", reader.closed
  PROVE  writer.closed
<1> SUFFICES ASSUME ~writer.closed PROVE FALSE
  OBVIOUS
<1>1. Rules!Closed(reader) /\ ~Rules!Closed(writer)
  BY Zenon DEF Rules!Closed
<1>2. Rules!Breaking("additional_properties_restricted") \in Rules!ObjectFindings(reader, writer)
  BY <1>1, Zenon DEF Rules!ObjectFindings
<1>3. Rules!Breaking("additional_properties_restricted").severity = "breaking"
  BY DEF Rules!Breaking
<1> QED
  BY <1>2, <1>3

\* Property by property.
LEMMA PropertyRead ==
  ASSUME NEW reader \in Rules!Object, NEW writer \in Rules!Object, NEW n \in PropertyNames,
         reader # None, writer # None,
         \A f \in Rules!ObjectFindings(reader, writer) : f.severity # "breaking",
         ~Rules!Unsaid(reader, writer), NEW value, Admits(writer, n, value)
  PROVE  Admits(reader, n, value)
<1> PICK r : r = reader.properties[n]
  OBVIOUS
<1> PICK w : w = writer.properties[n]
  OBVIOUS
<1>1. \A code : Rules!Breaking(code).severity = "breaking"
  BY DEF Rules!Breaking
<1>2. reader.type = "object" /\ writer.type = "object"
  BY DEF Rules!Object
<1>3. /\ Rules!Properties(reader)[n] = r /\ Rules!Properties(writer)[n] = w
      /\ Rules!Required(reader) = reader.required /\ Rules!Required(writer) = writer.required
      /\ Rules!Closed(reader) = reader.closed /\ Rules!Closed(writer) = writer.closed
  <2>1. reader.closed \in BOOLEAN /\ writer.closed \in BOOLEAN
    BY DEF Rules!Object
  <2> QED
    BY <1>2, <2>1 DEF Rules!Properties, Rules!Required, Rules!Closed
<1>4. \A f \in Rules!PropertyFindings(reader, writer, n) : f.severity # "breaking"
  BY DEF Rules!ObjectFindings
<1>5. reader.closed => writer.closed
  BY <1>2, ClosedKept
<1>6. r # None /\ w = None => n \notin reader.required
  BY <1>1, <1>3, <1>4 DEF Rules!PropertyFindings
<1>7. r = None /\ w # None => ~reader.closed
  BY <1>1, <1>3, <1>4 DEF Rules!PropertyFindings
<1>8. ASSUME r # None, w # None PROVE Fitting(r, w)
  <2>1. \A f \in Rules!NodeFindings(r, w) : f.severity # "breaking"
    BY <1>3, <1>4, <1>8 DEF Rules!PropertyFindings
  <2>2. ~Rules!LessSaid(r, w)
    BY <1>2, <1>3, <1>8 DEF Rules!Unsaid
  <2> QED
    BY <2>1, <2>2, NodesFit
<1>9. n \in reader.required /\ w # None => n \in writer.required
  BY <1>2, <1>3 DEF Rules!Unsaid
<1>10. r # None /\ w = None /\ ~writer.closed => r = [type |-> None, const |-> None]
  BY <1>2, <1>3 DEF Rules!Unsaid
<1>11. n \in reader.required => r # None
  BY DEF Rules!Object
<1>12. value = None => n \notin reader.required
  BY <1>6, <1>9, <1>11 DEF Admits
<1>13. ASSUME value # None, r = None PROVE ~reader.closed
  BY <1>5, <1>7, <1>13 DEF Admits
<1>14. ASSUME value # None, r # None PROVE Rules!LeafAccepts(r, value)
  <2>1. CASE w = None
    BY <1>10, <1>14, <2>1 DEF Admits, Rules!LeafAccepts
  <2>2. CASE w # None
    BY <1>8, <1>14, <2>2, LeavesRead DEF Admits
  <2> QED
    BY <2>1, <2>2
<1> QED
  BY <1>12, <1>13, <1>14 DEF Admits

(***************************************************************************)
(* For any properties, scalars and their types: a new contract that is     *)
(* found compatible reads all that the old one has written, but where it   *)
(* says what the old one leaves unsaid; forward is backward the other way  *)
(* round, full is both, and what is breaking asks for a major version      *)
(* (contract-compatibility.ts).                                            *)
(***************************************************************************)
THEOREM CompatibleReads ==
  ASSUME Rules!ContractsAssumption, NEW from \in Rules!Schema, NEW to \in Rules!Schema
  PROVE  /\ Rules!Compatible(from, to, "backward") /\ ~Rules!Unsaid(to, from) => Rules!Reads(to, from)
         /\ Rules!Compatible(from, to, "forward") <=> Rules!Compatible(to, from, "backward")
         /\ Rules!Compatible(from, to, "full") <=>
              Rules!Compatible(from, to, "backward") /\ Rules!Compatible(from, to, "forward")
         /\ Rules!RequiredVersionBump(from, to, "full") = "major"
              => ~Rules!Compatible(from, to, "full")
<1>1. ASSUME Rules!Compatible(from, to, "backward"), ~Rules!Unsaid(to, from)
      PROVE  Rules!Reads(to, from)
  <2>1. \A f \in Rules!Findings(to, from) : f.severity # "breaking"
    BY <1>1 DEF Rules!Compatible, Rules!Report
  <2>2. CASE to = None
    BY <2>2 DEF Rules!Reads, Rules!ScalarsOf, Rules!ObjectsOf
  <2>3. CASE to # None /\ from = None
    BY <1>1, <2>3 DEF Rules!Unsaid
  <2>4. CASE to # None /\ from # None
    <3>1. Fitting(to, from)
      <4>1. \A f \in Rules!NodeFindings(to, from) : f.severity # "breaking"
        BY <2>1, <2>4 DEF Rules!Findings
      <4>2. ~Rules!LessSaid(to, from)
        BY <1>1, <2>4 DEF Rules!Unsaid
      <4> QED
        BY <4>1, <4>2, NodesFit
    <3>2. None # "object" /\ None \notin Scalars
      BY DEF Rules!ContractsAssumption
    <3>3. \A l \in Rules!Leaf : l.type # "object"
      BY <3>2 DEF Rules!Leaf
    <3>4. \A o \in Rules!Object : o.type = "object" /\ o.const = None
      BY DEF Rules!Object
    <3>5. to \in Rules!Leaf \cup Rules!Object /\ from \in Rules!Leaf \cup Rules!Object
      BY <2>4 DEF Rules!Schema
    <3>6. ASSUME NEW v \in Rules!ScalarsOf(from) PROVE v \in Rules!ScalarsOf(to)
      <4>1. v \in Scalars /\ from.type # "object" /\ Rules!LeafAccepts(from, v)
        BY <2>4, <3>6 DEF Rules!ScalarsOf
      <4>2. to.type # "object"
        BY <3>1, <3>2, <4>1 DEF Fitting
      <4> QED
        BY <3>1, <4>1, <4>2, LeavesRead DEF Rules!ScalarsOf
    <3>7. ASSUME NEW o \in Rules!ObjectsOf(from) PROVE o \in Rules!ObjectsOf(to)
      <4>1. o \in Rules!Objects
        BY <3>7 DEF Rules!ObjectsOf
      <4>2. CASE from.type = None
        <5>1. from.const = None
          BY <2>4, <3>2, <3>7, <4>2 DEF Rules!ObjectsOf
        <5>2. to.type = None /\ to.const = None
          BY <3>1, <4>2, <5>1 DEF Fitting
        <5> QED
          BY <4>1, <5>2 DEF Rules!ObjectsOf
      <4>3. CASE from.type = "object" /\ to.type = None
        <5>1. from.const = None
          BY <3>3, <3>4, <3>5, <4>3
        <5>2. to.const = None
          BY <3>1, <5>1 DEF Fitting
        <5> QED
          BY <4>1, <4>3, <5>2 DEF Rules!ObjectsOf
      <4>4. CASE from.type = "object" /\ to.type = "object"
        <5>1. from \in Rules!Object /\ to \in Rules!Object
          BY <3>3, <3>5, <4>4
        <5>2. \A f \in Rules!ObjectFindings(to, from) : f.severity # "breaking"
          BY <2>1, <2>4, <4>4 DEF Rules!Findings, Rules!Differ
        <5>3. from.closed => ~o.extra
          BY <2>4, <3>2, <3>7, <4>4 DEF Rules!ObjectsOf
        <5>4. \A n \in PropertyNames : Admits(from, n, o.fields[n])
          BY <2>4, <3>2, <3>7, <4>4 DEF Rules!ObjectsOf, Admits
        <5>5. \A n \in PropertyNames : Admits(to, n, o.fields[n])
          BY <1>1, <2>4, <5>1, <5>2, <5>4, PropertyRead
        <5>6. to.closed => from.closed
          BY <4>4, <5>2, ClosedKept
        <5> QED
          BY <4>1, <4>4, <5>3, <5>5, <5>6 DEF Rules!ObjectsOf, Admits
      <4>5. from.type = "object" \/ from.type = None
        BY <2>4, <3>7 DEF Rules!ObjectsOf
      <4>6. to.type = None \/ to.type = from.type
        BY <3>1 DEF Fitting
      <4> QED
        BY <4>2, <4>3, <4>4, <4>5, <4>6
    <3> QED
      BY <3>6, <3>7 DEF Rules!Reads
  <2> QED
    BY <2>2, <2>3, <2>4
<1>2. Rules!Compatible(from, to, "forward") <=> Rules!Compatible(to, from, "backward")
  BY DEF Rules!Compatible, Rules!Report
<1>3. Rules!Compatible(from, to, "full") <=>
        Rules!Compatible(from, to, "backward") /\ Rules!Compatible(from, to, "forward")
  BY DEF Rules!Compatible, Rules!Report
<1>4. Rules!RequiredVersionBump(from, to, "full") = "major"
        => ~Rules!Compatible(from, to, "full")
  BY DEF Rules!RequiredVersionBump
<1> QED
  BY <1>1, <1>2, <1>3, <1>4
-----------------------------------------------------------------------------
(***************************************************************************)
(* State machines.  A transition that is accepted is one of the machine.   *)
(***************************************************************************)
Machines == [states : SUBSET StateNames, initial : StateNames, final : SUBSET StateNames,
             transitions : Seq(Rules!StateTransition)]

\* What a valid machine answers.
LEMMA TransitionIs ==
  ASSUME NEW definition \in Machines, Rules!ValidDefinition(definition), NEW s, NEW e, NEW c
  PROVE  LET result   == Rules!TransitionFrom(definition, s, e, c)
             able == Rules!Accepted(definition, s, e, c)
         IN  /\ able # {} => /\ result.code = "ok"
                                 /\ result.to \in definition.states
                                 /\ result.final = (result.to \in definition.final)
             /\ able = {} => result.code # "ok"
<1> DEFINE able == Rules!Accepted(definition, s, e, c)
<1> PICK transitions : transitions = definition.transitions
  OBVIOUS
<1>1. transitions \in Seq(Rules!StateTransition)
  BY DEF Machines
<1>2. DOMAIN transitions = 1..Len(transitions) /\ Len(transitions) \in Nat
  BY <1>1
<1>3. \A n \in able : /\ n \in DOMAIN transitions /\ s \in transitions[n].from
                          /\ n \in Rules!Matches(definition, s, e)
  BY DEF Rules!Accepted, Rules!Matches
<1>4. ASSUME able # {} PROVE /\ Rules!TransitionFrom(definition, s, e, c).code = "ok"
                                 /\ Rules!TransitionFrom(definition, s, e, c).to \in definition.states
                                 /\ Rules!TransitionFrom(definition, s, e, c).final =
                                      (Rules!TransitionFrom(definition, s, e, c).to \in definition.final)
  <2>1. able \in SUBSET Nat
    BY <1>2, <1>3
  <2>2. Rules!Min(able) \in able
    <3> HIDE DEF able
    <3> QED
      BY <1>4, <2>1, NatLeast DEF Rules!Min
  <2> PICK m : m = Rules!Min(able)
    OBVIOUS
  <2>3. s \in definition.states /\ transitions[m].to \in definition.states
    BY <1>3, <2>2 DEF Rules!ValidDefinition
  <2>4. Rules!Matches(definition, s, e) # {}
    BY <1>3, <2>2
  <2>5. Rules!TransitionFrom(definition, s, e, c) =
          [code |-> "ok", to |-> transitions[m].to, changed |-> s # transitions[m].to,
           final |-> transitions[m].to \in definition.final]
    BY <1>4, <2>3, <2>4, Zenon DEF Rules!TransitionFrom
  <2> QED
    BY <2>3, <2>5
<1>5. ASSUME able = {} PROVE Rules!TransitionFrom(definition, s, e, c).code # "ok"
  <2>1. Rules!TransitionFrom(definition, s, e, c) \in
          {Rules!Failure(code) : code \in {"unknown_state", "transition_not_allowed", "guard_rejected"}}
    BY <1>5 DEF Rules!TransitionFrom
  <2> QED
    BY <2>1 DEF Rules!Failure
<1> QED
  BY <1>4, <1>5

(***************************************************************************)
(* For any states, events, contexts and transitions: a valid machine never *)
(* leads the caller out of its states, and canTransition says what         *)
(* transition does, which is refused for a guard only when every guard     *)
(* refuses (state-machine.ts).                                             *)
(***************************************************************************)
THEOREM MachinesSound ==
  ASSUME NEW definition \in Machines PROVE Rules!MachineSound(definition)
<1> SUFFICES ASSUME Rules!ValidDefinition(definition) PROVE Rules!MachineSound(definition)
  BY DEF Rules!MachineSound
<1>1. Rules!Reached(definition) \subseteq definition.states
  <2> DEFINE From(s) == {Rules!TransitionFrom(definition, s, e, c) : e \in MachineEvents, c \in Contexts}
             Reach(S) == {t.to : t \in {t \in UNION {From(s) : s \in S} : t.code = "ok"}}
  <2>1. ASSUME NEW S PROVE Reach(S) \subseteq definition.states
    <3> SUFFICES ASSUME NEW s, NEW e, NEW c,
                        Rules!TransitionFrom(definition, s, e, c).code = "ok"
                 PROVE  Rules!TransitionFrom(definition, s, e, c).to \in definition.states
      OBVIOUS
    <3> QED
      BY TransitionIs
  <2>2. definition.initial \in definition.states
    BY DEF Rules!ValidDefinition
  <2>3. Rules!Reached(definition) =
          LET once == {definition.initial} \cup Reach({definition.initial}) IN once \cup Reach(once)
    BY DEF Rules!Reached
  <2> HIDE DEF Reach
  <2> QED
    BY <2>1, <2>2, <2>3
<1>2. ASSUME NEW s \in StateNames, NEW e \in MachineEvents, NEW c \in Contexts
      PROVE  LET result == Rules!TransitionFrom(definition, s, e, c) IN
             /\ Rules!CanTransition(definition, s, e, c) <=> result.code = "ok"
             /\ result.code = "guard_rejected" =>
                  \A n \in DOMAIN definition.transitions :
                    LET t == definition.transitions[n] IN
                      s \in t.from /\ e = t.event => c \notin t.guard
             /\ result.code = "ok" => (result.final <=> result.to \in definition.final)
  <2> PICK result : result = Rules!TransitionFrom(definition, s, e, c)
    OBVIOUS
  <2>1. Rules!CanTransition(definition, s, e, c) <=> result.code = "ok"
    BY TransitionIs DEF Rules!CanTransition
  <2>2. ASSUME result.code = "ok" PROVE result.final <=> result.to \in definition.final
    <3>1. result.final = (result.to \in definition.final)
      BY <2>2, TransitionIs
    <3> QED
      BY <3>1, Zenon
  <2>3. ASSUME result.code = "guard_rejected", NEW n \in DOMAIN definition.transitions,
               s \in definition.transitions[n].from, e = definition.transitions[n].event
        PROVE  c \notin definition.transitions[n].guard
    <3>1. Rules!Accepted(definition, s, e, c) = {}
      BY <2>3, TransitionIs
    <3> QED
      BY <2>3, <3>1 DEF Rules!Accepted, Rules!Matches
  <2> QED
    BY <2>1, <2>2, <2>3
<1> QED
  BY <1>1, <1>2 DEF Rules!MachineSound
-----------------------------------------------------------------------------
(***************************************************************************)
(* Decimals.  Quotients are rounded by their remainders, whatever the size *)
(* of the numbers.                                                         *)
(***************************************************************************)
LEMMA Quotients ==
  ASSUME NEW n \in Nat, NEW d \in Nat \ {0}
  PROVE  n \div d \in Nat /\ n % d \in 0..(d - 1) /\ n = (n \div d) * d + (n % d)
OBVIOUS

\* Multiples next to each other.
LEMMA Multiples ==
  ASSUME NEW r \in Int, NEW d \in Int
  PROVE  (r + 1) * d = r * d + d /\ (r - 1) * d = r * d - d /\ (-r) * d = -(r * d) /\ r * d \in Int
OBVIOUS

\* What one more or not, and the sign, make of the multiple.
LEMMA MultipleIs ==
  ASSUME NEW q \in Nat, NEW d \in Nat, NEW increment \in {0, 1}, NEW sign \in {-1, 1}
  PROVE  /\ ((q + increment) * sign) * d =
              (IF sign = 1 THEN q * d + (IF increment = 1 THEN d ELSE 0)
                           ELSE -(q * d + (IF increment = 1 THEN d ELSE 0)))
         /\ (q + increment) * sign \in Int
<1>1. CASE increment = 0 /\ sign = 1
  BY <1>1
<1>2. CASE increment = 1 /\ sign = 1
  BY <1>2, Multiples
<1>3. CASE increment = 0 /\ sign = -1
  <2>1. (q + increment) * sign = -q
    BY <1>3
  <2> QED
    BY <1>3, <2>1, Multiples
<1>4. CASE increment = 1 /\ sign = -1
  <2>1. (q + increment) * sign = -(q + 1)
    BY <1>4
  <2>2. (-(q + 1)) * d = -((q + 1) * d)
    BY Multiples
  <2> QED
    BY <1>4, <2>1, <2>2, Multiples
<1> QED
  BY <1>1, <1>2, <1>3, <1>4

\* What rounding comes to when a multiple x of d is the result for m.
RoundedTo(x, m, d, mode, even) ==
  LET below == x <= m /\ m < x + d
      above == x - d < m /\ m <= x
      near  == 2 * Arithmetic!Absolute(m - x) <= d
      tie   == 2 * Arithmetic!Absolute(m - x) = d
  IN  CASE mode = "floor" -> below
        [] mode = "ceiling" -> above
        [] mode = "down" -> IF m >= 0 THEN below ELSE above
        [] mode = "up" -> IF m >= 0 THEN above ELSE below
        [] mode = "half_even" -> near /\ (tie => even)
        [] mode = "half_up" -> near /\ (tie => Arithmetic!Absolute(x) > Arithmetic!Absolute(m))
        [] mode = "half_down" -> near /\ (tie => Arithmetic!Absolute(x) < Arithmetic!Absolute(m))

\* m is p and a rest, and x is p or the next multiple of d, the one that ShouldIncrement chooses.
Chosen(x, m, d, mode, q, p, rest, sign, increment) ==
  /\ p \in Nat /\ d \in Nat \ {0} /\ rest \in 0..(d - 1) /\ sign \in {-1, 1}
  /\ q \in Nat /\ increment \in {0, 1} /\ m \in Int /\ x \in Int /\ mode \in Arithmetic!Modes
  /\ increment = 1 <=> rest # 0 /\ Arithmetic!ShouldIncrement(sign, q, rest, d, mode)
  /\ m = (IF sign = 1 THEN p + rest ELSE -(p + rest))
  /\ x = (IF sign = 1 THEN p + (IF increment = 1 THEN d ELSE 0)
                      ELSE -(p + (IF increment = 1 THEN d ELSE 0)))

\* That is the rounding asked for.
LEMMA RoundsTo ==
  ASSUME NEW x, NEW m, NEW d, NEW mode, NEW q, NEW p, NEW rest, NEW sign, NEW increment,
         Chosen(x, m, d, mode, q, p, rest, sign, increment)
  PROVE  RoundedTo(x, m, d, mode, q % 2 = increment)
<1> USE DEF Chosen, Arithmetic!ShouldIncrement, Arithmetic!Absolute, RoundedTo
<1>1. CASE mode = "floor"
  BY <1>1
<1>2. CASE mode = "ceiling"
  BY <1>2
<1>3. CASE mode = "down"
  BY <1>3
<1>4. CASE mode = "up"
  BY <1>4
<1>5. CASE mode = "half_up"
  BY <1>5
<1>6. CASE mode = "half_down"
  BY <1>6
<1>7. CASE mode = "half_even"
  <2>1. increment = 1 <=> rest * 2 > d \/ (rest * 2 = d /\ q % 2 # 0)
    BY <1>7
  <2>2. CASE increment = 1
    <3>1. rest * 2 = d => q % 2 = increment
      BY <2>1, <2>2
    <3> QED
      BY <1>7, <2>1, <2>2, <3>1
  <2>3. CASE increment = 0
    <3>1. rest * 2 = d => q % 2 = increment
      BY <2>1, <2>3
    <3> QED
      BY <1>7, <2>1, <2>3, <3>1
  <2> QED
    BY <2>2, <2>3
<1> QED
  BY <1>1, <1>2, <1>3, <1>4, <1>5, <1>6, <1>7 DEF Arithmetic!Modes

(***************************************************************************)
(* For any integers, the rounded quotient is off by the rounding that was  *)
(* asked for and no other (decimal.ts).                                    *)
(***************************************************************************)
THEOREM RoundingExact ==
  ASSUME NEW n \in Int, NEW d \in Int \ {0}, NEW mode \in Arithmetic!Modes
  PROVE  Arithmetic!Rounded(Arithmetic!RoundQuotient(n, d, mode), IF d < 0 THEN -n ELSE n,
                            Arithmetic!Absolute(d), mode)
<1> PICK divisor \in Nat \ {0} : divisor = Arithmetic!Absolute(d)
  BY DEF Arithmetic!Absolute
<1> PICK total \in Nat : total = Arithmetic!Absolute(n)
  BY DEF Arithmetic!Absolute
<1> PICK m \in Int : m = IF d < 0 THEN -n ELSE n
  OBVIOUS
<1> PICK sign \in {-1, 1} : sign = IF (n < 0) # (d < 0) THEN -1 ELSE 1
  OBVIOUS
<1>1. total \div divisor \in Nat /\ total % divisor \in 0..(divisor - 1)
      /\ total = (total \div divisor) * divisor + (total % divisor)
  BY Quotients
<1> PICK q \in Nat : q = total \div divisor
  BY <1>1
<1> PICK rest \in 0..(divisor - 1) : rest = total % divisor
  BY <1>1
<1> PICK increment \in {0, 1} :
      increment = IF rest # 0 /\ Arithmetic!ShouldIncrement(sign, q, rest, divisor, mode) THEN 1 ELSE 0
  OBVIOUS
<1> PICK r \in Int : r = (q + increment) * sign
  BY MultipleIs
<1>2. r = Arithmetic!RoundQuotient(n, d, mode)
  BY DEF Arithmetic!RoundQuotient
<1> PICK p \in Nat : p = q * divisor
  OBVIOUS
<1> PICK x \in Int : x = r * divisor
  OBVIOUS
<1>3. x = (IF sign = 1 THEN p + (IF increment = 1 THEN divisor ELSE 0)
                       ELSE -(p + (IF increment = 1 THEN divisor ELSE 0)))
  BY MultipleIs
<1>4. m = (IF sign = 1 THEN p + rest ELSE -(p + rest))
  BY <1>1 DEF Arithmetic!Absolute
<1>5. RoundedTo(x, m, divisor, mode, q % 2 = increment)
  <2>1. Chosen(x, m, divisor, mode, q, p, rest, sign, increment)
    BY <1>3, <1>4 DEF Chosen
  <2> QED
    BY <2>1, RoundsTo
<1>6. (r + 1) * divisor = x + divisor /\ (r - 1) * divisor = x - divisor
  BY Multiples
<1>7. ASSUME q % 2 = increment PROVE r % 2 = 0
  <2>1. r = q + increment \/ r = -(q + increment)
    BY ONLY r = (q + increment) * sign, sign \in {-1, 1}, q \in Nat, increment \in {0, 1}
  <2>2. (q + increment) % 2 = 0 /\ (-(q + increment)) % 2 = 0
    <3>1. CASE increment = 0
      BY <1>7, <3>1
    <3>2. CASE increment = 1
      BY <1>7, <3>2
    <3> QED
      BY <3>1, <3>2
  <2> QED
    BY <2>1, <2>2
<1>8. Arithmetic!Rounded(r, m, divisor, mode)
  <2> USE <1>5, <1>6, <1>7 DEF Arithmetic!Rounded, RoundedTo
  <2>1. CASE mode \in {"floor", "ceiling"}
    BY <2>1
  <2>2. CASE mode \in {"down", "up"}
    BY <2>2
  <2>3. CASE mode = "half_even"
    BY <2>3
  <2>4. CASE mode \in {"half_up", "half_down"}
    BY <2>4
  <2> QED
    BY <2>1, <2>2, <2>3, <2>4 DEF Arithmetic!Modes
<1> QED
  BY <1>2, <1>8
=============================================================================
