------------------------------ MODULE Packages ------------------------------
(***************************************************************************)
(* Registering the versions of one domain package, and the workflow and    *)
(* field schema of its type, which readers keep in the cache.              *)
(*                                                                         *)
(* A registration looks for its version and for the latest one before the  *)
(* unit of work, in which it makes four writes without a rollback.         *)
(* registerWorkflow makes two of them, outside any unit of work.  A reader *)
(* that misses the cache loads what is stored and puts it in the cache two *)
(* turns later.  The entries have no expiry.                               *)
(*                                                                         *)
(* The unit of work is left out: it is entered after the checks, the       *)
(* in-memory one excludes nobody and the one on files only takes           *)
(* interleavings away.  A content stands for all that a version consists   *)
(* of, its workflow and schema among it.                                   *)
(***************************************************************************)
EXTENDS Naturals, FiniteSets, FiniteSetsExt

CONSTANTS
  Calls,
  Versions,   \* in the order of compareVersions
  Contents,
  Upgrades,   \* the pairs of packages assertPackageUpgradeAllowed accepts
  None,       \* nothing stored, nothing cached
  MaxFaults   \* bound on writes that throw and processes that die

PackagesAssumption ==
  /\ Versions \subseteq Nat
  /\ None \notin Contents
  /\ \A p \in Upgrades : p[1].version < p[2].version
  /\ MaxFaults \in Nat

VARIABLES
  packages,   \* the content of each version
  workflow,   \* the stored workflow: the content it came with
  cached,     \* the workflow and the field schema in the cache
  calls,      \* what each call does
  faults,
  disturbed   \* history: a write has come between a read of another call and what
              \* that call did with it, or a registration has broken off

vars == <<packages, workflow, cached, calls, faults, disturbed>>

Entries == {"workflow", "schema"}

Package == [version : Versions, content : Contents]

\* The most that Upgrades can be: every newer version is accepted.
NewerVersions == {u \in Package \X Package : u[1].version < u[2].version}

(***************************************************************************)
(* A registration goes through "look", "check", "saveWorkflow",            *)
(* "cacheWorkflow", "cacheSchema" and "savePackage"; a reader that has     *)
(* missed the cache through "load" and "fill".                             *)
(***************************************************************************)
Call == [at : {"new", "look", "check", "saveWorkflow", "cacheWorkflow", "cacheSchema",
               "savePackage", "load", "fill", "done", "refused", "failed"},
         op : {"package", "workflow", "schema"},
         version : Versions \cup {None}, content : Contents \cup {None}]

Init ==
  /\ packages = [v \in Versions |-> None]
  /\ workflow = None
  /\ cached = [e \in Entries |-> None]
  /\ calls = [c \in Calls |->
       [at |-> "new", op |-> "package", version |-> None, content |-> None]]
  /\ faults = 0
  /\ disturbed = FALSE

At(c, at) == calls[c].at = at
Goto(c, at) == calls' = [calls EXCEPT ![c].at = at]

\* The calls that hold what they have read and will act on it.
Acting == {c \in Calls : calls[c].at \in {"check", "saveWorkflow", "cacheWorkflow",
                                          "cacheSchema", "savePackage", "fill"}}

\* A write that the other calls under way do not know of.
Disturb(c) == disturbed' = (disturbed \/ Acting # {c})

Registered == {v \in Versions : packages[v] # None}

\* getByName: the highest version.
Latest == [version |-> Max(Registered), content |-> packages[Max(Registered)]]

-----------------------------------------------------------------------------
\* The input is valid; registerWorkflow goes on to its save at once.
Register(c, v, x) ==
  /\ At(c, "new")
  /\ calls' = [calls EXCEPT ![c] =
       [at |-> "look", op |-> "package", version |-> v, content |-> x]]
  /\ UNCHANGED <<packages, workflow, cached, faults, disturbed>>

RegisterWorkflow(c, x) ==
  /\ At(c, "new")
  /\ calls' = [calls EXCEPT ![c] =
       [at |-> "saveWorkflow", op |-> "workflow", version |-> None, content |-> x]]
  /\ UNCHANGED <<packages, workflow, cached, faults, disturbed>>

\* getByNameAndVersion: a version that is there is returned, or refused if its
\* content differs.
Look(c) ==
  /\ At(c, "look")
  /\ LET there == packages[calls[c].version]
     IN  Goto(c, IF there = None THEN "check"
                 ELSE IF there = calls[c].content THEN "done" ELSE "refused")
  /\ UNCHANGED <<packages, workflow, cached, faults, disturbed>>

\* The upgrade is compared with the latest version, if there is one.
Check(c) ==
  /\ At(c, "check")
  /\ LET next == [version |-> calls[c].version, content |-> calls[c].content]
     IN  Goto(c, IF Registered = {} \/ <<Latest, next>> \in Upgrades
                 THEN "saveWorkflow" ELSE "refused")
  /\ UNCHANGED <<packages, workflow, cached, faults, disturbed>>

SaveWorkflow(c) ==
  /\ At(c, "saveWorkflow")
  /\ workflow' = calls[c].content
  /\ Goto(c, "cacheWorkflow")
  /\ Disturb(c)
  /\ UNCHANGED <<packages, cached, faults>>

\* Mutant of CacheWorkflow: only an entry that is missing is put in the cache.
CacheWorkflowOnce(c) ==
  /\ At(c, "cacheWorkflow")
  /\ cached' = [cached EXCEPT !.workflow = IF @ = None THEN calls[c].content ELSE @]
  /\ Goto(c, IF calls[c].op = "workflow" THEN "done" ELSE "cacheSchema")
  /\ UNCHANGED <<packages, workflow, faults, disturbed>>

CacheWorkflow(c) ==
  /\ At(c, "cacheWorkflow")
  /\ cached' = [cached EXCEPT !.workflow = calls[c].content]
  /\ Goto(c, IF calls[c].op = "workflow" THEN "done" ELSE "cacheSchema")
  /\ UNCHANGED <<packages, workflow, faults, disturbed>>

\* The schema is in the cache before its package is stored: a reader may still load
\* the schema before it, and put it in the cache after it.
CacheSchema(c) ==
  /\ At(c, "cacheSchema")
  /\ cached' = [cached EXCEPT !.schema = calls[c].content]
  /\ Goto(c, "savePackage")
  /\ Disturb(c)
  /\ UNCHANGED <<packages, workflow, faults>>

\* Whatever is stored under the version by now is written over.
SavePackage(c) ==
  /\ At(c, "savePackage")
  /\ packages' = [packages EXCEPT ![calls[c].version] = calls[c].content]
  /\ Goto(c, "done")
  /\ Disturb(c)
  /\ UNCHANGED <<workflow, cached, faults>>

\* A write throws or the process dies: the writes before it stay.
BreakOff(c) ==
  /\ faults < MaxFaults
  /\ faults' = faults + 1
  /\ calls[c].at \in {"saveWorkflow", "cacheWorkflow", "cacheSchema", "savePackage"}
  /\ Goto(c, "failed")
  /\ disturbed' = (disturbed \/ ~At(c, "saveWorkflow"))
  /\ UNCHANGED <<packages, workflow, cached>>

-----------------------------------------------------------------------------
\* getWorkflowOrThrow and getFieldSchemaForType: what the cache has is returned.
Get(c, e) ==
  /\ At(c, "new")
  /\ calls' = [calls EXCEPT ![c].op = e, ![c].at = IF cached[e] = None THEN "load" ELSE "done"]
  /\ UNCHANGED <<packages, workflow, cached, faults, disturbed>>

\* NotFoundError, or null, if nothing is stored.
LoadStored(c) ==
  /\ At(c, "load")
  /\ LET stored == IF calls[c].op = "workflow" THEN workflow
                   ELSE IF Registered = {} THEN None ELSE Latest.content
     IN  calls' = [calls EXCEPT ![c].content = stored,
                                ![c].at = IF stored = None THEN "done" ELSE "fill"]
  /\ UNCHANGED <<packages, workflow, cached, faults, disturbed>>

Fill(c) ==
  /\ At(c, "fill")
  /\ cached' = [cached EXCEPT ![calls[c].op] = calls[c].content]
  /\ Goto(c, "done")
  /\ disturbed' = (disturbed \/ \E d \in Calls : At(d, "savePackage"))
  /\ UNCHANGED <<packages, workflow, faults>>

\* delete or clear of the cache, or a new process with a cache in memory.
DropCached ==
  /\ \E dropped \in (SUBSET Entries) \ {{}} :
       cached' = [e \in Entries |-> IF e \in dropped THEN None ELSE cached[e]]
  /\ UNCHANGED <<packages, workflow, calls, faults, disturbed>>

Next ==
  \/ \E c \in Calls :
       \/ \E x \in Contents :
            RegisterWorkflow(c, x) \/ \E v \in Versions : Register(c, v, x)
       \/ Look(c) \/ Check(c)
       \/ SaveWorkflow(c) \/ CacheWorkflow(c) \/ CacheSchema(c) \/ SavePackage(c)
       \/ BreakOff(c)
       \/ \E e \in Entries : Get(c, e)
       \/ LoadStored(c) \/ Fill(c)
  \/ DropCached

Spec == Init /\ [][Next]_vars
-----------------------------------------------------------------------------
\* Every variable has its type.
TypeOK ==
  /\ packages \in [Versions -> Contents \cup {None}]
  /\ workflow \in Contents \cup {None}
  /\ cached \in [Entries -> Contents \cup {None}]
  /\ calls \in [Calls -> Call]
  /\ faults \in 0..MaxFaults
  /\ disturbed \in BOOLEAN

(***************************************************************************)
(* Unless a write has come between a read and what was done with it, or a  *)
(* registration has broken off: whenever no registration is writing, the   *)
(* cache has the stored workflow and the schema of the latest version or   *)
(* nothing, and the versions are upgrades of each other in their order.    *)
(***************************************************************************)
CacheCoherent ==
  ~disturbed /\ Acting = {} =>
    /\ cached.workflow \in {None, workflow}
    /\ cached.schema # None => Registered # {} /\ cached.schema = Latest.content
    /\ \A v \in Registered :
         LET later == {u \in Registered : u > v}
         IN  later # {} =>
               <<[version |-> v, content |-> packages[v]],
                 [version |-> Min(later), content |-> packages[Min(later)]]>> \in Upgrades

(***************************************************************************)
(* Action property.  A version that is registered never changes ("same     *)
(* package name and version must be immutable").                           *)
(***************************************************************************)
VersionsImmutable ==
  [][\A v \in Registered : packages'[v] = packages[v]]_vars
=============================================================================
