------------------------------ MODULE MCStores ------------------------------
(***************************************************************************)
(* The components over the stores, checked side by side: the one in focus  *)
(* takes steps, the others stay in their initial states.                   *)
(***************************************************************************)
EXTENDS Integers, Sequences, TLC

CONSTANTS w1, w2, p1,  \* who calls
          None, Absent
CONSTANTS Calls, Resources, Items, Quantities, Capacities, MaxFaults
CONSTANTS Handlers, Steps, Timeouts, MaxSaves
CONSTANTS Registrations, Versions, Contents, Upgrades
CONSTANTS Runners, Formats, Migrations, From, To
CONSTANTS Writers, Events, Streams, StreamOf, Expectations, MaxCrashes
CONSTANTS Appenders, AppenderExpectations, AppenderCrashes, Rebuilds, BatchSize
CONSTANTS Ops, Keys, Ttl, NegativeTtl, MaxEntries, MaxTime, MaxBegun

VARIABLE focus
VARIABLES capacity, had, reservations, lock, pc, request, found, events, faults
VARIABLES instance, copy, saves, read, lost
VARIABLES stored, torn, holder, writers, crashes, appended
VARIABLES records, checkpoint, rebuilds, disturbed
VARIABLES file, freshness, lruOrder, inflight, ops, now, begun, inherited
VARIABLES packages, workflow, cached, calls, packageFaults, packageDisturbed
VARIABLES migrations, runs, handled, migrationFaults, shared
VARIABLES busNow, kept, busPc, command, sentAt, markAt, sound, answer, pruning, started, busFaults

Port == INSTANCE Reservations

Manager == INSTANCE Processes WITH stored <- instance

\* Two streams; the second event is alone in its stream.
StreamOfEvent == [e \in {1, 2, 3} |-> IF e = 2 THEN "s2" ELSE "s1"]

AnyRevision == -1..3

\* Any, no_stream, stream_exists and every exact revision.
AllExpectations ==
  {AnyRevision, {-1}, AnyRevision \ {-1}} \cup {{n} : n \in AnyRevision}

\* Content with any revision.
AnyExpectation == {AnyRevision}

EventFile == INSTANCE EventStore

Worker == INSTANCE Projections
            WITH Writers <- Appenders, Expectations <- AppenderExpectations,
                 MaxCrashes <- AppenderCrashes

Cache == INSTANCE FileCache

\* The second version may change the content from "x" to "y", but not back.
AcceptedUpgrades ==
  {<<[version |-> 1, content |-> u[1]], [version |-> 2, content |-> u[2]]>> :
     u \in {<<"x", "x">>, <<"x", "y">>, <<"y", "y">>}}

Registry == INSTANCE Packages
              WITH Calls <- Registrations, faults <- packageFaults, disturbed <- packageDisturbed

\* Two of the three steps leave the first version.
StepsFrom == <<1, 1, 2>>
StepsTo == <<2, 3, 3>>

Migrator == INSTANCE Migrations
              WITH Versions <- Formats, Steps <- Migrations, records <- migrations,
                   faults <- migrationFaults

\* Calls that may outlive their lease, over the store on files, whose pruner takes no lock.
Bus == INSTANCE CommandBus
         WITH Calls <- {w1, w2}, Keys <- {"k"}, Fingerprints <- {"f", "g"}, Never <- None,
              InProgressTtl <- 1, ReplayTtl <- 1, AtomicPrune <- FALSE, CallMs <- 3,
              MaxTime <- 3, MaxFaults <- 0,
              now <- busNow, records <- kept, pc <- busPc, runs <- started, faults <- busFaults

ASSUME StoresAssumption ==
  /\ Port!ReservationsAssumption
  /\ Manager!ProcessesAssumption
  /\ EventFile!StoreAssumption /\ Worker!ProjectionAssumption
  /\ Cache!CacheAssumption
  /\ Registry!PackagesAssumption
  /\ Migrator!MigrationsAssumption
  /\ Bus!CommandBusAssumption

portVars == <<capacity, had, reservations, lock, pc, request, found, events, faults>>
managerVars == <<instance, copy, saves, read, lost>>
eventVars == <<stored, torn, holder, writers, crashes, appended>>
workerVars == <<records, checkpoint, rebuilds, disturbed>>
cacheVars == <<file, freshness, lruOrder, inflight, ops, now, begun, inherited>>
registryVars == <<packages, workflow, cached, calls, packageFaults, packageDisturbed>>
migratorVars == <<migrations, runs, handled, migrationFaults, shared>>
busVars == <<busNow, kept, busPc, command, sentAt, markAt, sound, answer, pruning, started,
             busFaults>>

vars == <<focus, portVars, managerVars, eventVars, workerVars, cacheVars, registryVars,
          migratorVars, busVars>>

Init ==
  /\ focus \in {"port", "manager", "events", "worker", "cache", "registry", "migrator", "bus"}
  /\ Port!Init /\ Manager!Init /\ Registry!Init /\ Migrator!Init /\ Worker!RebuildInit
  /\ IF focus = "events" THEN EventFile!StoreInit ELSE Worker!StoreInit
  /\ Cache!Init /\ Bus!Init
  /\ IF focus = "cache"  \* an earlier process has left a file of one key
       THEN \E k \in Keys : file[k] = None
       ELSE file = [k \in Keys |-> None]
  /\ focus # "bus" => \A c \in {w1, w2} : command[c] = [key |-> "k", fingerprint |-> "f"]

Next ==
  /\ UNCHANGED focus
  /\ \/ /\ focus = "port"
        /\ Port!Next
        /\ UNCHANGED <<managerVars, eventVars, workerVars, cacheVars, registryVars,
                       migratorVars, busVars>>
     \/ /\ focus = "manager"
        /\ Manager!Next
        /\ UNCHANGED <<portVars, eventVars, workerVars, cacheVars, registryVars, migratorVars,
                       busVars>>
     \/ /\ focus = "events"
        /\ EventFile!StoreNext
        /\ UNCHANGED <<portVars, managerVars, workerVars, cacheVars, registryVars,
                       migratorVars, busVars>>
     \/ /\ focus = "worker"
        /\ Worker!Next
        /\ UNCHANGED <<portVars, managerVars, cacheVars, registryVars, migratorVars, busVars>>
     \/ /\ focus = "cache"
        /\ Cache!Next
        /\ UNCHANGED <<portVars, managerVars, eventVars, workerVars, registryVars,
                       migratorVars, busVars>>
     \/ /\ focus = "registry"
        /\ Registry!Next
        /\ UNCHANGED <<portVars, managerVars, eventVars, workerVars, cacheVars, migratorVars,
                       busVars>>
     \/ /\ focus = "migrator"
        /\ Migrator!Next
        /\ UNCHANGED <<portVars, managerVars, eventVars, workerVars, cacheVars, registryVars,
                       busVars>>
     \/ /\ focus = "bus"
        /\ Bus!Next
        /\ UNCHANGED <<portVars, managerVars, eventVars, workerVars, cacheVars, registryVars,
                       migratorVars>>

Spec == Init /\ [][Next]_vars

Symmetry == Permutations({w1, w2})

\* The properties, each stated in its module.
ReservationsKept == Port!ReservationsKept
EndsForGood == Manager!EndsForGood
AppendsExact == EventFile!AppendsExact
RebuiltFaithful == Worker!RebuiltFaithful
LimitsKept == Cache!LimitsKept
CacheCoherent == Registry!CacheCoherent
HandledOnce == Migrator!HandledOnce
ClientsAndStoreAgree == Bus!ClientsAndStoreAgree
=============================================================================
