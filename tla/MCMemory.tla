------------------------------ MODULE MCMemory ------------------------------
(***************************************************************************)
(* The components that live in the memory of one process, the directories  *)
(* of records and the read models, checked side by side: the one in focus  *)
(* takes steps, the others stay in their initial states.  Of the           *)
(* algorithms without a state the inputs are the initial states: pairs of  *)
(* package versions, pairs of contracts, graphs of dependencies, machines, *)
(* imports, searches, and dates and decimals.                              *)
(***************************************************************************)
EXTENDS MCUpgrades, Sequences, TLC

CONSTANTS w1, w2  \* flows and importers

\* Of the tracer.
CONSTANTS Flows, MaxTraces, MaxSpans, MaxActiveTraces, StaleTraceTtlMs, Readings

\* Of the directory of records.
CONSTANTS Ops, Ids, Values, Expired, MaxFaults

\* Of the validated map.
CONSTANTS Keys, Entered, Valid, Allowed, MaxCalls

\* Of the sliding window, retries, the numbering sequence, imports and the lazy value.
CONSTANTS windowMs, maxEvents, MaxTime, maxRetries, baseDelayMs, maxDelayMs, Delays,
          Configs, SetNumbers, Importers, MaxCursor, MaxSaves, MaxRuns

\* Of contracts and state machines.
CONSTANTS PropertyNames, Scalars, TypeOf, StateNames, MachineEvents, Contexts

\* Of the read models.
CONSTANTS Statuses, Assignees, FieldValues, Reservations, Quantities, MaxEvents, MaxReruns

VARIABLES focus, sample
VARIABLES activeTraces, activeSpans, closed, flows, created, traceOf, dropped, reading,
          traceEnds, spanEnds, meddled, stopping
VARIABLES inner, watched, told, frames, called, nested, overtaken
VARIABLES timestamps, saved, clock, accepted, regular
VARIABLES attempt, doing, errors, slept, outcome
VARIABLES config, current, issued
VARIABLES progress, progressCopy, progressSaves
VARIABLES made, ready, pending, makings, making, resetMeanwhile
VARIABLES recordFiles, temps, locks, ops, faults, held, vanished
VARIABLES item, resource, events, summary, usage, timeline, applied, again, reruns

Tracing == INSTANCE Tracer WITH now <- reading

\* One key takes one of the values only, and the invariant is a bound on the size.
MCValid == {<<"k", "x">>, <<"k", "y">>, <<"l", "x">>}
MCAllowed == {m \in [Keys -> Entered \cup {None}] : \A k, l \in Keys :
                m[k] # None /\ m[l] # None => k = l}

Entries == INSTANCE ValidatedMap WITH Values <- Entered

Window == INSTANCE SlidingWindow

\* What functions of the caller return may be out of bounds.
MCDelays == {-1, 5}

Policy == INSTANCE Retry

Sequencing(increment, min, max, cycle) ==
  [start |-> 1, increment |-> increment, min |-> min, max |-> max, cycle |-> cycle]

MCConfigs ==
  {Sequencing(increment, 0, 3, cycle) : increment \in {-2, -1, 1, 2}, cycle \in BOOLEAN}
    \cup {Sequencing(1, None, 3, TRUE), Sequencing(-1, 0, None, TRUE)}
MCNumbers == {-1, 2, 9}

Numbering == INSTANCE NumberingSequence WITH Numbers <- SetNumbers

Importing == INSTANCE Imports
               WITH ExternalIds <- {"a", "b"}, Values <- {"x", "y"}, Checksums <- {"x"},
                    checkpoint <- progress, copy <- progressCopy, saves <- progressSaves

Making == INSTANCE Lazy
            WITH value <- made, runs <- makings, running <- making,
                 overtaken <- resetMeanwhile

Directory == INSTANCE RecordFiles WITH records <- recordFiles

Models == INSTANCE ReadModels

MCTypeOf == [v \in Scalars |-> IF v = "1" THEN "number" ELSE "string"]

Rules == INSTANCE Definitions
           WITH Names <- PropertyNames, Packages <- {1, 2, 3}, Unknown <- {4}, Events <- MachineEvents

Arithmetic == INSTANCE ValueTypes

Searches == INSTANCE Queries

SeqsUpTo2(S) == {<<>>} \cup [1..1 -> S] \cup [1..2 -> S]

ASSUME MemoryAssumption ==
  /\ Tracing!TracerAssumption /\ Entries!MapAssumption
  /\ Window!WindowAssumption /\ Policy!RetryAssumption /\ Numbering!SequenceAssumption
  /\ Making!LazyAssumption
  /\ Rules!ContractsAssumption /\ Rules!GraphAssumption
  /\ Directory!FilesAssumption /\ Models!ModelsAssumption

tracingVars == <<activeTraces, activeSpans, closed, flows, created, traceOf, dropped, reading,
                 traceEnds, spanEnds, meddled, stopping>>
entriesVars == <<inner, watched, told, frames, called, nested, overtaken>>
windowVars == <<timestamps, saved, clock, accepted, regular>>
policyVars == <<attempt, doing, errors, slept, outcome>>
numberingVars == <<config, current, issued>>
importingVars == <<progress, progressCopy, progressSaves>>
makingVars == <<made, ready, pending, makings, making, resetMeanwhile>>
directoryVars == <<recordFiles, temps, locks, ops, faults, held, vanished>>
modelVars == <<item, resource, events, summary, usage, timeline, applied, again, reruns>>

vars == <<focus, sample, pair, tracingVars, entriesVars, windowVars, policyVars, numberingVars,
          importingVars, makingVars, directoryVars, modelVars>>

Samples ==
  CASE focus = "contracts" -> Rules!Schema \X Rules!Schema
    [] focus = "graphs" -> Rules!Dependencies
    [] focus = "dates" ->
         {Arithmetic!Date(y, m, d) : y \in {2000, 2023, 2024, 2100}, m \in 1..12,
                                d \in {1, 28, 29, 30, 31}}
           \X [years : {0, 1}, months : {0, 1, 11}, days : {0, 1, 31}]
           \X {"constrain", "reject"}
    [] focus = "decimals" ->
         LET numbers == {Arithmetic!Number(c, s) :
                           c \in {-25, -15, -10, -4, -1, 0, 1, 3, 5, 20, 35}, s \in 0..2}
         IN  numbers \X numbers
    [] focus = "imports" ->
         SeqsUpTo2(Importing!ImportRecord) \X SeqsUpTo2(Importing!ExistingRecord)
    [] focus = "machines" ->
         [states : SUBSET StateNames, initial : {"a"}, final : {{}, {"b"}},
          transitions : SeqsUpTo2({t \in Rules!StateTransition : t.guard # {"d"}})]
    [] focus = "searches" ->
         LET Item(n) == [id : {n}, status : {"open", "done"}, created : {1}, updated : {1, 2}]
                          \cup [id : {n}, status : {"open"}, created : {0}, updated : {1}]
         IN  {items \ {None} : items \in
                {{i, j, k} : i \in Item(1) \cup {None}, j \in Item(2), k \in Item(3) \cup {None}}}
              \X SUBSET {[actor |-> "u", item |-> 1], [actor |-> "u", item |-> None],
                         [actor |-> "v", item |-> 2]}
    [] OTHER -> {None}

SamePair == LET p == Package(First, OneWorkflow, Empty) IN <<p, p>>

Init ==
  /\ focus \in {"tracing", "entries", "window", "policy", "numbering", "importing", "making",
                "directory", "models", "upgrades", "contracts", "graphs", "dates", "decimals",
                "imports", "machines", "searches"}
  /\ Tracing!Init /\ Entries!Init /\ Window!Init /\ Policy!Init
  /\ Numbering!Init /\ Importing!Init /\ Making!Init /\ Models!Init
  /\ Directory!Init
  /\ focus # "window" => \A t \in DOMAIN saved : saved[t] = 0
  /\ focus # "numbering" => config = (CHOOSE c \in Configs : TRUE) /\ current = None
  /\ focus # "directory" => recordFiles = [i \in Ids |-> None]
  /\ sample \in Samples
  /\ IF focus = "upgrades" THEN PairInit ELSE pair = SamePair

Next ==
  /\ UNCHANGED <<focus, sample, pair>>
  /\ \/ /\ focus = "tracing"
        /\ Tracing!Next
        /\ UNCHANGED <<entriesVars, windowVars, policyVars, numberingVars, importingVars,
                       makingVars, directoryVars, modelVars>>
     \/ /\ focus = "entries"
        /\ Entries!Next
        /\ UNCHANGED <<tracingVars, windowVars, policyVars, numberingVars, importingVars,
                       makingVars, directoryVars, modelVars>>
     \/ /\ focus = "window"
        /\ Window!Next
        /\ UNCHANGED <<tracingVars, entriesVars, policyVars, numberingVars, importingVars,
                       makingVars, directoryVars, modelVars>>
     \/ /\ focus = "policy"
        /\ Policy!Next
        /\ UNCHANGED <<tracingVars, entriesVars, windowVars, numberingVars, importingVars,
                       makingVars, directoryVars, modelVars>>
     \/ /\ focus = "numbering"
        /\ Numbering!Next
        /\ UNCHANGED <<tracingVars, entriesVars, windowVars, policyVars, importingVars,
                       makingVars, directoryVars, modelVars>>
     \/ /\ focus = "importing"
        /\ Importing!Next
        /\ UNCHANGED <<tracingVars, entriesVars, windowVars, policyVars, numberingVars,
                       makingVars, directoryVars, modelVars>>
     \/ /\ focus = "making"
        /\ Making!Next
        /\ UNCHANGED <<tracingVars, entriesVars, windowVars, policyVars, numberingVars,
                       importingVars, directoryVars, modelVars>>
     \/ /\ focus = "directory"
        /\ Directory!Next
        /\ UNCHANGED <<tracingVars, entriesVars, windowVars, policyVars, numberingVars,
                       importingVars, makingVars, modelVars>>
     \/ /\ focus = "models"
        /\ Models!Next
        /\ UNCHANGED <<tracingVars, entriesVars, windowVars, policyVars, numberingVars,
                       importingVars, makingVars, directoryVars>>

Spec == Init /\ [][Next]_vars

Symmetry == Permutations({w1, w2})

\* The properties, each stated in its module.
TracesWhole == Tracing!TracesWhole
MapCoherent == Entries!MapCoherent
ReadModelsAgree == Models!ReadModelsAgree
FilesWhole == Directory!FilesWhole

(***************************************************************************)
(* What the kernel computes is so: which upgrade of a package is           *)
(* compatible, which contract can be read, in which order packages are     *)
(* installed, where the transitions of a machine lead, dates, decimals,    *)
(* plans of imports, and the pages of a search.                            *)
(***************************************************************************)
AlgorithmsSound ==
  /\ UpgradesSound
  /\ focus = "contracts" => Rules!ContractsSound(sample[1], sample[2])
  /\ focus = "graphs" => Rules!InstallSound(sample)
  /\ focus = "machines" => Rules!MachineSound(sample)
  /\ focus = "dates" => Arithmetic!CalendarKept(sample[1], sample[2], sample[3])
  /\ focus = "decimals" => Arithmetic!DecimalsExact(sample[1], sample[2], 0..2)
  /\ focus = "imports" =>
       \A allowUpdates \in BOOLEAN : Importing!ImportsOnce(sample[1], sample[2], allowUpdates)
  /\ focus = "searches" =>
       \A query \in [status : {None, "open"}, actor : {None, "u"}, after : {None, 2},
                     before : {None, 1}, sort : Searches!Sorts, limit : {None, 1, 2},
                     offset : {0, 1}] :
         Searches!PagesWhole(sample[1], sample[2], query)

(***************************************************************************)
(* The primitives keep their word however they are called: no window holds *)
(* more events than it may and it says exactly when there is room, retries *)
(* are counted and their delays bounded, no number is issued twice in a    *)
(* cycle, a failed import is not stored as a sound one, and of a lazy      *)
(* value there is one run at a time as long as nobody resets it meanwhile. *)
(***************************************************************************)
PrimitivesKept ==
  /\ Window!WindowKept /\ Policy!RetriesBounded /\ Numbering!NumbersKept
  /\ Importing!ErrorsTold /\ Making!LazyOnce
=============================================================================
