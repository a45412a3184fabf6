--------------------------- MODULE ManagedResource ---------------------------
(***************************************************************************)
(* The handle of src/primitives/resource.ts: a value that is made when it  *)
(* is first asked for, shared by everybody, disposed of on request (also   *)
(* by a signal of the process) and made anew when it is asked for again.   *)
(* Making and disposing take time, and fail; get and dispose are called in *)
(* between.  What continues in one turn of the event loop is one step: all *)
(* the calls that wait for a disposal go on in the turn in which it ends.  *)
(***************************************************************************)
EXTENDS Naturals, FiniteSets

CONSTANTS Users,      \* whoever calls get or dispose
          None,
          MaxInits    \* bound: calls of init

ResourceAssumption ==
  /\ None \notin Nat \cup {"pending", "resolved", "rejected", "waits", "runs"}
  /\ MaxInits \in Nat

VARIABLES value,        \* the instance the handle keeps
          initialized,
          disposed,
          initPromise,  \* None, "pending", "resolved" or "rejected"
          disposal,     \* None, "waits" for the initialisation, or "runs" disposeFn
          users,        \* what each user waits for, or the instance it was given
          inits,        \* how often init was called
          live          \* history: the instances that exist

resourceVars == <<value, initialized, disposed, initPromise, disposal, users, inits, live>>

Instances == 1..MaxInits
Waits == {"idle", "init", "disposal", "refused"}

TypeOK == /\ value \in Instances \cup {None}
          /\ initialized \in BOOLEAN
          /\ disposed \in BOOLEAN
          /\ initPromise \in {None, "pending", "resolved", "rejected"}
          /\ disposal \in {None, "waits", "runs"}
          /\ users \in [Users -> [waits : Waits, has : Instances \cup {None}]]
          /\ inits \in 0..MaxInits
          /\ live \subseteq Instances

Waiting(w) == [waits |-> w, has |-> None]

Init == /\ value = None
        /\ initialized = FALSE
        /\ disposed = FALSE
        /\ initPromise = None
        /\ disposal = None
        /\ users = [u \in Users |-> Waiting("idle")]
        /\ inits = 0
        /\ live = {}

\* The users that wait for w go on as given.
Resume(w, next) == [u \in Users |-> IF users[u].waits = w THEN next ELSE users[u]]
Free(u) == users[u].waits \notin {"init", "disposal"}
SomeoneWaits(w) == \E u \in Users : users[u].waits = w

(***************************************************************************)
(* get, that is doInit.                                                    *)
(***************************************************************************)

\* The value is there, even while it is being disposed of.
GetReady(u) == /\ Free(u)
               /\ initialized /\ ~disposed
               /\ users' = [users EXCEPT ![u] = [waits |-> "idle", has |-> value]]
               /\ UNCHANGED <<value, initialized, disposed, initPromise, disposal, inits, live>>

\* A disposal is under way: wait for it first.
GetAfterDisposal(u) ==
  /\ Free(u)
  /\ ~(initialized /\ ~disposed)
  /\ disposal # None
  /\ users' = [users EXCEPT ![u] = Waiting("disposal")]
  /\ UNCHANGED <<value, initialized, disposed, initPromise, disposal, inits, live>>

\* Somebody has started the initialisation already; one that threw at once has
\* left its rejected promise behind, and the call is refused without a new try.
GetShared(u) ==
  /\ Free(u)
  /\ ~(initialized /\ ~disposed)
  /\ disposal = None
  /\ initPromise # None
  /\ users' = [users EXCEPT ![u] =
                 CASE initPromise = "pending"  -> Waiting("init")
                   [] initPromise = "rejected" -> Waiting("refused")
                   [] initPromise = "resolved" -> [waits |-> "idle", has |-> inits]]
  /\ UNCHANGED <<value, initialized, disposed, initPromise, disposal, inits, live>>

\* The first caller starts it.
StartInit(u) ==
  /\ Free(u)
  /\ ~(initialized /\ ~disposed)
  /\ disposal = None
  /\ initPromise = None
  /\ inits < MaxInits
  /\ inits' = inits + 1
  /\ disposed' = FALSE
  /\ initPromise' = "pending"
  /\ users' = [users EXCEPT ![u] = Waiting("init")]
  /\ UNCHANGED <<value, initialized, disposal, live>>

\* init throws before it returns a promise: the catch clears initPromise first, and
\* the assignment that follows stores the rejected promise in it.
StartInitThrows(u) ==
  /\ Free(u)
  /\ ~(initialized /\ ~disposed)
  /\ disposal = None
  /\ initPromise = None
  /\ inits < MaxInits
  /\ inits' = inits + 1
  /\ disposed' = FALSE
  /\ initPromise' = "rejected"
  /\ users' = [users EXCEPT ![u] = Waiting("refused")]
  /\ UNCHANGED <<value, initialized, disposal, live>>

\* init resolves: the handle keeps the instance and everybody gets it.
InitEnds == /\ initPromise = "pending"
            /\ value' = inits
            /\ initialized' = TRUE
            /\ initPromise' = "resolved"
            /\ live' = live \cup {inits}
            /\ users' = Resume("init", [waits |-> "idle", has |-> inits])
            /\ UNCHANGED <<disposed, disposal, inits>>

\* The end of a disposal that leaves no promise behind: the first of the calls
\* that have waited for it starts a new initialisation and the others share it.
AfterDisposal(given) ==
  /\ disposal' = None
  /\ IF SomeoneWaits("disposal") /\ inits < MaxInits
     THEN /\ inits' = inits + 1
          /\ disposed' = FALSE
          /\ \E throws \in BOOLEAN :
               /\ initPromise' = IF throws THEN "rejected" ELSE "pending"
               /\ users' = [u \in Users |->
                     IF users[u].waits = "disposal"
                     THEN Waiting(IF throws THEN "refused" ELSE "init") ELSE given[u]]
     ELSE /\ ~SomeoneWaits("disposal")
          /\ initPromise' = None
          /\ users' = given
          /\ UNCHANGED inits

\* init rejects; a disposal that has waited for it has nothing to dispose of.
InitFails == /\ initPromise = "pending"
             /\ IF disposal = "waits"
                THEN /\ AfterDisposal(Resume("init", Waiting("refused")))
                     /\ ~SomeoneWaits("disposal") => UNCHANGED disposed
                ELSE /\ initPromise' = None
                     /\ users' = Resume("init", Waiting("refused"))
                     /\ UNCHANGED <<disposal, disposed, inits>>
             /\ UNCHANGED <<value, initialized, live>>

(***************************************************************************)
(* dispose, that is doDispose: a second call shares the promise of the     *)
(* first; nothing is done when nothing was ever asked for.                 *)
(***************************************************************************)
Dispose == /\ initialized \/ initPromise # None
           /\ disposal = None
           /\ disposal' = "waits"
           /\ UNCHANGED <<value, initialized, disposed, initPromise, users, inits, live>>

\* The promise awaited was that of an initialisation that threw at once.
DisposeNothing == /\ disposal = "waits"
                  /\ initPromise = "rejected"
                  /\ AfterDisposal(users)
                  /\ ~SomeoneWaits("disposal") => UNCHANGED disposed
                  /\ UNCHANGED <<value, initialized, live>>

DisposeRuns == /\ disposal = "waits"
               /\ initPromise \in {None, "resolved"}
               /\ disposal' = "runs"
               /\ UNCHANGED <<value, initialized, disposed, initPromise, users, inits, live>>

\* Mutant of DisposeEnds: the promise of the initialisation is not cleared.
DisposeEndsHalf == /\ disposal = "runs"
                   /\ ~SomeoneWaits("disposal")
                   /\ live' = live \ {value}
                   /\ value' = None
                   /\ initialized' = FALSE
                   /\ disposed' = TRUE
                   /\ disposal' = None
                   /\ UNCHANGED <<initPromise, users, inits>>

DisposeEnds == /\ disposal = "runs"
               /\ live' = live \ {value}
               /\ value' = None
               /\ initialized' = FALSE
               /\ AfterDisposal(users)
               /\ ~SomeoneWaits("disposal") => disposed' = TRUE

\* disposeFn rejects: the handle stays as it is and the calls that wait are refused.
DisposeFails == /\ disposal = "runs"
                /\ disposal' = None
                /\ users' = Resume("disposal", Waiting("refused"))
                /\ UNCHANGED <<value, initialized, disposed, initPromise, inits, live>>

Next == \/ \E u \in Users : \/ GetReady(u) \/ GetAfterDisposal(u) \/ GetShared(u)
                            \/ StartInit(u) \/ StartInitThrows(u)
        \/ InitEnds \/ InitFails
        \/ Dispose \/ DisposeNothing \/ DisposeRuns \/ DisposeEnds \/ DisposeFails

Spec == Init /\ [][Next]_resourceVars

(***************************************************************************)
(* Action property.  However gets, disposals, failures and signals overlap, *)
(* whoever is given an instance is given the only one that exists, no       *)
(* second instance is made before the first is disposed of, and the handle  *)
(* knows the one there is, so that it can be disposed of.                   *)
(***************************************************************************)
OneInstance ==
  [][/\ \A u \in Users : users'[u] # users[u] /\ users'[u].has # None => live' = {users'[u].has}
     /\ live' \ live # {} => live = {}
     /\ \A i \in live' : value' = i]_resourceVars
=============================================================================
