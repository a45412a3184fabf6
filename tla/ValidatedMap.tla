---------------------------- MODULE ValidatedMap ----------------------------
(***************************************************************************)
(* ValidatedMap (primitives/validated-map.ts).                             *)
(*                                                                         *)
(* Everything is synchronous, but set and delete call the user's hooks and *)
(* watchers in the middle, and those may call the map again.  The calls    *)
(* under way are a stack; its last frame is inside a hook or a watcher, or *)
(* about to enter one, and only that frame goes on or calls the map.       *)
(*                                                                         *)
(* Valid are the entries that pass the validators and the refinement,      *)
(* after the transformation; Allowed the maps that the invariant accepts.  *)
(* Refused calls leave the map alone and are left out; load, loadEntries,  *)
(* merge and fromJSON are sequences of set.  The watcher of a key is the   *)
(* last of those it has: the others are told between "after" and "told".   *)
(***************************************************************************)
EXTENDS Naturals, Sequences, FiniteSets, SequencesExt

CONSTANTS Keys,      \* the ones that are used
          Values,
          Valid,     \* pairs of a key and a value
          Allowed,   \* maps, as functions with None for a key that has no entry
          MaxCalls,  \* bound on the calls
          None

\* What delete and clear rely on, for they do not ask the invariant.
MapAssumption ==
  /\ IsFiniteSet(Keys)
  /\ Valid \subseteq Keys \X Values
  /\ Allowed \subseteq [Keys -> Values \cup {None}]
  /\ \A m \in Allowed, k \in Keys : [m EXCEPT ![k] = None] \in Allowed
  /\ [k \in Keys |-> None] \in Allowed
  /\ MaxCalls \in Nat

VARIABLES
  inner,     \* the map
  watched,   \* the keys that have a watcher
  told,      \* the value that the watcher of a key has seen last
  frames,    \* the stack of calls
  called,    \* how many calls there have been
  nested,    \* a set was called during the hook that comes before another set
  overtaken  \* keys that were written while their watcher was about to be told of a write

mapVars == <<inner, watched, told, frames, called, nested, overtaken>>

Entry == Values \cup {None}
Frame == [op : {"set", "delete", "clear"}, key : Keys \cup {None}, value : Entry,
          at : {"before", "after", "told"}, todo : SUBSET Keys]

TypeOK ==
  /\ inner \in [Keys -> Entry] /\ told \in [Keys -> Entry]
  /\ watched \subseteq Keys /\ overtaken \subseteq Keys
  /\ frames \in Seq(Frame) /\ called \in 0..MaxCalls /\ nested \in BOOLEAN

Init ==
  /\ inner = [k \in Keys |-> None] /\ told = inner
  /\ watched = {} /\ frames = <<>> /\ called = 0 /\ nested = FALSE /\ overtaken = {}

Idle == frames = <<>>
Top == Last(frames)
At(op, where) == ~Idle /\ Top.op = op /\ Top.at = where
Goto(where) == frames' = Front(frames) \o <<[Top EXCEPT !.at = where]>>
Return == frames' = Front(frames)

Call(frame) ==
  /\ called < MaxCalls
  /\ called' = called + 1
  /\ frames' = Append(frames, frame)

\* Frames whose watchers are still to be told of a write to the key.
Untold(stack) ==
  {stack[i].key : i \in {j \in DOMAIN stack : stack[j].at = "after"}}
    \cup UNION {stack[i].todo : i \in DOMAIN stack}

Write(k, v) ==
  /\ inner' = [inner EXCEPT ![k] = v]
  /\ overtaken' = overtaken \cup ({k} \cap Untold(Front(frames)))

Notify(k, v) ==
  told' = IF k \in watched THEN [told EXCEPT ![k] = v] ELSE told

-----------------------------------------------------------------------------
\* Mutant of Tentative: the invariant is asked about the map as it is.
Present(k, v) == inner

\* runInvariant: the map as it would be.
Tentative(k, v) == [inner EXCEPT ![k] = v]

\* set, up to onBeforeSet.
Set(k, v) ==
  /\ <<k, v>> \in Valid
  /\ Tentative(k, v) \in Allowed
  /\ Call([op |-> "set", key |-> k, value |-> v, at |-> "before", todo |-> {}])
  /\ nested' = (nested \/ \E i \in DOMAIN frames :
                            frames[i].op = "set" /\ frames[i].at = "before")
  /\ UNCHANGED <<inner, watched, told, overtaken>>

\* onBeforeSet or onBeforeDelete returns false.
HookRefuses ==
  /\ ~Idle /\ Top.at = "before"
  /\ Return
  /\ UNCHANGED <<inner, watched, told, called, nested, overtaken>>

\* The entry is written, and onAfterSet called.
Assign ==
  /\ At("set", "before")
  /\ Write(Top.key, Top.value)
  /\ Goto("after")
  /\ UNCHANGED <<watched, told, called, nested>>

\* delete, up to onBeforeDelete.
Delete(k) ==
  /\ inner[k] # None
  /\ Call([op |-> "delete", key |-> k, value |-> None, at |-> "before", todo |-> {}])
  /\ UNCHANGED <<inner, watched, told, nested, overtaken>>

\* The entry is removed and onAfterDelete called, unless the first hook has removed it.
Unset ==
  /\ At("delete", "before")
  /\ \/ /\ inner[Top.key] # None
        /\ Write(Top.key, None)
        /\ Goto("after")
     \/ /\ inner[Top.key] = None
        /\ Return
        /\ UNCHANGED <<inner, overtaken>>
  /\ UNCHANGED <<watched, told, called, nested>>

\* notifyWatchers, for a set or a delete.
Tell ==
  /\ ~Idle /\ Top.at = "after"
  /\ Notify(Top.key, Top.value)
  /\ Goto("told")
  /\ UNCHANGED <<inner, watched, called, nested, overtaken>>

\* clear has no hooks: everything goes at once.
Clear ==
  /\ Call([op |-> "clear", key |-> None, value |-> None, at |-> "told",
           todo |-> {k \in Keys : inner[k] # None}])
  /\ inner' = [k \in Keys |-> None]
  /\ overtaken' = overtaken \cup ({k \in Keys : inner[k] # None} \cap Untold(frames))
  /\ UNCHANGED <<watched, told, nested>>

\* And then the watchers of what had been there.
TellCleared ==
  /\ At("clear", "told")
  /\ \E k \in Top.todo :
       /\ Notify(k, None)
       /\ frames' = Front(frames) \o <<[Top EXCEPT !.todo = @ \ {k}]>>
  /\ UNCHANGED <<inner, watched, called, nested, overtaken>>

\* The last watcher has returned.
End ==
  /\ ~Idle /\ Top.at = "told" /\ Top.todo = {}
  /\ Return
  /\ UNCHANGED <<inner, watched, told, called, nested, overtaken>>

\* watch, by someone who has read the value.
Watch(k) ==
  /\ k \notin watched
  /\ watched' = watched \cup {k}
  /\ told' = [told EXCEPT ![k] = inner[k]]
  /\ UNCHANGED <<inner, frames, called, nested, overtaken>>

Unwatch(k) ==
  /\ k \in watched
  /\ watched' = watched \ {k}
  /\ told' = [told EXCEPT ![k] = None]
  /\ UNCHANGED <<inner, frames, called, nested, overtaken>>

Next ==
  \/ \E k \in Keys : Delete(k) \/ Watch(k) \/ Unwatch(k) \/ \E v \in Values : Set(k, v)
  \/ HookRefuses \/ Assign \/ Unset \/ Tell \/ Clear \/ TellCleared \/ End

Spec == Init /\ [][Next]_mapVars

-----------------------------------------------------------------------------
\* pick; omit picks the other keys, and readonly picks all.
Pick(keys) == [k \in Keys |-> IF k \in keys THEN inner[k] ELSE None]

(***************************************************************************)
(* The invariant holds of the map and of every copy of a part of it, in    *)
(* the middle of a call too, unless a set is called during the hook that   *)
(* comes before another set, whose check is then out of date.  And whoever *)
(* watches a key has seen its value when nobody is about to be told, but   *)
(* for keys that a hook or a watcher has written while it was called on    *)
(* account of a write to the same key.                                     *)
(***************************************************************************)
MapCoherent ==
  /\ ~nested => \A keys \in SUBSET Keys : Pick(keys) \in Allowed
  /\ \A k \in watched \ (overtaken \cup Untold(frames)) : told[k] = inner[k]
=============================================================================
