------------------------------ MODULE Queries ------------------------------
(***************************************************************************)
(* Searching the work items (adapters/query) and counting them (the use    *)
(* case reportCounts).  A query has a field for each condition, None when  *)
(* there is no such condition; the equality of fields stands with status.  *)
(***************************************************************************)
EXTENDS Integers, Sequences, SequencesExt, FiniteSetsExt

CONSTANT None

Sorts == {"created_at_asc", "created_at_desc", "updated_at_asc", "updated_at_desc"}

\* compareWorkItems: ids decide between equal times, in the direction of the sort.
Precedes(left, right, sort) ==
  LET Earlier(l, r, s, t) == l < r \/ (l = r /\ s < t) IN
  CASE sort = "created_at_asc" -> Earlier(left.created, right.created, left.id, right.id)
    [] sort = "created_at_desc" -> Earlier(right.created, left.created, right.id, left.id)
    [] sort = "updated_at_asc" -> Earlier(left.updated, right.updated, left.id, right.id)
    [] sort = "updated_at_desc" -> Earlier(right.updated, left.updated, right.id, left.id)

\* resolveActorWorkItemIds, from all events of the actor.
OfActor(actor, events) == {e.item : e \in {e \in events : e.actor = actor}} \ {None}

Selected(items, events, query) ==
  {i \in items :
     /\ query.status # None => i.status = query.status
     /\ query.actor # None => i.id \in OfActor(query.actor, events)
     /\ query.after # None => i.updated >= query.after
     /\ query.before # None => i.updated <= query.before}

\* paginate; without a limit a page has all.
Page(sequence, offset, limit) ==
  SubSeq(sequence, offset + 1, Min({offset + limit, Len(sequence)}))

Search(items, events, query) ==
  LET sorted == SetToSortSeq(Selected(items, events, query),
                             LAMBDA l, r : Precedes(l, r, query.sort))
  IN  [items |-> Page(sorted, query.offset,
                      IF query.limit = None THEN Len(sorted) ELSE query.limit),
       total |-> Len(sorted)]

\* reportCounts, which drops the query's limit and offset.
Counts(items, events, query) ==
  LET found == Range(Search(items, events, [query EXCEPT !.limit = None, !.offset = 0]).items)
  IN  [s \in {i.status : i \in found} |-> Cardinality({i \in found : i.status = s})]

-----------------------------------------------------------------------------
Opposite ==
  [sort \in Sorts |-> CASE sort = "created_at_asc" -> "created_at_desc"
                        [] sort = "created_at_desc" -> "created_at_asc"
                        [] sort = "updated_at_asc" -> "updated_at_desc"
                        [] sort = "updated_at_desc" -> "updated_at_asc"]

(***************************************************************************)
(* A client that reads page after page, until the pages have the total,    *)
(* has every selected item once and in the order of the query, whatever    *)
(* the size of a page; the other direction is the reverse; and a report    *)
(* counts every selected item, whatever page its query names.              *)
(***************************************************************************)
PagesWhole(items, events, query) ==
  LET whole == [query EXCEPT !.limit = None, !.offset = 0]
      all == Search(items, events, whole)
      back == [whole EXCEPT !.sort = Opposite[@]]
      counts == Counts(items, events, query)
  IN  /\ Range(all.items) = Selected(items, events, query)
      /\ query.limit # None =>
           LET pages == (all.total + query.limit - 1) \div query.limit
               page(n) == Search(items, events, [query EXCEPT !.offset = (n - 1) * query.limit])
           IN  /\ FlattenSeq([n \in 1..pages |-> page(n).items]) = all.items
               /\ \A n \in 1..pages : page(n).items # <<>> /\ page(n).total = all.total
      /\ Reverse(Search(items, events, back).items) = all.items
      /\ MapThenSumSet(LAMBDA s : counts[s], DOMAIN counts) = all.total
=============================================================================
