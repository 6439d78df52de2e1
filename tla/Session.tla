------------------------------ MODULE Session -------------------------------
(***************************************************************************)
(* The state of one SessionShim (backend/app/db/session.py) as a value,    *)
(* and its operations as functions of it: what every request handler does  *)
(* to the documents it reads, changes and creates before it commits.       *)
(*                                                                         *)
(*   objs     the Python objects the handler holds, in order of creation:  *)
(*            the document's id and the attributes it would be saved with  *)
(*   tracked  the dict from id to (object, snapshot), in insertion order   *)
(*   pending  the objects passed to add(), in order                        *)
(*                                                                         *)
(* An object is referred to by its index in objs.                          *)
(***************************************************************************)
EXTENDS Naturals, Sequences, FiniteSets, SequencesExt

NoSession == [objs |-> <<>>, tracked |-> <<>>, pending |-> <<>>]

Newest(s) == Len(s.objs)
IdOf(s, n) == s.objs[n].id
ValOf(s, n) == s.objs[n].val

\* (Mutant: an identity map; a document fetched before is not read again.)
FetchOnce(s, id, val) ==
  IF \E i \in DOMAIN s.tracked : IdOf(s, s.tracked[i].obj) = id THEN s
  ELSE [s EXCEPT !.objs = Append(@, [id |-> id, val |-> val]),
                 !.tracked = Append(@, [obj |-> Newest(s) + 1, snapshot |-> val])]

\* query(...).first() finds document id with value val.  Fetching an id again
\* makes a second object, and tracked forgets the first one.
Fetch(s, id, val) ==
  LET entry == [obj |-> Newest(s) + 1, snapshot |-> val]
      earlier == {i \in DOMAIN s.tracked : IdOf(s, s.tracked[i].obj) = id}
  IN  [s EXCEPT
         !.objs = Append(@, [id |-> id, val |-> val]),
         !.tracked = IF earlier = {} THEN Append(@, entry)
                     ELSE [i \in DOMAIN @ |-> IF i \in earlier THEN entry ELSE @[i]]]

\* An attribute assignment leaves object n with value val.
Assign(s, n, val) == [s EXCEPT !.objs[n].val = val]

\* add() of an object the handler holds; of a new one.
AddObject(s, n) == [s EXCEPT !.pending = Append(@, n)]
AddNew(s, id, val) ==
  [s EXCEPT !.objs = Append(@, [id |-> id, val |-> val]),
            !.pending = Append(@, Newest(s) + 1)]

\* A finite set of numbers in increasing order, and the objects of the entries
\* of tracked with these numbers.
InOrder(S) ==
  CHOOSE q \in [1..Cardinality(S) -> S] : \A i, j \in DOMAIN q : i < j => q[i] < q[j]
ObjectsOf(s, S) == [i \in 1..Cardinality(S) |-> s.tracked[InOrder(S)[i]].obj]

\* The tracked objects that differ from their snapshot.
Dirty(s) == {i \in DOMAIN s.tracked : ValOf(s, s.tracked[i].obj) # s.tracked[i].snapshot}

\* (Mutants: the tracked objects before the added ones; all the tracked ones.)
WritesTrackedFirst(s) == ObjectsOf(s, Dirty(s)) \o s.pending
WritesUnmodified(s) == s.pending \o ObjectsOf(s, DOMAIN s.tracked)

\* The objects commit() writes, in order: the added ones, then the tracked ones
\* that differ from their snapshot and whose id was not added.
Writes(s) ==
  LET added == {IdOf(s, s.pending[i]) : i \in DOMAIN s.pending}
  IN  s.pending \o ObjectsOf(s, {i \in Dirty(s) : IdOf(s, s.tracked[i].obj) \notin added})

\* The session after a commit that wrote something: the handler still holds
\* its objects, but none of them is tracked any more.
Committed(s) == [s EXCEPT !.tracked = <<>>, !.pending = <<>>]
=============================================================================
