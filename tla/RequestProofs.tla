---------------------------- MODULE RequestProofs -----------------------------
(***************************************************************************)
(* Lemmas about the operators every handler is built from, for any         *)
(* documents.  First the operations of a session: a session over a set of  *)
(* items stays one, references go to objects it holds, a commit begins     *)
(* with what was added and writes nothing but what was added or changed.   *)
(* Then the requests: what starting, flushing, log_event and a write make  *)
(* of one.  The proofs about the handlers cite these facts instead of the  *)
(* definitions.                                                            *)
(***************************************************************************)
EXTENDS Request, FiniteSetTheorems, TLAPS

-----------------------------------------------------------------------------
(* Sessions *)

Increasing(q, n) == \A i, j \in 1..n : i < j => q[i] < q[j]

\* Every finite set of positive numbers can be put in order: by induction on its bound.
LEMMA Orderable ==
  ASSUME NEW n \in Nat, NEW S \in SUBSET (1..n)
  PROVE  \E q \in [1..Cardinality(S) -> S] : Increasing(q, Cardinality(S))
<1> DEFINE Has(T) == \E q \in [1..Cardinality(T) -> T] : Increasing(q, Cardinality(T))
           Bad == {m \in Nat : \E T \in SUBSET (1..m) : ~Has(T)}
<1>1. SUFFICES Bad = {}
  BY <1>1
<1>2. SUFFICES ASSUME Bad # {} PROVE FALSE
  OBVIOUS
<1>3. PICK m \in Bad : \A k \in Bad : ~ (<<k, m>> \in OpToRel(<, Nat))
  <2>1. Bad \subseteq Nat
    OBVIOUS
  <2> HIDE DEF Bad
  <2> QED BY <2>1, <1>2, NatLessThanWellFounded, WFMin
<1>4. \A k \in Nat : k < m => k \notin Bad
  <2> HIDE DEF Has
  <2> QED BY <1>3 DEF OpToRel
<1>5. PICK T \in SUBSET (1..m) : ~Has(T)
  BY <1>3
<1>6. m \in Nat /\ IsFiniteSet(T)
  <2>1. m \in Nat
    BY <1>3
  <2>2. IsFiniteSet(1..m)
    BY <2>1, FS_Interval
  <2> QED BY <2>1, <2>2, FS_Subset
<1>7. CASE m = 0
  <2>1. T = {}
    BY <1>7, <1>5
  <2>2. Cardinality(T) = 0
    BY <2>1, FS_EmptySet
  <2>3. <<>> \in [1..0 -> T] /\ Increasing(<<>>, 0)
    BY DEF Increasing
  <2> QED BY <1>5, <2>2, <2>3
<1>8. CASE m # 0 /\ m \notin T
  <2>1. T \in SUBSET (1..(m-1)) /\ m - 1 \in Nat /\ m - 1 < m
    BY <1>8, <1>6
  <2>2. m - 1 \notin Bad
    BY <2>1, <1>4
  <2> HIDE DEF Has
  <2> QED BY <2>1, <2>2, <1>5
<1>9. CASE m # 0 /\ m \in T
  <2> DEFINE U == T \ {m}
             k == Cardinality(U)
  <2>1. U \in SUBSET (1..(m-1)) /\ m - 1 \in Nat /\ m - 1 < m
    BY <1>9, <1>6
  <2>2. m - 1 \notin Bad
    BY <2>1, <1>4
  <2>3. Has(U)
    <3> HIDE DEF Has
    <3> QED BY <2>1, <2>2
  <2>4. k \in Nat /\ Cardinality(T) = k + 1
    <3>1. IsFiniteSet(U) /\ Cardinality(U) = Cardinality(T) - 1
      BY <1>6, <1>9, FS_RemoveElement
    <3>2. Cardinality(U) \in Nat /\ Cardinality(T) \in Nat
      BY <1>6, <3>1, FS_CardinalityType
    <3> QED BY <3>1, <3>2
  <2>5. PICK q \in [1..k -> U] : Increasing(q, k)
    BY <2>3
  <2> HIDE DEF k
  <2> DEFINE r == [i \in 1..(k + 1) |-> IF i = k + 1 THEN m ELSE q[i]]
  <2>6. r \in [1..(k + 1) -> T]
    BY <2>4, <2>5, <1>9
  <2>7. Increasing(r, k + 1)
    <3> SUFFICES ASSUME NEW i \in 1..(k + 1), NEW j \in 1..(k + 1), i < j PROVE r[i] < r[j]
      BY DEF Increasing
    <3>1. CASE j = k + 1
      <4>1. i \in 1..k /\ q[i] \in 1..(m - 1)
        <5>1. i \in 1..k
          BY <3>1, <2>4
        <5>2. q[i] \in U
          BY <5>1, <2>5
        <5> QED BY <5>1, <5>2, <2>1
      <4>2. r[i] = q[i] /\ r[j] = m
        BY <3>1, <4>1, <2>4
      <4> QED BY <4>1, <4>2, <1>6
    <3>2. CASE j # k + 1
      BY <3>2, <2>4, <2>5 DEF Increasing
    <3> QED BY <3>1, <3>2
  <2> QED BY <2>4, <2>6, <2>7, <1>5
<1> QED BY <1>6, <1>7, <1>8, <1>9

\* A set of numbers up to n in increasing order: a sequence of its elements.
LEMMA InOrderType ==
  ASSUME NEW n \in Nat, NEW S \in SUBSET (1..n)
  PROVE  InOrder(S) \in [1..Cardinality(S) -> S] /\ Cardinality(S) \in Nat
<1>1. Cardinality(S) \in Nat
  <2>1. IsFiniteSet(1..n)
    BY FS_Interval
  <2>2. IsFiniteSet(S)
    BY <2>1, FS_Subset
  <2> QED BY <2>2, FS_CardinalityType
<1>2. PICK q \in [1..Cardinality(S) -> S] : Increasing(q, Cardinality(S))
  BY Orderable
<1>3. DOMAIN q = 1..Cardinality(S)
  BY <1>2
<1>4. \E p \in [1..Cardinality(S) -> S] : \A i, j \in DOMAIN p : i < j => p[i] < p[j]
  BY <1>2, <1>3 DEF Increasing
<1> QED BY <1>1, <1>4 DEF InOrder

\* A sequence whose elements are all in U is a sequence over U.
LEMMA SeqOver ==
  ASSUME NEW T, NEW U, NEW q \in Seq(T), \A i \in DOMAIN q : q[i] \in U
  PROVE  q \in Seq(U)
<1>1. q = [i \in 1..Len(q) |-> q[i]] /\ Len(q) \in Nat
  OBVIOUS
<1>2. \A i \in 1..Len(q) : q[i] \in U
  OBVIOUS
<1> QED BY <1>1, <1>2

-----------------------------------------------------------------------------
\* Sessions whose objects are among Items; every reference is to one of them.
Entries(Items) == [obj : Nat, snapshot : {i.val : i \in Items}]
Sessions(Items) ==
  {s \in [objs : Seq(Items), tracked : Seq(Entries(Items)), pending : Seq(Nat)] :
     /\ \A i \in DOMAIN s.tracked : s.tracked[i].obj \in DOMAIN s.objs
     /\ \A i \in DOMAIN s.pending : s.pending[i] \in DOMAIN s.objs}

\* w begins with p.
StartsWith(w, p) == \A i \in DOMAIN p : i \in DOMAIN w /\ w[i] = p[i]

\* A commit writes objects of the session, and first of all what was added, in
\* that order.
LEMMA WritesType ==
  ASSUME NEW Items, NEW s \in Sessions(Items)
  PROVE  /\ Writes(s) \in Seq(DOMAIN s.objs)
         /\ StartsWith(Writes(s), s.pending)
<1> DEFINE added == {IdOf(s, s.pending[i]) : i \in DOMAIN s.pending}
           S == {i \in Dirty(s) : IdOf(s, s.tracked[i].obj) \notin added}
           n == Len(s.tracked)
<1>1. /\ s.tracked \in Seq(Entries(Items))
      /\ s.pending \in Seq(Nat)
      /\ \A i \in DOMAIN s.tracked : s.tracked[i].obj \in DOMAIN s.objs
      /\ \A i \in DOMAIN s.pending : s.pending[i] \in DOMAIN s.objs
  BY DEF Sessions
<1>2. n \in Nat /\ DOMAIN s.tracked = 1..n
  BY <1>1
<1>3. S \in SUBSET (1..n)
  BY <1>2 DEF Dirty
<1> HIDE DEF S
<1>4. InOrder(S) \in [1..Cardinality(S) -> S] /\ Cardinality(S) \in Nat
  BY <1>2, <1>3, InOrderType
<1>5. ObjectsOf(s, S) \in Seq(DOMAIN s.objs)
  <2>1. \A i \in 1..Cardinality(S) : s.tracked[InOrder(S)[i]].obj \in DOMAIN s.objs
    BY <1>1, <1>2, <1>3, <1>4
  <2> QED BY <2>1, <1>4 DEF ObjectsOf
<1>6. s.pending \in Seq(DOMAIN s.objs)
  BY <1>1, SeqOver
<1>7. Writes(s) = s.pending \o ObjectsOf(s, S)
  BY DEF Writes, S
<1>8. ASSUME NEW T, NEW a \in Seq(T), NEW b \in Seq(T)
      PROVE  /\ a \o b \in Seq(T)
             /\ \A i \in DOMAIN a : i \in DOMAIN (a \o b) /\ (a \o b)[i] = a[i]
  OBVIOUS
<1> DEFINE D == DOMAIN s.objs
           a == s.pending
           b == ObjectsOf(s, S)
<1>9. a \in Seq(D) /\ b \in Seq(D)
  BY <1>5, <1>6
<1> HIDE DEF D, a, b
<1>10. /\ a \o b \in Seq(D)
       /\ \A i \in DOMAIN a : i \in DOMAIN (a \o b) /\ (a \o b)[i] = a[i]
  BY <1>8, <1>9
<1> QED BY <1>7, <1>10 DEF D, a, b, StartsWith

\* No object is lost or changed by the operations, except the assigned one.
LEMMA SessionsGrow ==
  ASSUME NEW Items, NEW More, Items \subseteq More
  PROVE  Sessions(Items) \subseteq Sessions(More)
<1> SUFFICES ASSUME NEW s \in Sessions(Items) PROVE s \in Sessions(More)
  OBVIOUS
<1>1. s \in [objs : Seq(Items), tracked : Seq(Entries(Items)), pending : Seq(Nat)]
  BY DEF Sessions
<1>2. Entries(Items) \subseteq Entries(More)
  BY DEF Entries
<1>3. s.objs \in Seq(More)
  <2>1. \A i \in DOMAIN s.objs : s.objs[i] \in More
    BY <1>1
  <2> QED BY <1>1, <2>1, SeqOver
<1>4. s.tracked \in Seq(Entries(More))
  <2>1. \A i \in DOMAIN s.tracked : s.tracked[i] \in Entries(More)
    BY <1>1, <1>2
  <2> QED BY <1>1, <2>1, SeqOver
<1> QED BY <1>1, <1>3, <1>4 DEF Sessions

\* A new session holds nothing.
LEMMA NoSessionType ==
  ASSUME NEW Items
  PROVE  NoSession \in Sessions(Items)
BY DEF NoSession, Sessions

\* add() of a new object appends it to the objects and to what is pending.
LEMMA AddNewType ==
  ASSUME NEW Items, NEW s \in Sessions(Items), NEW id, NEW val, [id |-> id, val |-> val] \in Items
  PROVE  /\ AddNew(s, id, val) \in Sessions(Items)
         /\ AddNew(s, id, val).objs = Append(s.objs, [id |-> id, val |-> val])
         /\ AddNew(s, id, val).pending = Append(s.pending, Len(s.objs) + 1)
<1> DEFINE E == Entries(Items)
           o == [id |-> id, val |-> val]
           objs == Append(s.objs, o)
           pending == Append(s.pending, Len(s.objs) + 1)
           a == [s EXCEPT !.objs = objs, !.pending = pending]
<1>1. s \in [objs : Seq(Items), tracked : Seq(E), pending : Seq(Nat)]
  BY DEF Sessions
<1>2. /\ \A i \in DOMAIN s.tracked : s.tracked[i].obj \in DOMAIN s.objs
      /\ \A i \in DOMAIN s.pending : s.pending[i] \in DOMAIN s.objs
  BY DEF Sessions
<1> HIDE DEF E, o
<1>3. /\ objs \in Seq(Items) /\ pending \in Seq(Nat)
      /\ DOMAIN s.objs \subseteq DOMAIN objs
      /\ \A i \in DOMAIN pending : pending[i] \in DOMAIN objs
  <2>1. o \in Items
    BY DEF o
  <2>2. objs \in Seq(Items) /\ DOMAIN objs = DOMAIN s.objs \cup {Len(s.objs) + 1}
    BY <1>1, <2>1
  <2>3. pending \in Seq(Nat)
    BY <1>1
  <2>4. ASSUME NEW i \in DOMAIN pending PROVE pending[i] \in DOMAIN objs
    <3>1. i = Len(s.pending) + 1 \/ i \in DOMAIN s.pending
      BY <1>1
    <3> QED BY <1>1, <1>2, <2>2, <3>1
  <2> QED BY <2>2, <2>3, <2>4
<1> HIDE DEF objs, pending
<1>4. a \in [objs : Seq(Items), tracked : Seq(E), pending : Seq(Nat)]
  BY <1>1, <1>3
<1>5. a.objs = objs /\ a.pending = pending /\ a.tracked = s.tracked
  BY <1>1
<1>6. a = AddNew(s, id, val)
  BY DEF AddNew, Newest, o, objs, pending
<1> HIDE DEF a
<1>7. a \in Sessions(Items)
  BY <1>2, <1>3, <1>4, <1>5 DEF Sessions, E
<1> QED BY <1>5, <1>6, <1>7 DEF objs, pending, o

\* An object with another value, and the objects with another one at n.
WithVal(o, val) == [o EXCEPT !.val = val]
WithObject(objs, n, o) == [objs EXCEPT ![n] = o]

\* An assignment replaces one object and adds nothing to what is pending.
LEMMA AssignType ==
  ASSUME NEW Items, NEW s \in Sessions(Items), NEW n \in DOMAIN s.objs, NEW val,
         NEW o \in Items, o = WithVal(s.objs[n], val)
  PROVE  /\ Assign(s, n, val) \in Sessions(Items)
         /\ Assign(s, n, val).objs = WithObject(s.objs, n, o)
         /\ Assign(s, n, val).pending = s.pending
<1> DEFINE E == Entries(Items)
           objs == [s.objs EXCEPT ![n] = o]
           a == [s EXCEPT !.objs = objs]
<1>1. s \in [objs : Seq(Items), tracked : Seq(E), pending : Seq(Nat)]
  BY DEF Sessions
<1>2. /\ \A i \in DOMAIN s.tracked : s.tracked[i].obj \in DOMAIN s.objs
      /\ \A i \in DOMAIN s.pending : s.pending[i] \in DOMAIN s.objs
  BY DEF Sessions
<1>3. a = Assign(s, n, val)
  BY DEF Assign, WithVal
<1> HIDE DEF E
<1>4. objs \in Seq(Items) /\ DOMAIN objs = DOMAIN s.objs
  BY <1>1
<1> HIDE DEF objs
<1>5. a \in [objs : Seq(Items), tracked : Seq(E), pending : Seq(Nat)]
  BY <1>1, <1>4
<1>6. a.objs = objs /\ a.pending = s.pending /\ a.tracked = s.tracked
  BY <1>1
<1> HIDE DEF a
<1>7. a \in Sessions(Items)
  BY <1>2, <1>4, <1>5, <1>6 DEF Sessions, E
<1> QED BY <1>3, <1>6, <1>7 DEF objs, WithObject

\* A query appends one object and adds nothing to what is pending.
LEMMA FetchType ==
  ASSUME NEW Items, NEW s \in Sessions(Items), NEW id, NEW val, [id |-> id, val |-> val] \in Items
  PROVE  /\ Fetch(s, id, val) \in Sessions(Items)
         /\ Fetch(s, id, val).objs = Append(s.objs, [id |-> id, val |-> val])
         /\ Fetch(s, id, val).pending = s.pending
<1> DEFINE E == Entries(Items)
           o == [id |-> id, val |-> val]
           entry == [obj |-> Newest(s) + 1, snapshot |-> val]
           earlier == {i \in DOMAIN s.tracked : IdOf(s, s.tracked[i].obj) = id}
           objs == Append(s.objs, o)
           tracked == IF earlier = {} THEN Append(s.tracked, entry)
                      ELSE [i \in DOMAIN s.tracked |-> IF i \in earlier THEN entry ELSE s.tracked[i]]
           a == [s EXCEPT !.objs = objs, !.tracked = tracked]
<1>1. s \in [objs : Seq(Items), tracked : Seq(E), pending : Seq(Nat)]
  BY DEF Sessions
<1>2. /\ \A i \in DOMAIN s.tracked : s.tracked[i].obj \in DOMAIN s.objs
      /\ \A i \in DOMAIN s.pending : s.pending[i] \in DOMAIN s.objs
  BY DEF Sessions
<1>3. a = Fetch(s, id, val)
  BY DEF Fetch
<1>4. o \in Items /\ entry \in E /\ entry.obj = Len(s.objs) + 1
  BY <1>1 DEF Entries, Newest
<1> HIDE DEF E, o, entry, earlier
<1>5. /\ objs \in Seq(Items)
      /\ DOMAIN objs = DOMAIN s.objs \cup {Len(s.objs) + 1}
  BY <1>1, <1>4
<1>6. /\ tracked \in Seq(E)
      /\ \A i \in DOMAIN tracked : tracked[i] = entry \/ (i \in DOMAIN s.tracked /\ tracked[i] = s.tracked[i])
  <2>1. CASE earlier = {}
    <3>1. tracked = Append(s.tracked, entry)
      BY <2>1
    <3> HIDE DEF tracked
    <3>2. s.tracked \in Seq(E) /\ entry \in E
      BY <1>1, <1>4
    <3> QED BY <3>1, <3>2
  <2>2. CASE earlier # {}
    <3>1. tracked = [i \in 1..Len(s.tracked) |-> IF i \in earlier THEN entry ELSE s.tracked[i]]
      <4>1. DOMAIN s.tracked = 1..Len(s.tracked)
        BY <1>1
      <4> QED BY <2>2, <4>1, Zenon
    <3> HIDE DEF tracked
    <3>2. s.tracked \in Seq(E) /\ entry \in E
      BY <1>1, <1>4
    <3> QED BY <3>1, <3>2
  <2> QED BY <2>1, <2>2
<1> HIDE DEF objs, tracked
<1>7. \A i \in DOMAIN tracked : tracked[i].obj \in DOMAIN objs
  BY <1>2, <1>4, <1>5, <1>6
<1>8. \A i \in DOMAIN s.pending : s.pending[i] \in DOMAIN objs
  BY <1>2, <1>5
<1>9. a \in [objs : Seq(Items), tracked : Seq(E), pending : Seq(Nat)]
  BY <1>1, <1>5, <1>6
<1>10. a.objs = objs /\ a.pending = s.pending /\ a.tracked = tracked
  BY <1>1
<1> HIDE DEF a
<1>11. a \in Sessions(Items)
  BY <1>7, <1>8, <1>9, <1>10 DEF Sessions, E
<1> QED BY <1>3, <1>10, <1>11 DEF objs, o

\* A commit leaves the objects, and nothing pending.
LEMMA CommittedType ==
  ASSUME NEW Items, NEW s \in Sessions(Items)
  PROVE  /\ Committed(s) \in Sessions(Items)
         /\ Committed(s).objs = s.objs
         /\ Committed(s).pending = <<>>
<1> DEFINE E == Entries(Items)
           none == <<>>
           a == [s EXCEPT !.tracked = none, !.pending = none]
<1>1. s \in [objs : Seq(Items), tracked : Seq(E), pending : Seq(Nat)]
  BY DEF Sessions
<1>2. none \in Seq(E) /\ none \in Seq(Nat) /\ DOMAIN none = {}
  OBVIOUS
<1>3. a = Committed(s)
  BY DEF Committed
<1> HIDE DEF E, none
<1>4. a \in [objs : Seq(Items), tracked : Seq(E), pending : Seq(Nat)]
  BY <1>1, <1>2
<1>5. a.objs = s.objs /\ a.pending = none /\ a.tracked = none
  BY <1>1
<1> HIDE DEF a
<1>6. a \in Sessions(Items)
  BY <1>2, <1>4, <1>5 DEF Sessions, E
<1> QED BY <1>3, <1>5, <1>6 DEF none

\* The objects new are those of old and possibly o.
OnlyAdds(new, old, o) == \A n \in DOMAIN new : new[n] = o \/ (n \in DOMAIN old /\ new[n] = old[n])

\* Appending an object adds it and changes no other.
LEMMA AppendAdds ==
  ASSUME NEW Items, NEW q \in Seq(Items), NEW o \in Items
  PROVE  OnlyAdds(Append(q, o), q, o)
BY DEF OnlyAdds

\* What a sequence with one more element consists of.
LEMMA AppendFacts ==
  ASSUME NEW Items, NEW g \in Seq(Items), NEW o \in Items, NEW q, q = Append(g, o)
  PROVE  /\ Len(q) = Len(g) + 1 /\ DOMAIN q = DOMAIN g \cup {Len(q)}
         /\ q[Len(q)] = o /\ \A m \in DOMAIN g : q[m] = g[m]
OBVIOUS

\* What a sequence of one element with one more consists of.
LEMMA SecondFacts ==
  ASSUME NEW Items, NEW g \in Seq(Items), NEW o \in Items, NEW q, q = Append(g, o)
  PROVE  Len(g) = 1 => 2 \in DOMAIN q /\ q[2] = o
<1>1. Len(q) = Len(g) + 1 /\ DOMAIN q = DOMAIN g \cup {Len(q)} /\ q[Len(q)] = o
  BY AppendFacts
<1>2. Len(g) = 1 => Len(q) = 2
  BY <1>1
<1> QED BY <1>1, <1>2

\* A fetch with an assignment to the object fetched.
LEMMA FetchAssignType ==
  ASSUME NEW Items, NEW s \in Sessions(Items), NEW id, NEW val, NEW new,
         [id |-> id, val |-> val] \in Items, [id |-> id, val |-> new] \in Items
  PROVE  LET f == Fetch(s, id, val)
             a == Assign(f, Newest(f), new)
         IN  /\ Newest(f) = Len(s.objs) + 1
             /\ a \in Sessions(Items)
             /\ OnlyAdds(a.objs, s.objs, [id |-> id, val |-> new])
             /\ StartsWith(a.objs, s.objs)
             /\ a.pending = s.pending
<1> DEFINE f == Fetch(s, id, val)
           n == Len(s.objs) + 1
           o == [id |-> id, val |-> val]
           p == [id |-> id, val |-> new]
           a == Assign(f, n, new)
<1>1. f \in Sessions(Items) /\ f.objs = Append(s.objs, o) /\ f.pending = s.pending
  BY FetchType
<1>2. s.objs \in Seq(Items) /\ o \in Items /\ p \in Items
  BY DEF Sessions
<1>3. WithVal(o, new) = p
  BY DEF WithVal
<1> HIDE DEF o, p, f
<1>4. n \in DOMAIN f.objs /\ f.objs[n] = o /\ Newest(f) = n
  BY <1>1, <1>2 DEF Newest
<1>5. OnlyAdds(WithObject(f.objs, n, p), s.objs, p) /\ StartsWith(WithObject(f.objs, n, p), s.objs)
  <2> DEFINE q == f.objs
             g == s.objs
  <2>1. q = Append(g, o) /\ g \in Seq(Items) /\ n = Len(g) + 1
    BY <1>1, <1>2
  <2> HIDE DEF q, g, n
  <2>2. /\ \A i \in DOMAIN q : i = n \/ (i \in DOMAIN g /\ q[i] = g[i])
        /\ \A i \in DOMAIN g : i \in DOMAIN q /\ q[i] = g[i] /\ i # n
    BY <2>1
  <2>3. OnlyAdds(WithObject(q, n, p), g, p) /\ StartsWith(WithObject(q, n, p), g)
    BY <2>2 DEF OnlyAdds, StartsWith, WithObject
  <2> QED BY <2>3 DEF q, g
<1> HIDE DEF n
<1>6. p = WithVal(f.objs[n], new)
  BY <1>3, <1>4
<1>7. a \in Sessions(Items) /\ a.objs = WithObject(f.objs, n, p) /\ a.pending = f.pending
  <2>1. \A t \in Sessions(Items) : \A m \in DOMAIN t.objs : \A v : \A y \in Items :
          y = WithVal(t.objs[m], v)
            => /\ Assign(t, m, v) \in Sessions(Items)
               /\ Assign(t, m, v).objs = WithObject(t.objs, m, y)
               /\ Assign(t, m, v).pending = t.pending
    BY AssignType
  <2>2. f \in Sessions(Items) /\ n \in DOMAIN f.objs /\ p \in Items /\ p = WithVal(f.objs[n], new)
    BY <1>1, <1>2, <1>4, <1>6
  <2> QED BY <2>1, <2>2
<1> HIDE DEF a
<1>8. OnlyAdds(a.objs, s.objs, p) /\ StartsWith(a.objs, s.objs) /\ a.pending = s.pending
  BY <1>1, <1>5, <1>7
<1>9. a = Assign(f, Newest(f), new)
  BY <1>4 DEF a
<1> QED BY <1>4, <1>7, <1>8, <1>9 DEF p, f, n

\* The same in a new session.
LEMMA FirstObject ==
  ASSUME NEW Items, NEW id, NEW val, NEW new,
         [id |-> id, val |-> val] \in Items, [id |-> id, val |-> new] \in Items
  PROVE  LET a == Assign(Fetch(NoSession, id, val), 1, new)
         IN  /\ a \in Sessions(Items)
             /\ \A n \in DOMAIN a.objs : a.objs[n] = [id |-> id, val |-> new]
             /\ a.pending = <<>>
<1> DEFINE f == Fetch(NoSession, id, val)
           p == [id |-> id, val |-> new]
           a == Assign(f, Newest(f), new)
<1>1. NoSession \in Sessions(Items) /\ NoSession.objs = <<>> /\ NoSession.pending = <<>>
  BY NoSessionType DEF NoSession
<1>2. /\ Newest(f) = Len(NoSession.objs) + 1
      /\ a \in Sessions(Items)
      /\ OnlyAdds(a.objs, NoSession.objs, p)
      /\ a.pending = NoSession.pending
  BY SMTT(40), <1>1, FetchAssignType
<1> HIDE DEF p, f
<1>3. Newest(f) = 1 /\ a.pending = <<>> /\ \A n \in DOMAIN a.objs : a.objs[n] = p
  BY <1>1, <1>2 DEF OnlyAdds
<1> QED BY <1>2, <1>3 DEF p, f

\* What the concatenation of two sequences consists of.
LEMMA ConcatFacts ==
  ASSUME NEW T, NEW a \in Seq(T), NEW b \in Seq(T), NEW q, q = a \o b
  PROVE  /\ q \in Seq(T) /\ DOMAIN a \subseteq DOMAIN q
         /\ \A n \in DOMAIN q : \/ n \in DOMAIN a /\ q[n] = a[n]
                                \/ \E i \in DOMAIN b : n = Len(a) + i /\ q[n] = b[i]
         /\ \A n \in DOMAIN a : q[n] = a[n]
         /\ \A i \in DOMAIN b : Len(a) + i \in DOMAIN q /\ q[Len(a) + i] = b[i]
<1>1. q \in Seq(T) /\ DOMAIN a = 1..Len(a) /\ DOMAIN b = 1..Len(b) /\ DOMAIN q = 1..(Len(a) + Len(b))
      /\ Len(a) \in Nat /\ Len(b) \in Nat
  OBVIOUS
<1>2. /\ \A n \in 1..Len(a) : q[n] = a[n]
      /\ \A n \in (Len(a) + 1)..(Len(a) + Len(b)) : q[n] = b[n - Len(a)]
  OBVIOUS
<1>3. ASSUME NEW n \in DOMAIN q, n \notin DOMAIN a
      PROVE  \E i \in DOMAIN b : n = Len(a) + i /\ q[n] = b[i]
  <2>1. n \in (Len(a) + 1)..(Len(a) + Len(b)) /\ n - Len(a) \in DOMAIN b /\ n = Len(a) + (n - Len(a))
    BY <1>1, <1>3
  <2> QED BY <1>2, <2>1
<1>4. ASSUME NEW i \in DOMAIN b PROVE Len(a) + i \in DOMAIN q /\ q[Len(a) + i] = b[i]
  <2>1. Len(a) + i \in (Len(a) + 1)..(Len(a) + Len(b)) /\ (Len(a) + i) - Len(a) = i
    BY <1>1
  <2> QED BY <1>1, <1>2, <2>1
<1> QED BY <1>1, <1>2, <1>3, <1>4

\* Several documents fetched at once.
FetchedAll(s, objs, tracked) == [s EXCEPT !.objs = @ \o objs, !.tracked = @ \o tracked]

\* Fetching several documents at once, each as an object of its own.
LEMMA FetchAllType ==
  ASSUME NEW Items, NEW s \in Sessions(Items), NEW objs \in Seq(Items), NEW tracked \in Seq(Entries(Items)),
         \A i \in DOMAIN tracked : \E j \in DOMAIN objs : tracked[i].obj = Newest(s) + j,
         NEW a, a = FetchedAll(s, objs, tracked)
  PROVE  /\ a \in Sessions(Items) /\ a.pending = s.pending
         /\ DOMAIN s.objs \subseteq DOMAIN a.objs
         /\ \A n \in DOMAIN a.objs : \/ n \in DOMAIN s.objs /\ a.objs[n] = s.objs[n]
                                     \/ \E i \in DOMAIN objs : a.objs[n] = objs[i]
<1> DEFINE E == Entries(Items)
           o == s.objs \o objs
           t == s.tracked \o tracked
           b == [s EXCEPT !.objs = o, !.tracked = t]
<1>1. s \in [objs : Seq(Items), tracked : Seq(E), pending : Seq(Nat)]
  BY DEF Sessions
<1>2. /\ \A i \in DOMAIN s.tracked : s.tracked[i].obj \in DOMAIN s.objs
      /\ \A i \in DOMAIN s.pending : s.pending[i] \in DOMAIN s.objs
  BY DEF Sessions
<1>3. tracked \in Seq(E)
  OBVIOUS
<1> HIDE DEF E
<1>4. s.objs \in Seq(Items) /\ s.tracked \in Seq(E)
  BY <1>1
<1>5. /\ o \in Seq(Items) /\ DOMAIN s.objs \subseteq DOMAIN o
      /\ \A n \in DOMAIN o : \/ n \in DOMAIN s.objs /\ o[n] = s.objs[n]
                             \/ \E i \in DOMAIN objs : n = Len(s.objs) + i /\ o[n] = objs[i]
      /\ \A i \in DOMAIN objs : Len(s.objs) + i \in DOMAIN o
  BY <1>4, ConcatFacts
<1>6. /\ t \in Seq(E)
      /\ \A n \in DOMAIN t : \/ n \in DOMAIN s.tracked /\ t[n] = s.tracked[n]
                             \/ \E i \in DOMAIN tracked : t[n] = tracked[i]
  BY <1>3, <1>4, ConcatFacts
<1>7. a = b
  BY DEF FetchedAll
<1> HIDE DEF o, t
<1>8. b \in [objs : Seq(Items), tracked : Seq(E), pending : Seq(Nat)]
  BY <1>1, <1>5, <1>6
<1>9. b.objs = o /\ b.tracked = t /\ b.pending = s.pending
  BY <1>1
<1>10. ASSUME NEW n \in DOMAIN t PROVE t[n].obj \in DOMAIN o
  <2>1. CASE n \in DOMAIN s.tracked /\ t[n] = s.tracked[n]
    BY <1>2, <1>5, <2>1
  <2>2. CASE \E i \in DOMAIN tracked : t[n] = tracked[i]
    <3>1. PICK i \in DOMAIN tracked : t[n] = tracked[i]
      BY <2>2
    <3>2. PICK j \in DOMAIN objs : tracked[i].obj = Len(s.objs) + j
      BY DEF Newest
    <3> QED BY <1>5, <3>1, <3>2
  <2> QED BY <1>6, <2>1, <2>2
<1>11. \A i \in DOMAIN s.pending : s.pending[i] \in DOMAIN o
  BY <1>2, <1>5
<1> HIDE DEF b
<1>12. b \in Sessions(Items)
  BY <1>8, <1>9, <1>10, <1>11 DEF Sessions, E
<1> QED BY <1>5, <1>7, <1>9, <1>12

-----------------------------------------------------------------------------
\* The objects of a session that a commit may write.
Writable(s) ==
  {s.pending[i] : i \in DOMAIN s.pending} \cup {s.tracked[i].obj : i \in DOMAIN s.tracked}

\* As many different elements of a finite set as it has are all of them.
LEMMA EnumerationOnto ==
  ASSUME NEW S, IsFiniteSet(S), NEW q \in [1..Cardinality(S) -> S],
         \A i, j \in 1..Cardinality(S) : q[i] = q[j] => i = j
  PROVE  \A x \in S : \E i \in 1..Cardinality(S) : q[i] = x
<1> DEFINE m == Cardinality(S)
<1>1. m \in Nat
  BY FS_CardinalityType
<1>2. Cardinality(1..m) = m
  BY <1>1, FS_Interval
<1>3. q \in Injection(1..m, S)
  BY DEF Injection, IsInjective
<1> HIDE DEF m
<1>4. q \in Surjection(1..m, S)
  BY <1>2, <1>3, FS_Injection DEF m
<1> QED BY <1>4 DEF Surjection, m

\* Putting a set in order misses none of its elements.
LEMMA InOrderOnto ==
  ASSUME NEW n \in Nat, NEW S \in SUBSET (1..n), NEW x \in S
  PROVE  \E i \in 1..Cardinality(S) : InOrder(S)[i] = x
<1> DEFINE m == Cardinality(S)
           q == InOrder(S)
<1>1. IsFiniteSet(S)
  <2>1. IsFiniteSet(1..n)
    BY FS_Interval
  <2> QED BY <2>1, FS_Subset
<1>2. q \in [1..m -> S] /\ m \in Nat
  BY InOrderType
<1>3. Increasing(q, m)
  <2>1. PICK order \in [1..m -> S] : Increasing(order, m)
    BY Orderable
  <2>2. \E p \in [1..m -> S] : \A i, j \in DOMAIN p : i < j => p[i] < p[j]
    BY <2>1 DEF Increasing
  <2>3. \A i, j \in DOMAIN q : i < j => q[i] < q[j]
    BY <2>2 DEF InOrder
  <2> QED BY <1>2, <2>3 DEF Increasing
<1> HIDE DEF q
<1>4. ASSUME NEW i \in 1..m, NEW j \in 1..m, q[i] = q[j] PROVE i = j
  <2>1. q[i] \in Nat /\ q[j] \in Nat
    <3>1. q[i] \in 1..n /\ q[j] \in 1..n
      BY <1>2
    <3> QED BY <3>1
  <2>2. i \in Nat /\ j \in Nat /\ (i < j => q[i] < q[j]) /\ (j < i => q[j] < q[i])
    BY <1>2, <1>3 DEF Increasing
  <2> QED BY <1>4, <2>1, <2>2
<1> QED BY <1>1, <1>2, <1>4, EnumerationOnto DEF q

\* A commit writes only what it may, and every document of which a tracked
\* object has changed.
LEMMA WritesExactly ==
  ASSUME NEW Items, NEW s \in Sessions(Items)
  PROVE  /\ \A i \in DOMAIN Writes(s) : Writes(s)[i] \in Writable(s)
         /\ \A i \in Dirty(s) : \E k \in DOMAIN Writes(s) :
              IdOf(s, Writes(s)[k]) = IdOf(s, s.tracked[i].obj)
<1> DEFINE added == {IdOf(s, s.pending[i]) : i \in DOMAIN s.pending}
           S == {i \in Dirty(s) : IdOf(s, s.tracked[i].obj) \notin added}
           n == Len(s.tracked)
           W == Writable(s)
           m == Cardinality(S)
           a == s.pending
           b == ObjectsOf(s, S)
           w == Writes(s)
<1>1. s.tracked \in Seq(Entries(Items)) /\ s.pending \in Seq(Nat)
  BY DEF Sessions
<1>2. n \in Nat /\ DOMAIN s.tracked = 1..n
  BY <1>1
<1>3. S \in SUBSET (1..n)
  BY <1>2 DEF Dirty
<1> HIDE DEF S
<1>4. InOrder(S) \in [1..m -> S] /\ m \in Nat
  BY <1>2, <1>3, InOrderType
<1>5. b = [i \in 1..m |-> s.tracked[InOrder(S)[i]].obj]
  BY DEF ObjectsOf
<1>6. \A i \in 1..m : s.tracked[InOrder(S)[i]].obj \in W
  BY <1>2, <1>3, <1>4 DEF Writable
<1>7. a \in Seq(W) /\ b \in Seq(W)
  <2>1. \A i \in DOMAIN a : a[i] \in W
    BY DEF Writable
  <2>2. a \in Seq(W)
    BY <1>1, <2>1, SeqOver
  <2> HIDE DEF W, b
  <2> QED BY <1>4, <1>5, <1>6, <2>2
<1>8. w = a \o b
  BY DEF Writes, S
<1> HIDE DEF W, b, w, a, n, m
<1>9. /\ w \in Seq(W)
      /\ \A i \in DOMAIN a : i \in DOMAIN w /\ w[i] = a[i]
      /\ \A i \in DOMAIN b : Len(a) + i \in DOMAIN w /\ w[Len(a) + i] = b[i]
  BY <1>7, <1>8
<1>10. ASSUME NEW i \in Dirty(s)
       PROVE  \E k \in DOMAIN w : IdOf(s, w[k]) = IdOf(s, s.tracked[i].obj)
  <2>1. CASE i \in S
    <3>1. PICK j \in 1..m : InOrder(S)[j] = i
      BY <1>2, <1>3, <2>1, InOrderOnto DEF m
    <3>2. j \in DOMAIN b /\ b[j] = s.tracked[i].obj
      BY <1>5, <3>1
    <3> QED BY <1>9, <3>2
  <2>2. CASE i \notin S
    <3>1. PICK k \in DOMAIN a : IdOf(s, s.tracked[i].obj) = IdOf(s, a[k])
      BY <2>2 DEF S, a
    <3> QED BY <1>9, <3>1
  <2> QED BY <2>1, <2>2
<1>11. \A i \in DOMAIN w : w[i] \in W
  BY <1>9
<1> QED BY <1>10, <1>11 DEF w, W

\* Of the tracked objects a commit writes only those that have changed.
LEMMA WritesChanged ==
  ASSUME NEW Items, NEW s \in Sessions(Items), NEW k \in DOMAIN Writes(s)
  PROVE  \/ \E i \in DOMAIN s.pending : s.pending[i] = Writes(s)[k]
         \/ \E i \in Dirty(s) : s.tracked[i].obj = Writes(s)[k]
<1> DEFINE added == {IdOf(s, s.pending[i]) : i \in DOMAIN s.pending}
           S == {i \in Dirty(s) : IdOf(s, s.tracked[i].obj) \notin added}
           n == Len(s.tracked)
           W == {s.pending[i] : i \in DOMAIN s.pending} \cup {s.tracked[i].obj : i \in Dirty(s)}
           m == Cardinality(S)
           a == s.pending
           b == ObjectsOf(s, S)
           w == Writes(s)
<1>1. s.tracked \in Seq(Entries(Items)) /\ s.pending \in Seq(Nat)
  BY DEF Sessions
<1>2. n \in Nat /\ DOMAIN s.tracked = 1..n
  BY <1>1
<1>3. S \in SUBSET (1..n) /\ S \subseteq Dirty(s)
  BY <1>2 DEF Dirty
<1> HIDE DEF S
<1>4. InOrder(S) \in [1..m -> S] /\ m \in Nat
  BY <1>2, <1>3, InOrderType
<1>5. b = [i \in 1..m |-> s.tracked[InOrder(S)[i]].obj]
  BY DEF ObjectsOf
<1>6. \A i \in 1..m : s.tracked[InOrder(S)[i]].obj \in W
  BY <1>3, <1>4
<1>7. a \in Seq(W) /\ b \in Seq(W)
  <2>1. \A i \in DOMAIN a : a[i] \in W
    OBVIOUS
  <2>2. a \in Seq(W)
    <3> HIDE DEF W
    <3> QED BY <1>1, <2>1, SeqOver
  <2> HIDE DEF W, b
  <2> QED BY <1>4, <1>5, <1>6, <2>2
<1>8. w = a \o b
  BY DEF Writes, S
<1>9. w \in Seq(W)
  <2> HIDE DEF W, b, w, a
  <2> QED BY <1>7, <1>8
<1>10. w[k] \in W
  <2> HIDE DEF W
  <2> QED BY <1>9
<1> QED BY <1>10

\* After a query the new object has the one entry of that document.
LEMMA FetchEntries ==
  ASSUME NEW Items, NEW s \in Sessions(Items), NEW id, NEW val, [id |-> id, val |-> val] \in Items,
         NEW f, f = Fetch(s, id, val), NEW n, n = Len(s.objs) + 1
  PROVE  /\ \A i \in DOMAIN f.tracked :
              \/ f.tracked[i] = [obj |-> n, snapshot |-> val]
              \/ /\ i \in DOMAIN s.tracked /\ f.tracked[i] = s.tracked[i]
                 /\ IdOf(s, s.tracked[i].obj) # id
         /\ \E i \in DOMAIN f.tracked : f.tracked[i] = [obj |-> n, snapshot |-> val]
<1> DEFINE o == [id |-> id, val |-> val]
           entry == [obj |-> n, snapshot |-> val]
           earlier == {i \in DOMAIN s.tracked : IdOf(s, s.tracked[i].obj) = id}
           objs == Append(s.objs, o)
           tracked == IF earlier = {} THEN Append(s.tracked, entry)
                      ELSE [i \in DOMAIN s.tracked |-> IF i \in earlier THEN entry ELSE s.tracked[i]]
           a == [s EXCEPT !.objs = objs, !.tracked = tracked]
<1>1. s \in [objs : Seq(Items), tracked : Seq(Entries(Items)), pending : Seq(Nat)]
  BY DEF Sessions
<1>2. f = a
  BY DEF Fetch, Newest
<1>3. a.tracked = tracked
  <2> HIDE DEF tracked, objs
  <2> QED BY <1>1
<1>4. CASE earlier = {}
  <2> DEFINE t == s.tracked
             E == Entries(Items) \cup {entry}
             q == Append(t, entry)
  <2>1. t \in Seq(E) /\ entry \in E
    BY <1>1
  <2>2. f.tracked = q
    BY <1>2, <1>3, <1>4
  <2> HIDE DEF E, t, q
  <2>3. Len(q) = Len(t) + 1 /\ DOMAIN q = DOMAIN t \cup {Len(q)}
        /\ q[Len(q)] = entry /\ \A m \in DOMAIN t : q[m] = t[m]
    <3> HIDE DEF entry
    <3>1. q = Append(t, entry)
      BY DEF q
    <3> QED BY <2>1, <3>1, AppendFacts
  <2>4. \A i \in DOMAIN t : IdOf(s, t[i].obj) # id
    BY <1>4 DEF t
  <2> HIDE DEF entry, earlier
  <2>6. ASSUME NEW i \in DOMAIN q PROVE q[i] = entry \/ (i \in DOMAIN t /\ q[i] = t[i] /\ IdOf(s, t[i].obj) # id)
    BY <2>3, <2>4
  <2> QED BY <2>2, <2>3, <2>6 DEF t, entry
<1>5. CASE earlier # {}
  <2>1. f.tracked = [i \in DOMAIN s.tracked |-> IF i \in earlier THEN entry ELSE s.tracked[i]]
    BY <1>2, <1>3, <1>5
  <2>2. PICK j \in earlier : TRUE
    BY <1>5
  <2>3. j \in DOMAIN f.tracked /\ f.tracked[j] = entry
    BY <2>1, <2>2
  <2>4. \A i \in DOMAIN f.tracked :
          \/ f.tracked[i] = entry
          \/ /\ i \in DOMAIN s.tracked /\ f.tracked[i] = s.tracked[i]
             /\ IdOf(s, s.tracked[i].obj) # id
    BY <2>1
  <2> QED BY <2>3, <2>4
<1> QED BY <1>4, <1>5

\* After a query the new object is tracked, and nothing else of that document.
LEMMA FetchTracks ==
  ASSUME NEW Items, NEW s \in Sessions(Items), NEW id, NEW val, [id |-> id, val |-> val] \in Items,
         NEW f, f = Fetch(s, id, val), NEW n, n = Len(s.objs) + 1
  PROVE  /\ \A i \in DOMAIN f.tracked :
              \/ f.tracked[i].obj = n
              \/ /\ i \in DOMAIN s.tracked /\ f.tracked[i] = s.tracked[i]
                 /\ IdOf(s, s.tracked[i].obj) # id
         /\ \E i \in DOMAIN f.tracked : f.tracked[i] = [obj |-> n, snapshot |-> val]
<1>1. \A e : e = [obj |-> n, snapshot |-> val] => e.obj = n
  OBVIOUS
<1> QED BY <1>1, FetchEntries

\* An assignment tracks nothing more, nor does add().
LEMMA SameTracked ==
  ASSUME NEW Items, NEW s \in Sessions(Items), NEW n, NEW id, NEW val
  PROVE  Assign(s, n, val).tracked = s.tracked /\ AddNew(s, id, val).tracked = s.tracked
<1>1. s \in [objs : Seq(Items), tracked : Seq(Entries(Items)), pending : Seq(Nat)]
  BY DEF Sessions
<1>2. Assign(s, n, val).tracked = s.tracked
  <2> DEFINE objs == [s.objs EXCEPT ![n].val = val]
  <2>1. Assign(s, n, val) = [s EXCEPT !.objs = objs]
    BY DEF Assign
  <2> HIDE DEF objs
  <2> QED BY <1>1, <2>1
<1>3. AddNew(s, id, val).tracked = s.tracked
  <2> DEFINE objs == Append(s.objs, [id |-> id, val |-> val])
             pending == Append(s.pending, Newest(s) + 1)
  <2>1. AddNew(s, id, val) = [s EXCEPT !.objs = objs, !.pending = pending]
    BY DEF AddNew
  <2> HIDE DEF objs, pending
  <2> QED BY <1>1, <2>1
<1> QED BY <1>2, <1>3

\* Several documents fetched at once: each object is the one of its entry.
LEMMA FetchAllTracks ==
  ASSUME NEW Items, NEW s \in Sessions(Items), NEW objs \in Seq(Items), NEW tracked \in Seq(Entries(Items)),
         NEW a, a = FetchedAll(s, objs, tracked)
  PROVE  /\ \A n \in DOMAIN s.objs : a.objs[n] = s.objs[n]
         /\ \A i \in DOMAIN objs : a.objs[Newest(s) + i] = objs[i]
         /\ \A i \in DOMAIN a.tracked : \/ i \in DOMAIN s.tracked /\ a.tracked[i] = s.tracked[i]
                                        \/ \E j \in DOMAIN tracked : a.tracked[i] = tracked[j]
         /\ \A j \in DOMAIN tracked : \E i \in DOMAIN a.tracked : a.tracked[i] = tracked[j]
<1> DEFINE E == Entries(Items)
           o == s.objs \o objs
           t == s.tracked \o tracked
           b == [s EXCEPT !.objs = o, !.tracked = t]
<1>1. s \in [objs : Seq(Items), tracked : Seq(E), pending : Seq(Nat)]
  BY DEF Sessions
<1>2. tracked \in Seq(E)
  OBVIOUS
<1> HIDE DEF E
<1>3. s.objs \in Seq(Items) /\ s.tracked \in Seq(E)
  BY <1>1
<1>4. /\ \A n \in DOMAIN s.objs : o[n] = s.objs[n]
      /\ \A i \in DOMAIN objs : o[Len(s.objs) + i] = objs[i]
  BY <1>3, ConcatFacts
<1>5. /\ \A n \in DOMAIN t : \/ n \in DOMAIN s.tracked /\ t[n] = s.tracked[n]
                             \/ \E i \in DOMAIN tracked : t[n] = tracked[i]
      /\ \A i \in DOMAIN tracked : Len(s.tracked) + i \in DOMAIN t /\ t[Len(s.tracked) + i] = tracked[i]
  <2> DEFINE q == s.tracked
  <2>1. q \in Seq(E) /\ t = q \o tracked
    BY <1>3
  <2> HIDE DEF q, t
  <2>2. /\ \A n \in DOMAIN t : \/ n \in DOMAIN q /\ t[n] = q[n]
                               \/ \E i \in DOMAIN tracked : n = Len(q) + i /\ t[n] = tracked[i]
        /\ \A i \in DOMAIN tracked : Len(q) + i \in DOMAIN t /\ t[Len(q) + i] = tracked[i]
    BY SMTT(40), <1>2, <2>1, ConcatFacts
  <2> QED BY <2>2 DEF q
<1>6. a = b
  BY DEF FetchedAll
<1> HIDE DEF o, t
<1>7. a.objs = o /\ a.tracked = t
  BY <1>1, <1>6
<1> HIDE DEF b
<1> QED BY <1>4, <1>5, <1>7 DEF Newest

-----------------------------------------------------------------------------
(* Requests *)

\* Requests with such a session; what is to be stored is held, and a flush has
\* something to store.
Basic == {"none", "idle", "flush"}
Shape(Names, Items) ==
  [op : Names, pc : Names, then : Names, session : Sessions(Items), writing : Seq(Nat)]
Sound(r) ==
  /\ \A i \in DOMAIN r.writing : r.writing[i] \in DOMAIN r.session.objs
  /\ r.pc = "flush" => r.writing # <<>> /\ r.then # "flush"
Requests(Names, Items) == {r \in Shape(Names, Items) : Sound(r)}

\* A handler that starts with session s is a request.
LEMMA StartType ==
  ASSUME NEW Names, Basic \subseteq Names, NEW Items, NEW s \in Sessions(Items), NEW op \in Names, NEW pc \in Names, pc # "flush"
  PROVE  /\ Start(op, s, pc) \in Requests(Names, Items)
         /\ Start(op, s, pc).session = s /\ Start(op, s, pc).pc = pc /\ Start(op, s, pc).op = op
<1> DEFINE r == Start(op, s, pc)
           none == <<>>
           i == [op |-> "none", pc |-> "idle", then |-> "idle", session |-> NoSession, writing |-> none]
<1>1. r = [i EXCEPT !.op = op, !.session = s, !.pc = pc]
  BY DEF Start, Idle
<1>2. none \in Seq(Nat) /\ DOMAIN none = {} /\ "idle" \in Names
  BY DEF Basic
<1> HIDE DEF none, r
<1>3. /\ r.op = op /\ r.pc = pc /\ r.then = "idle" /\ r.session = s /\ r.writing = none
      /\ r \in Shape(Names, Items)
  <2>1. i \in Shape(Names, Items) /\ i.then = "idle" /\ i.writing = none
    <3>1. NoSession \in Sessions(Items)
      BY NoSessionType
    <3> QED BY <1>2, <3>1 DEF Shape, Basic
  <2> HIDE DEF i
  <2> QED BY <1>1, <2>1 DEF Shape
<1>4. Sound(r)
  BY <1>2, <1>3 DEF Sound
<1> QED BY <1>3, <1>4 DEF Requests, r

\* A handler that does nothing is a request, whatever its session may hold.
LEMMA IdleType ==
  ASSUME NEW Names, Basic \subseteq Names, NEW Items
  PROVE  Idle \in Requests(Names, Items) /\ Idle.pc = "idle" /\ Idle.op = "none" /\ Idle.session.objs = <<>>
<1> DEFINE none == <<>>
           r == [op |-> "none", pc |-> "idle", then |-> "idle", session |-> NoSession, writing |-> none]
<1>1. Idle = r
  BY DEF Idle
<1>2. none \in Seq(Nat) /\ DOMAIN none = {} /\ NoSession.objs = <<>>
  BY DEF NoSession
<1>3. NoSession \in Sessions(Items)
  BY NoSessionType
<1> HIDE DEF none
<1>4. r \in Shape(Names, Items)
  BY <1>2, <1>3 DEF Shape, Basic
<1>5. Sound(r)
  BY <1>2 DEF Sound
<1> QED BY <1>1, <1>2, <1>4, <1>5 DEF Requests

\* A flush stores what the session writes and goes on, or goes on at once.
LEMMA FlushType ==
  ASSUME NEW Names, Basic \subseteq Names, NEW Items, NEW r \in Requests(Names, Items), NEW pc \in Names, pc # "flush"
  PROVE  LET f == Flush(r, pc)
         IN  /\ f \in Requests(Names, Items)
             /\ f.session = r.session /\ f.op = r.op
             /\ \/ f.pc = pc /\ Writes(r.session) = <<>>
                \/ f.pc = "flush" /\ f.then = pc /\ f.writing = Writes(r.session)
<1> DEFINE W == Writes(r.session)
<1>1. r \in Shape(Names, Items) /\ Sound(r)
  BY DEF Requests
<1>2. W \in Seq(DOMAIN r.session.objs)
  BY <1>1, WritesType DEF Shape
<1>3. W \in Seq(Nat) /\ \A i \in DOMAIN W : W[i] \in DOMAIN r.session.objs
  <2>1. DOMAIN r.session.objs \subseteq Nat
    BY <1>1 DEF Shape, Sessions
  <2>2. \A i \in DOMAIN W : W[i] \in DOMAIN r.session.objs
    <3> DEFINE D == DOMAIN r.session.objs
    <3> HIDE DEF D, W
    <3>1. W \in Seq(D)
      BY <1>2 DEF D
    <3>2. \A i \in DOMAIN W : W[i] \in D
      BY <3>1
    <3> QED BY <3>2 DEF D
  <2>3. W \in Seq(Nat)
    BY <1>2, <2>1, <2>2, SeqOver
  <2> QED BY <2>2, <2>3
<1> DEFINE p == [r EXCEPT !.pc = pc]
           q == [r EXCEPT !.pc = "flush", !.then = pc, !.writing = W]
<1>4. Flush(r, pc) = IF W = <<>> THEN p ELSE q
  BY DEF Flush
<1> HIDE DEF W
<1>5. p \in Shape(Names, Items) /\ p.session = r.session /\ p.op = r.op /\ p.pc = pc /\ p.writing = r.writing
  BY <1>1 DEF Shape
<1>6. /\ q \in Shape(Names, Items) /\ q.session = r.session /\ q.op = r.op /\ q.pc = "flush" /\ q.then = pc
      /\ q.writing = W
  BY <1>1, <1>3 DEF Shape, Basic
<1> HIDE DEF p, q
<1>7. p \in Requests(Names, Items)
  BY <1>1, <1>5 DEF Requests, Sound
<1>8. W # <<>> => q \in Requests(Names, Items)
  BY <1>3, <1>6 DEF Requests, Sound
<1> QED BY <1>4, <1>5, <1>6, <1>7, <1>8 DEF W

\* The record of an event.
AuditItem(event) == [id |-> "audit", val |-> event]

\* log_event of a handler stores what is pending and then its record.
\* What log_event leaves of a request: what is stored begins with what was
\* pending and the record.
Recording(Names, Items, r, event, pc, f) ==
  /\ f \in Requests(Names, Items)
  /\ f.session.objs = Append(r.session.objs, AuditItem(event))
  /\ f.op = r.op /\ f.pc = "flush" /\ f.then = pc
  /\ StartsWith(f.writing, Append(r.session.pending, Len(r.session.objs) + 1))

\* log_event stores what is pending and then its record, and goes on.
LEMMA LogEventType ==
  ASSUME NEW Names, Basic \subseteq Names, NEW Items, NEW r \in Requests(Names, Items),
         NEW event, AuditItem(event) \in Items, NEW pc \in Names, pc # "flush"
  PROVE  Recording(Names, Items, r, event, pc, LogEvent(r, event, pc))
<1> DEFINE s == AddNew(r.session, "audit", event)
           q == [r EXCEPT !.session = s]
           pending == Append(r.session.pending, Len(r.session.objs) + 1)
           f == Flush(q, pc)
<1>1. r \in Shape(Names, Items) /\ Sound(r) /\ r.session \in Sessions(Items)
  BY DEF Requests, Shape
<1>2. /\ s \in Sessions(Items)
      /\ s.objs = Append(r.session.objs, AuditItem(event))
      /\ s.pending = pending
  <2> DEFINE id == "audit"
             t == r.session
  <2>1. [id |-> id, val |-> event] \in Items /\ t \in Sessions(Items)
    BY <1>1 DEF AuditItem
  <2> HIDE DEF id, t
  <2>2. /\ AddNew(t, id, event) \in Sessions(Items)
        /\ AddNew(t, id, event).objs = Append(t.objs, [id |-> id, val |-> event])
        /\ AddNew(t, id, event).pending = Append(t.pending, Len(t.objs) + 1)
    BY <2>1, AddNewType
  <2> QED BY <2>2 DEF id, t, AuditItem
<1>3. LogEvent(r, event, pc) = f
  BY DEF LogEvent
<1> HIDE DEF s
<1>4. q \in Shape(Names, Items) /\ q.session = s /\ q.op = r.op /\ q.pc = r.pc
      /\ q.then = r.then /\ q.writing = r.writing
  BY <1>1, <1>2 DEF Shape
<1> HIDE DEF q
<1>5. DOMAIN r.session.objs \subseteq DOMAIN s.objs
  <2> DEFINE o == AuditItem(event)
  <2>1. r.session.objs \in Seq(Items) /\ o \in Items
    BY <1>1 DEF Sessions
  <2> HIDE DEF o
  <2>2. DOMAIN r.session.objs \subseteq DOMAIN Append(r.session.objs, o)
    BY <2>1
  <2> QED BY <2>2, <1>2 DEF o
<1>6. q \in Requests(Names, Items)
  BY <1>1, <1>4, <1>5 DEF Requests, Sound
<1>7. /\ f \in Requests(Names, Items) /\ f.session = s /\ f.op = r.op
      /\ \/ f.pc = pc /\ Writes(s) = <<>>
         \/ f.pc = "flush" /\ f.then = pc /\ f.writing = Writes(s)
  BY <1>4, <1>6, FlushType
<1>8. /\ Writes(s) \in Seq(DOMAIN s.objs)
      /\ StartsWith(Writes(s), pending)
  BY <1>2, WritesType
<1>9. Writes(s) # <<>>
  <2>1. Len(r.session.pending) + 1 \in DOMAIN pending
    <3>1. r.session.pending \in Seq(Nat) /\ Len(r.session.objs) + 1 \in Nat
      BY <1>1 DEF Sessions
    <3> QED BY <3>1
  <2>2. Len(r.session.pending) + 1 \in DOMAIN Writes(s)
    BY <2>1, <1>8 DEF StartsWith
  <2> QED BY <2>2
<1> HIDE DEF f
<1> QED BY <1>2, <1>3, <1>7, <1>8, <1>9 DEF Recording

\* During a flush there is a next object, the first of those to be stored.
LEMMA NextObjectType ==
  ASSUME NEW Names, Basic \subseteq Names, NEW Items, NEW r \in Requests(Names, Items), r.pc = "flush"
  PROVE  /\ Len(r.writing) \in Nat \ {0} /\ Head(r.writing) = r.writing[1]
         /\ r.writing[1] \in DOMAIN r.session.objs
         /\ NextObject(r) = r.session.objs[r.writing[1]]
         /\ NextObject(r) \in Items
<1>1. r \in Shape(Names, Items) /\ Sound(r)
  BY DEF Requests
<1>2. r.writing \in Seq(Nat) /\ r.writing # <<>>
  BY <1>1 DEF Shape, Sound
<1>3. Len(r.writing) \in Nat \ {0} /\ Head(r.writing) = r.writing[1] /\ 1 \in DOMAIN r.writing
  BY <1>2
<1>4. r.writing[1] \in DOMAIN r.session.objs
  BY <1>1, <1>3 DEF Sound
<1>5. r.session.objs \in Seq(Items)
  BY <1>1 DEF Shape, Sessions
<1> QED BY <1>3, <1>4, <1>5 DEF NextObject

\* After a write the rest is to be stored, or the handler goes on with nothing
\* pending.
LEMMA AfterWriteType ==
  ASSUME NEW Names, Basic \subseteq Names, NEW Items, NEW r \in Requests(Names, Items), r.pc = "flush"
  PROVE  LET a == AfterWrite(r)
         IN  /\ a \in Requests(Names, Items)
             /\ a.session.objs = r.session.objs /\ a.op = r.op
             /\ \/ /\ a.pc = "flush" /\ a.then = r.then /\ a.writing = Tail(r.writing)
                   /\ a.session = r.session /\ Len(r.writing) > 1
                \/ /\ a.pc = r.then /\ r.then # "flush" /\ Len(r.writing) = 1
                   /\ a.session.pending = <<>> /\ a.writing = <<>>
<1> DEFINE none == <<>>
           rest == Tail(r.writing)
           c == Committed(r.session)
           p == [r EXCEPT !.writing = rest]
           q == [r EXCEPT !.writing = none, !.pc = r.then, !.session = c]
<1>1. r \in Shape(Names, Items) /\ Sound(r)
  BY DEF Requests
<1>2. r.writing \in Seq(Nat) /\ Len(r.writing) \in Nat \ {0} /\ r.then # "flush"
  BY <1>1, NextObjectType DEF Shape, Sound
<1>3. /\ rest \in Seq(Nat)
      /\ Len(r.writing) > 1 => rest # <<>>
      /\ \A i \in DOMAIN rest : rest[i] \in DOMAIN r.session.objs
  <2>1. \A i \in DOMAIN rest : rest[i] = r.writing[i + 1] /\ i + 1 \in DOMAIN r.writing
    BY <1>2
  <2>2. rest \in Seq(Nat) /\ (Len(r.writing) > 1 => rest # <<>>)
    <3>1. rest \in Seq(Nat) /\ Len(rest) = Len(r.writing) - 1
      BY <1>2
    <3>2. \A w \in Seq(Nat) : w = <<>> => Len(w) = 0
      OBVIOUS
    <3> DEFINE n == Len(r.writing)
    <3>3. n \in Nat /\ rest \in Seq(Nat) /\ Len(rest) = n - 1
      BY <1>2, <3>1
    <3> HIDE DEF n, rest
    <3>4. rest \in Seq(Nat) /\ (n > 1 => rest # <<>>)
      BY <3>2, <3>3
    <3> QED BY <3>4 DEF n
  <2> QED BY <1>1, <2>1, <2>2 DEF Sound
<1>4. c \in Sessions(Items) /\ c.objs = r.session.objs /\ c.pending = <<>>
  BY <1>1, CommittedType DEF Shape
<1>5. none \in Seq(Nat) /\ DOMAIN none = {}
  OBVIOUS
<1>6. AfterWrite(r) = IF Len(r.writing) > 1 THEN p ELSE q
  BY DEF AfterWrite
<1> HIDE DEF c, rest, none
<1>7. /\ p \in Shape(Names, Items) /\ p.session = r.session /\ p.op = r.op /\ p.pc = r.pc
      /\ p.then = r.then /\ p.writing = rest
  BY <1>1, <1>3 DEF Shape
<1>8. /\ q \in Shape(Names, Items) /\ q.session = c /\ q.op = r.op /\ q.pc = r.then /\ q.writing = none
  BY <1>1, <1>4, <1>5 DEF Shape
<1> HIDE DEF p, q
<1>9. Len(r.writing) > 1 => p \in Requests(Names, Items)
  BY <1>3, <1>7, <1>2 DEF Requests, Sound
<1>10. q \in Requests(Names, Items)
  BY <1>2, <1>4, <1>5, <1>8 DEF Requests, Sound
<1>11. CASE Len(r.writing) > 1
  BY <1>6, <1>7, <1>9, <1>11 DEF rest
<1>12. CASE ~(Len(r.writing) > 1)
  <2>1. Len(r.writing) = 1
    <3> DEFINE n == Len(r.writing)
    <3>1. n \in Nat \ {0} /\ ~(n > 1)
      BY <1>2, <1>12
    <3> HIDE DEF n
    <3>2. n = 1
      BY <3>1
    <3> QED BY <3>2 DEF n
  <2>2. AfterWrite(r) = q
    BY <1>6, <1>12
  <2> QED BY <1>2, <1>4, <1>8, <1>10, <2>1, <2>2 DEF none
<1> QED BY <1>11, <1>12

\* What is still to be written after one write, and where it was before.
LEMMA TailFacts ==
  ASSUME NEW w \in Seq(Nat), Len(w) > 1, NEW v, v = Tail(w)
  PROVE  /\ \A i \in DOMAIN v : i + 1 \in DOMAIN w /\ v[i] = w[i + 1] /\ i \in Nat
         /\ \A j \in DOMAIN w : j \in Nat /\ (j # 1 => j - 1 \in DOMAIN v /\ v[j - 1] = w[j])
<1>1. \A i \in DOMAIN v : i + 1 \in DOMAIN w /\ v[i] = w[i + 1] /\ i \in Nat
  OBVIOUS
<1>2. v \in Seq(Nat) /\ Len(v) = Len(w) - 1 /\ (\A i \in 1..Len(v) : v[i] = w[i + 1]) /\ Len(w) \in Nat
  OBVIOUS
<1>3. ASSUME NEW j \in DOMAIN w, j # 1
      PROVE  j - 1 \in DOMAIN v /\ v[j - 1] = w[j]
  <2>1. j \in 1..Len(w)
    OBVIOUS
  <2>2. j - 1 \in 1..Len(v) /\ (j - 1) + 1 = j
    BY <1>2, <1>3, <2>1
  <2>3. DOMAIN v = 1..Len(v)
    BY <1>2
  <2> QED BY <1>2, <2>2, <2>3
<1>4. \A j \in DOMAIN w : j \in Nat
  OBVIOUS
<1> QED BY <1>1, <1>3, <1>4

-----------------------------------------------------------------------------
\* The objects a request may still store: those its flush has left, or those a
\* flush would write.
ToStore(r) ==
  IF r.pc = "flush" THEN {r.writing[i] : i \in DOMAIN r.writing} ELSE Writable(r.session)

\* A handler that does nothing stores nothing.
LEMMA IdleStores == ToStore(Idle) = {}
BY DEF ToStore, Idle, Writable, NoSession

\* A handler that starts may store what its session tracks.
LEMMA StartStores ==
  ASSUME NEW Names, Basic \subseteq Names, NEW Items, NEW s \in Sessions(Items),
         NEW op \in Names, NEW pc \in Names, pc # "flush"
  PROVE  ToStore(Start(op, s, pc)) = Writable(s)
BY StartType DEF ToStore

\* A flush stores nothing but what it may.
LEMMA FlushStores ==
  ASSUME NEW Names, Basic \subseteq Names, NEW Items, NEW r \in Requests(Names, Items),
         NEW pc \in Names, pc # "flush"
  PROVE  ToStore(Flush(r, pc)) \subseteq Writable(r.session)
<1> DEFINE f == Flush(r, pc)
<1>1. /\ f.session = r.session
      /\ \/ f.pc = pc
         \/ f.pc = "flush" /\ f.writing = Writes(r.session)
  BY FlushType
<1>2. r.session \in Sessions(Items)
  BY DEF Requests, Shape
<1>3. \A i \in DOMAIN Writes(r.session) : Writes(r.session)[i] \in Writable(r.session)
  BY <1>2, WritesExactly
<1> HIDE DEF f
<1>4. ToStore(f) \subseteq Writable(r.session)
  BY <1>1, <1>3 DEF ToStore
<1> QED BY <1>4 DEF f

\* A new object may be stored besides the others.
LEMMA AddNewStores ==
  ASSUME NEW Items, NEW s \in Sessions(Items), NEW id, NEW val, [id |-> id, val |-> val] \in Items
  PROVE  Writable(AddNew(s, id, val)) \subseteq Writable(s) \cup {Len(s.objs) + 1}
<1> DEFINE a == AddNew(s, id, val)
           p == s.pending
           n == Len(s.objs) + 1
           q == Append(p, n)
<1>1. a.tracked = s.tracked /\ a.pending = q
  <2>1. a.tracked = s.tracked
    BY SameTracked
  <2>2. a.pending = q
    BY AddNewType
  <2> QED BY <2>1, <2>2
<1>2. p \in Seq(Nat) /\ n \in Nat
  BY DEF Sessions
<1> HIDE DEF a, p, n, q
<1>3. DOMAIN q = DOMAIN p \cup {Len(q)} /\ q[Len(q)] = n /\ \A i \in DOMAIN p : q[i] = p[i]
  <2>1. q = Append(p, n)
    BY DEF q
  <2> QED BY <1>2, <2>1, AppendFacts
<1>4. Writable(a) \subseteq Writable(s) \cup {n}
  BY <1>1, <1>3 DEF Writable, p
<1> QED BY <1>4 DEF a, n

\* log_event stores its record besides what could be stored before.
LEMMA LogStores ==
  ASSUME NEW Names, Basic \subseteq Names, NEW Items, NEW r \in Requests(Names, Items),
         NEW event, AuditItem(event) \in Items, NEW pc \in Names, pc # "flush"
  PROVE  ToStore(LogEvent(r, event, pc)) \subseteq Writable(r.session) \cup {Len(r.session.objs) + 1}
<1> DEFINE f == LogEvent(r, event, pc)
           t == r.session
           s == AddNew(t, "audit", event)
<1>1. r \in Shape(Names, Items) /\ t \in Sessions(Items)
  BY DEF Requests, Shape
<1>2. /\ f.pc = "flush" /\ f.writing = Writes(s)
  <2> DEFINE q == [r EXCEPT !.session = s]
  <2>1. f = Flush(q, pc)
    BY DEF LogEvent
  <2>2. f.pc = "flush"
    BY LogEventType DEF Recording
  <2>3. q.pc = r.pc /\ q.session = s
    <3> HIDE DEF s
    <3> QED BY <1>1 DEF Shape
  <2> HIDE DEF q, s, f
  <2>4. Writes(s) # <<>>
    <3>1. CASE Writes(s) = <<>>
      <4>1. f = [q EXCEPT !.pc = pc]
        BY <2>1, <2>3, <3>1 DEF Flush
      <4>2. q \in [op : Names, pc : Names, then : Names, session : {s}, writing : Seq(Nat)]
        BY <1>1 DEF Shape, q
      <4> QED BY <2>2, <4>1, <4>2
    <3> QED BY <3>1
  <2>5. f = [q EXCEPT !.pc = "flush", !.then = pc, !.writing = Writes(s)]
    BY <2>1, <2>3, <2>4 DEF Flush
  <2>6. q \in [op : Names, pc : Names, then : Names, session : {s}, writing : Seq(Nat)]
    BY <1>1 DEF Shape, q
  <2> QED BY <2>2, <2>5, <2>6
<1>3. s \in Sessions(Items) /\ Writable(s) \subseteq Writable(t) \cup {Len(t.objs) + 1}
  <2> DEFINE id == "audit"
  <2>1. [id |-> id, val |-> event] \in Items
    BY DEF AuditItem
  <2> HIDE DEF id, t
  <2>2. AddNew(t, id, event) \in Sessions(Items)
        /\ Writable(AddNew(t, id, event)) \subseteq Writable(t) \cup {Len(t.objs) + 1}
    BY <1>1, <2>1, AddNewType, AddNewStores
  <2> QED BY <2>2 DEF id
<1> HIDE DEF s, f, t
<1>4. \A i \in DOMAIN f.writing : f.writing[i] \in Writable(s)
  BY <1>2, <1>3, WritesExactly
<1> QED BY <1>2, <1>3, <1>4 DEF ToStore, f, t

\* A write leaves only what was still to be stored, the last one nothing; the
\* object written was to be stored.
LEMMA WriteStores ==
  ASSUME NEW Names, Basic \subseteq Names, NEW Items, NEW r \in Requests(Names, Items), r.pc = "flush"
  PROVE  /\ ToStore(AfterWrite(r)) \subseteq ToStore(r)
         /\ AfterWrite(r).pc = "flush" \/ ToStore(AfterWrite(r)) = {}
         /\ 1 \in DOMAIN r.writing /\ r.writing[1] \in ToStore(r)
<1> DEFINE f == AfterWrite(r)
           none == <<>>
<1>1. r \in Shape(Names, Items) /\ r.writing \in Seq(Nat) /\ Len(r.writing) \in Nat \ {0}
  BY NextObjectType DEF Requests, Shape
<1>2. 1 \in DOMAIN r.writing /\ r.writing[1] \in ToStore(r)
  <2>1. 1 \in DOMAIN r.writing
    BY <1>1
  <2> QED BY <2>1 DEF ToStore
<1>3. CASE Len(r.writing) > 1
  <2>0. \/ f.pc = "flush" /\ f.writing = Tail(r.writing)
        \/ Len(r.writing) = 1
    BY AfterWriteType
  <2> HIDE DEF f
  <2>1. f.pc = "flush" /\ f.writing = Tail(r.writing)
    <3> DEFINE n == Len(r.writing)
    <3>1. n \in Nat /\ n > 1
      BY <1>1, <1>3
    <3> HIDE DEF n
    <3>2. n # 1
      BY <3>1
    <3> QED BY <2>0, <3>2 DEF n
  <2>2. \A i \in DOMAIN f.writing : i + 1 \in DOMAIN r.writing /\ f.writing[i] = r.writing[i + 1]
    BY <1>1, <1>3, <2>1, TailFacts
  <2>3. ToStore(f) \subseteq ToStore(r)
    BY <2>1, <2>2 DEF ToStore
  <2> QED BY <1>2, <2>1, <2>3 DEF f
<1>4. CASE ~(Len(r.writing) > 1)
  <2> DEFINE c == Committed(r.session)
             t == r.then
  <2>1. f = [r EXCEPT !.writing = none, !.pc = t, !.session = c]
    BY <1>4 DEF AfterWrite
  <2> HIDE DEF c, t
  <2>2. f.session = c /\ f.pc = t
    BY <1>1, <2>1 DEF Shape
  <2>3. t # "flush"
    BY DEF t, Requests, Sound
  <2>4. c.tracked = none /\ c.pending = none
    <3>1. r.session \in Sessions(Items)
      BY <1>1 DEF Shape
    <3>2. r.session \in [objs : Seq(Items), tracked : Seq(Entries(Items)), pending : Seq(Nat)]
      BY <3>1 DEF Sessions
    <3>3. c = [r.session EXCEPT !.tracked = none, !.pending = none]
      BY DEF c, Committed
    <3> HIDE DEF none
    <3> QED BY <3>2, <3>3
  <2> HIDE DEF f
  <2>5. ToStore(f) = {}
    BY <2>2, <2>3, <2>4 DEF ToStore, Writable
  <2> QED BY <1>2, <2>5 DEF f
<1> QED BY <1>3, <1>4
===============================================================================
