--------------------------- MODULE SessionShimProofs ---------------------------
(***************************************************************************)
(* SessionShim for any handlers, documents, attributes and bounds, with    *)
(* and without transactions: an unmodified document is never written, and  *)
(* an update is lost only to a session that read the document before it.   *)
(*                                                                         *)
(* The invariant says three things of each handler (HandlerOK): it refers  *)
(* to objects it holds; an object differs from its snapshot, and is being  *)
(* stored, only if an attribute was assigned or it was added (NoticedOK);  *)
(* and an object that matched the document's present version still has its *)
(* attributes, unless the handler assigned them (MatchOK).  Each action is *)
(* proved for its own handler; what it does to the store leaves the others *)
(* as they are, since every write makes a new version (OthersMatch).       *)
(***************************************************************************)
EXTENDS SessionShim, RequestProofs

\* The objects of a handler: copies of documents.
Copies == [id : Docs, val : Attributes]

\* The handlers' variables have their types.
Typed ==
  /\ store \in [Docs -> Attributes \cup {Absent}]
  /\ version \in [Docs -> 0..MaxVersion]
  /\ session \in [Handlers -> Sessions(Copies)]
  /\ writing \in [Handlers -> Seq(Nat)]
  /\ touched \in [Handlers -> SUBSET (Nat \X Fields)]
  /\ fetched \in [Handlers -> Seq(Nat)]

\* One handler's session x, its unfinished commit w, what it assigned, t, and
\* the versions g of its objects: all of them are about objects of x.
HeldOK(x, w, t, g) ==
  /\ \A i \in DOMAIN w : w[i] \in DOMAIN x.objs
  /\ t \subseteq (DOMAIN x.objs) \X Fields
  /\ Len(g) = Len(x.objs)

\* The handler has a reason to store object n.
Changed(x, t, n) ==
  (\E i \in DOMAIN x.pending : x.pending[i] = n) \/ (\E f \in Fields : <<n, f>> \in t)

\* Only assigned attributes differ from the snapshot, and only objects that were
\* changed are being stored.
NoticedOK(x, w, t) ==
  /\ \A i \in DOMAIN x.tracked, f \in Fields :
       <<x.tracked[i].obj, f>> \notin t
         => x.objs[x.tracked[i].obj].val[f] = x.tracked[i].snapshot[f]
  /\ \A i \in DOMAIN w : Changed(x, t, w[i])

\* The handler assigned attribute f of no copy of document d.
NotAssigned(x, t, d, f) == \A n \in DOMAIN x.objs : x.objs[n].id = d => <<n, f>> \notin t

\* A copy that matched the present version has the attributes of the document,
\* except for what the handler assigned.
MatchOK(x, t, g, docs, versions) ==
  /\ \A n \in DOMAIN x.objs : g[n] <= versions[x.objs[n].id]
  /\ \A d \in Docs, f \in Fields :
       NotAssigned(x, t, d, f) /\ docs[d] # Absent
         => \A n \in DOMAIN x.objs :
              x.objs[n].id = d /\ g[n] = versions[d] => x.objs[n].val[f] = docs[d][f]

HandlerOK(x, w, t, g, docs, versions) ==
  HeldOK(x, w, t, g) /\ NoticedOK(x, w, t) /\ MatchOK(x, t, g, docs, versions)

Inv ==
  Typed /\ \A s \in Handlers : HandlerOK(session[s], writing[s], touched[s], fetched[s], store, version)

-----------------------------------------------------------------------------
(* What the steps make of one handler *)

\* What an object of a session is.
LEMMA Held ==
  ASSUME NEW x \in Sessions(Copies)
  PROVE  /\ x.objs \in Seq(Copies)
         /\ \A n \in DOMAIN x.objs : x.objs[n] \in Copies
         /\ \A i \in DOMAIN x.tracked : x.tracked[i].obj \in DOMAIN x.objs
         /\ \A i \in DOMAIN x.pending : x.pending[i] \in DOMAIN x.objs
         /\ \A i \in DOMAIN x.tracked : x.tracked[i].snapshot \in Attributes
<1>1. x.tracked \in Seq(Entries(Copies)) /\ x.objs \in Seq(Copies)
  BY DEF Sessions
<1>2. \A i \in DOMAIN x.tracked : x.tracked[i] \in Entries(Copies)
  BY <1>1
<1>3. \A e \in Entries(Copies) : e.snapshot \in Attributes
  BY DEF Entries, Copies
<1> QED BY <1>1, <1>2, <1>3 DEF Sessions

\* A write by anybody makes a new version, so it leaves what another handler's
\* matching copies have.
LEMMA OthersMatch ==
  ASSUME NEW x \in Sessions(Copies), NEW t, NEW g \in Seq(Nat), Len(g) = Len(x.objs),
         NEW docs, NEW versions \in [Docs -> Nat], NEW newDocs, NEW newVersions \in [Docs -> Nat],
         MatchOK(x, t, g, docs, versions),
         \A d \in Docs : \/ newDocs[d] = docs[d] /\ newVersions[d] = versions[d]
                         \/ newVersions[d] > versions[d]
  PROVE  MatchOK(x, t, g, newDocs, newVersions)
<1>1. ASSUME NEW n \in DOMAIN x.objs PROVE g[n] \in Nat /\ x.objs[n].id \in Docs
  <2>1. x.objs \in Seq(Copies) /\ x.objs[n] \in Copies
    BY Held
  <2>2. n \in DOMAIN g
    BY <2>1
  <2> QED BY <2>1, <2>2 DEF Copies
<1>2. \A n \in DOMAIN x.objs : g[n] <= versions[x.objs[n].id]
  BY DEF MatchOK
<1>3. ASSUME NEW n \in DOMAIN x.objs PROVE g[n] <= newVersions[x.objs[n].id]
  <2> DEFINE d == x.objs[n].id
  <2>1. d \in Docs /\ g[n] \in Nat /\ versions[d] \in Nat /\ newVersions[d] \in Nat
        /\ g[n] <= versions[d] /\ (newVersions[d] = versions[d] \/ newVersions[d] > versions[d])
    BY <1>1, <1>2
  <2> HIDE DEF d
  <2>2. g[n] <= newVersions[d]
    BY <2>1
  <2> QED BY <2>2 DEF d
<1>4. ASSUME NEW d \in Docs, NEW f \in Fields, NotAssigned(x, t, d, f), newDocs[d] # Absent,
             NEW n \in DOMAIN x.objs, x.objs[n].id = d, g[n] = newVersions[d]
      PROVE  x.objs[n].val[f] = newDocs[d][f]
  <2>1. newDocs[d] = docs[d] /\ newVersions[d] = versions[d]
    BY <1>1, <1>2, <1>4
  <2> QED BY <2>1, <1>4 DEF MatchOK
<1> QED BY <1>3, <1>4 DEF MatchOK

\* A query: the new object is unassigned, equals its snapshot and the document.
LEMMA QueryKeeps ==
  ASSUME NEW x \in Sessions(Copies), NEW w, DOMAIN w = {}, NEW t, NEW g \in Seq(Nat),
         NEW docs, NEW versions \in [Docs -> Nat], NEW d \in Docs, docs[d] \in Attributes,
         HandlerOK(x, w, t, g, docs, versions),
         NEW y, y = Fetch(x, d, docs[d]), NEW h, h = Append(g, versions[d])
  PROVE  /\ y \in Sessions(Copies) /\ h \in Seq(Nat)
         /\ HandlerOK(y, w, t, h, docs, versions)
<1> DEFINE o == [id |-> d, val |-> docs[d]]
           n == Len(x.objs) + 1
<1>1. o \in Copies /\ o.id = d /\ o.val = docs[d]
  BY DEF Copies
<1>2. y \in Sessions(Copies) /\ y.objs = Append(x.objs, o) /\ y.pending = x.pending
  BY <1>1, FetchType
<1>3. \A i \in DOMAIN y.tracked :
        \/ y.tracked[i] = [obj |-> n, snapshot |-> docs[d]]
        \/ i \in DOMAIN x.tracked /\ y.tracked[i] = x.tracked[i]
  BY <1>1, FetchEntries
<1>4. /\ x.objs \in Seq(Copies)
      /\ \A i \in DOMAIN x.tracked : x.tracked[i].obj \in DOMAIN x.objs
  BY Held
<1>5. /\ Len(y.objs) = n /\ DOMAIN y.objs = DOMAIN x.objs \cup {n}
      /\ y.objs[n] = o /\ \A m \in DOMAIN x.objs : y.objs[m] = x.objs[m]
  <2>1. LET q == y.objs
        IN  Len(q) = Len(x.objs) + 1 /\ DOMAIN q = DOMAIN x.objs \cup {Len(q)}
            /\ q[Len(q)] = o /\ \A m \in DOMAIN x.objs : q[m] = x.objs[m]
    <3> HIDE DEF o
    <3> QED BY <1>1, <1>2, <1>4, AppendFacts
  <2> HIDE DEF o
  <2> QED BY <2>1
<1>6. /\ h \in Seq(Nat) /\ Len(h) = Len(g) + 1 /\ h[Len(h)] = versions[d]
      /\ \A m \in DOMAIN g : h[m] = g[m]
  BY AppendFacts
<1>7. /\ Len(g) = Len(x.objs) /\ DOMAIN g = DOMAIN x.objs /\ n \in Nat /\ n \notin DOMAIN x.objs
  BY <1>4 DEF HandlerOK, HeldOK
<1>8. Len(h) = n /\ h[n] = versions[d] /\ \A m \in DOMAIN x.objs : h[m] = g[m]
  BY <1>6, <1>7
<1>9. \A f : <<n, f>> \notin t
  BY <1>7 DEF HandlerOK, HeldOK
<1> HIDE DEF n, o
<1>10. HeldOK(y, w, t, h)
  BY <1>5, <1>8 DEF HandlerOK, HeldOK
<1>11. NoticedOK(y, w, t)
  <2>1. ASSUME NEW i \in DOMAIN y.tracked, NEW f \in Fields, <<y.tracked[i].obj, f>> \notin t
        PROVE  y.objs[y.tracked[i].obj].val[f] = y.tracked[i].snapshot[f]
    <3>1. CASE y.tracked[i] = [obj |-> n, snapshot |-> docs[d]]
      BY <3>1, <1>1, <1>5
    <3>2. CASE i \in DOMAIN x.tracked /\ y.tracked[i] = x.tracked[i]
      <4>1. x.tracked[i].obj \in DOMAIN x.objs
        BY <3>2, <1>4
      <4> QED BY <4>1, <3>2, <2>1, <1>5 DEF HandlerOK, NoticedOK
    <3> QED BY <3>1, <3>2, <1>3
  <2> QED BY <2>1 DEF NoticedOK
<1>12. MatchOK(y, t, h, docs, versions)
  <2>1. \A m \in DOMAIN x.objs : g[m] <= versions[x.objs[m].id]
    BY DEF HandlerOK, MatchOK
  <2>2. \A m \in DOMAIN y.objs : h[m] <= versions[y.objs[m].id]
    BY SMTT(40), <2>1, <1>1, <1>5, <1>8
  <2>3. ASSUME NEW e \in Docs, NEW f \in Fields, NotAssigned(y, t, e, f), docs[e] # Absent,
               NEW m \in DOMAIN y.objs, y.objs[m].id = e, h[m] = versions[e]
        PROVE  y.objs[m].val[f] = docs[e][f]
    <3>1. CASE m = n
      BY <3>1, <2>3, <1>1, <1>5
    <3>2. CASE m \in DOMAIN x.objs
      <4>1. NotAssigned(x, t, e, f)
        BY <2>3, <1>5 DEF NotAssigned
      <4> QED BY <4>1, <3>2, <2>3, <1>5, <1>8 DEF HandlerOK, MatchOK
    <3> QED BY <3>1, <3>2, <1>5
  <2> QED BY ZenonT(60), <2>2, <2>3 DEF MatchOK
<1> QED BY <1>2, <1>6, <1>10, <1>11, <1>12 DEF HandlerOK

\* Objects that are assigned a value: every attribute that differs is noted.
LEMMA AssignKeeps ==
  ASSUME NEW x \in Sessions(Copies), NEW w, DOMAIN w = {}, NEW t, NEW g \in Seq(Nat),
         NEW docs, NEW versions, HandlerOK(x, w, t, g, docs, versions),
         NEW n \in DOMAIN x.objs, NEW val \in Attributes,
         NEW T \in SUBSET ({n} \X Fields),
         \A f \in Fields : <<n, f>> \notin T => val[f] = x.objs[n].val[f],
         NEW y, y = Assign(x, n, val), NEW u, u = t \cup T
  PROVE  y \in Sessions(Copies) /\ HandlerOK(y, w, u, g, docs, versions)
<1> DEFINE o == WithVal(x.objs[n], val)
<1>1. x.objs \in Seq(Copies) /\ x.objs[n] \in Copies
      /\ \A i \in DOMAIN x.tracked : x.tracked[i].obj \in DOMAIN x.objs
  BY Held
<1>2. o \in Copies /\ o.id = x.objs[n].id /\ o.val = val
  BY <1>1 DEF WithVal, Copies
<1>3. y \in Sessions(Copies) /\ y.objs = WithObject(x.objs, n, o) /\ y.pending = x.pending
      /\ y.tracked = x.tracked
  <2>1. o = WithVal(x.objs[n], val)
    OBVIOUS
  <2> HIDE DEF o
  <2>2. y \in Sessions(Copies) /\ y.objs = WithObject(x.objs, n, o) /\ y.pending = x.pending
    BY <1>2, <2>1, AssignType
  <2>3. y.tracked = x.tracked
    BY SameTracked
  <2> QED BY <2>2, <2>3
<1> HIDE DEF o
<1>4. /\ DOMAIN y.objs = DOMAIN x.objs /\ Len(y.objs) = Len(x.objs) /\ y.objs[n] = o
      /\ \A m \in DOMAIN x.objs : m # n => y.objs[m] = x.objs[m]
  BY <1>1, <1>2, <1>3 DEF WithObject
<1>5. \A m \in DOMAIN x.objs : y.objs[m].id = x.objs[m].id
  BY <1>2, <1>4
<1>6. \A m \in DOMAIN x.objs, f \in Fields :
        <<m, f>> \notin u => <<m, f>> \notin t /\ y.objs[m].val[f] = x.objs[m].val[f]
  BY <1>2, <1>4
<1>7. HeldOK(y, w, u, g)
  BY <1>4 DEF HandlerOK, HeldOK
<1>8. NoticedOK(y, w, u)
  <2>1. ASSUME NEW i \in DOMAIN y.tracked, NEW f \in Fields, <<y.tracked[i].obj, f>> \notin u
        PROVE  y.objs[y.tracked[i].obj].val[f] = y.tracked[i].snapshot[f]
    <3>1. x.tracked[i].obj \in DOMAIN x.objs /\ y.tracked[i] = x.tracked[i] /\ i \in DOMAIN x.tracked
      BY <1>1, <1>3
    <3> DEFINE m == x.tracked[i].obj
    <3>2. <<m, f>> \notin u /\ y.tracked[i].obj = m /\ m \in DOMAIN x.objs
      BY <2>1, <3>1
    <3>3. <<m, f>> \notin t /\ y.objs[m].val[f] = x.objs[m].val[f]
      <4> HIDE DEF m
      <4> QED BY <3>2, <1>6
    <3>4. x.objs[m].val[f] = x.tracked[i].snapshot[f]
      BY <3>1, <3>3 DEF HandlerOK, NoticedOK
    <3> QED BY <3>1, <3>2, <3>3, <3>4
  <2> QED BY <2>1 DEF NoticedOK
<1>9. MatchOK(y, u, g, docs, versions)
  <2>1. \A m \in DOMAIN y.objs : g[m] <= versions[y.objs[m].id]
    BY <1>4, <1>5 DEF HandlerOK, MatchOK
  <2>2. ASSUME NEW e \in Docs, NEW f \in Fields, NotAssigned(y, u, e, f), docs[e] # Absent,
               NEW m \in DOMAIN y.objs, y.objs[m].id = e, g[m] = versions[e]
        PROVE  y.objs[m].val[f] = docs[e][f]
    <3>1. NotAssigned(x, t, e, f)
      BY <2>2, <1>4, <1>5, <1>6 DEF NotAssigned
    <3>2. x.objs[m].val[f] = docs[e][f]
      BY SMTT(40), <3>1, <2>2, <1>4, <1>5 DEF HandlerOK, MatchOK
    <3>3. <<m, f>> \notin u
      BY <2>2 DEF NotAssigned
    <3> QED BY <3>2, <3>3, <2>2, <1>4, <1>6
  <2> QED BY ZenonT(60), <2>1, <2>2 DEF MatchOK
<1> QED BY <1>3, <1>7, <1>8, <1>9 DEF HandlerOK

\* A new object, with all its attributes noted.
LEMMA CreateKeeps ==
  ASSUME NEW x \in Sessions(Copies), NEW w, DOMAIN w = {}, NEW t, NEW g \in Seq(Nat),
         NEW docs, NEW versions \in [Docs -> Nat], NEW d \in Docs, NEW val \in Attributes,
         HandlerOK(x, w, t, g, docs, versions),
         NEW y, y = AddNew(x, d, val), NEW h, h = Append(g, 0),
         NEW u, u = t \cup {<<Newest(x) + 1, f>> : f \in Fields}
  PROVE  /\ y \in Sessions(Copies) /\ h \in Seq(Nat)
         /\ HandlerOK(y, w, u, h, docs, versions)
<1> DEFINE o == [id |-> d, val |-> val]
           n == Len(x.objs) + 1
<1>1. o \in Copies /\ o.id = d
  BY DEF Copies
<1>2. y \in Sessions(Copies) /\ y.objs = Append(x.objs, o) /\ y.tracked = x.tracked
  <2>1. y \in Sessions(Copies) /\ y.objs = Append(x.objs, o)
    BY <1>1, AddNewType
  <2>2. y.tracked = x.tracked
    BY SameTracked
  <2> QED BY <2>1, <2>2
<1>3. /\ x.objs \in Seq(Copies)
      /\ \A i \in DOMAIN x.tracked : x.tracked[i].obj \in DOMAIN x.objs
  BY Held
<1>4. /\ Len(y.objs) = n /\ DOMAIN y.objs = DOMAIN x.objs \cup {n}
      /\ y.objs[n] = o /\ \A m \in DOMAIN x.objs : y.objs[m] = x.objs[m]
  <2>1. LET q == y.objs
        IN  Len(q) = Len(x.objs) + 1 /\ DOMAIN q = DOMAIN x.objs \cup {Len(q)}
            /\ q[Len(q)] = o /\ \A m \in DOMAIN x.objs : q[m] = x.objs[m]
    <3> HIDE DEF o
    <3> QED BY <1>1, <1>2, <1>3, AppendFacts
  <2> HIDE DEF o
  <2> QED BY <2>1
<1>5. /\ h \in Seq(Nat) /\ Len(h) = Len(g) + 1 /\ h[Len(h)] = 0
      /\ \A m \in DOMAIN g : h[m] = g[m]
  BY AppendFacts
<1>6. /\ Len(g) = Len(x.objs) /\ DOMAIN g = DOMAIN x.objs /\ n \in Nat /\ n \notin DOMAIN x.objs
  BY <1>3 DEF HandlerOK, HeldOK
<1>7. Len(h) = n /\ h[n] = 0 /\ \A m \in DOMAIN x.objs : h[m] = g[m]
  BY <1>5, <1>6
<1>8. u = t \cup {<<n, f>> : f \in Fields}
  BY DEF Newest
<1> HIDE DEF n, o
<1>9. HeldOK(y, w, u, h)
  <2>1. u \subseteq (DOMAIN y.objs) \X Fields
    BY <1>4, <1>8 DEF HandlerOK, HeldOK
  <2> QED BY <2>1, <1>4, <1>7 DEF HandlerOK, HeldOK
<1>10. NoticedOK(y, w, u)
  <2>1. ASSUME NEW i \in DOMAIN y.tracked, NEW f \in Fields, <<y.tracked[i].obj, f>> \notin u
        PROVE  y.objs[y.tracked[i].obj].val[f] = y.tracked[i].snapshot[f]
    <3>1. x.tracked[i].obj \in DOMAIN x.objs /\ y.tracked[i] = x.tracked[i] /\ i \in DOMAIN x.tracked
      BY <1>2, <1>3
    <3>2. <<x.tracked[i].obj, f>> \notin t
      BY <2>1, <3>1
    <3> QED BY <3>1, <3>2, <1>4 DEF HandlerOK, NoticedOK
  <2> QED BY <2>1 DEF NoticedOK
<1>11. MatchOK(y, u, h, docs, versions)
  <2>1. \A m \in DOMAIN x.objs : g[m] <= versions[x.objs[m].id]
    BY DEF HandlerOK, MatchOK
  <2>2. 0 <= versions[d]
    OBVIOUS
  <2>3. \A m \in DOMAIN y.objs : h[m] <= versions[y.objs[m].id]
    BY <2>1, <2>2, <1>1, <1>4, <1>7
  <2>4. ASSUME NEW e \in Docs, NEW f \in Fields, NotAssigned(y, u, e, f), docs[e] # Absent,
               NEW m \in DOMAIN y.objs, y.objs[m].id = e, h[m] = versions[e]
        PROVE  y.objs[m].val[f] = docs[e][f]
    <3>1. m # n
      BY <2>4, <1>8 DEF NotAssigned
    <3>2. m \in DOMAIN x.objs
      BY <3>1, <1>4
    <3>3. NotAssigned(x, t, e, f)
      BY <2>4, <1>4 DEF NotAssigned
    <3> QED BY <3>2, <3>3, <2>4, <1>4, <1>7 DEF HandlerOK, MatchOK
  <2> QED BY ZenonT(60), <2>3, <2>4 DEF MatchOK
<1> QED BY <1>2, <1>5, <1>9, <1>10, <1>11 DEF HandlerOK

\* add() of an object the handler holds.
LEMMA AddKeeps ==
  ASSUME NEW x \in Sessions(Copies), NEW w, DOMAIN w = {}, NEW t, NEW g, NEW docs, NEW versions,
         HandlerOK(x, w, t, g, docs, versions), NEW n \in DOMAIN x.objs,
         NEW y, y = AddObject(x, n)
  PROVE  y \in Sessions(Copies) /\ HandlerOK(y, w, t, g, docs, versions)
<1> DEFINE p == x.pending
           q == Append(p, n)
<1>1. x \in [objs : Seq(Copies), tracked : Seq(Entries(Copies)), pending : Seq(Nat)]
      /\ p \in Seq(Nat) /\ n \in Nat
  BY Held DEF Sessions
<1>2. q \in Seq(Nat) /\ DOMAIN q = DOMAIN p \cup {Len(q)} /\ q[Len(q)] = n /\ \A i \in DOMAIN p : q[i] = p[i]
  <2> HIDE DEF p
  <2> QED BY <1>1, AppendFacts
<1>3. y = [x EXCEPT !.pending = q]
  BY DEF AddObject
<1>4. \A i \in DOMAIN q : q[i] \in DOMAIN x.objs
  BY <1>2, Held
<1> HIDE DEF q
<1>5. /\ y \in [objs : Seq(Copies), tracked : Seq(Entries(Copies)), pending : Seq(Nat)]
      /\ y.objs = x.objs /\ y.tracked = x.tracked /\ y.pending = q
  BY <1>1, <1>2, <1>3
<1>6. y \in Sessions(Copies)
  BY <1>4, <1>5 DEF Sessions
<1>7. HeldOK(y, w, t, g)
  BY <1>5 DEF HandlerOK, HeldOK
<1>8. NoticedOK(y, w, t)
  BY <1>5 DEF HandlerOK, NoticedOK
<1>9. MatchOK(y, t, g, docs, versions)
  <2>1. \A d, f : NotAssigned(y, t, d, f) <=> NotAssigned(x, t, d, f)
    BY <1>5 DEF NotAssigned
  <2> QED BY <2>1, <1>5 DEF HandlerOK, MatchOK
<1> QED BY <1>6, <1>7, <1>8, <1>9 DEF HandlerOK

\* A set of numbers up to n has a largest one.
LEMMA LargestExists ==
  ASSUME NEW n \in Nat, NEW S \in SUBSET (1..n), S # {}
  PROVE  Max(S) \in S
<1> DEFINE D == {k \in Nat : \E i \in S : k = n - i}
<1>1. PICK i \in S : TRUE
  OBVIOUS
<1>2. n - i \in D
  OBVIOUS
<1>3. PICK k \in D : \A j \in D : ~ (<<j, k>> \in OpToRel(<, Nat))
  <2>1. D \subseteq Nat /\ D # {}
    BY <1>2
  <2> HIDE DEF D
  <2> QED BY <2>1, NatLessThanWellFounded, WFMin
<1>4. PICK m \in S : k = n - m
  OBVIOUS
<1>5. ASSUME NEW j \in S PROVE m >= j
  <2>1. n - j \in D /\ n - j \in Nat /\ k \in Nat
    OBVIOUS
  <2>2. ~ (n - j < k)
    <3> HIDE DEF D
    <3> QED BY <1>3, <2>1 DEF OpToRel
  <2> QED BY <2>2, <1>4
<1> QED BY <1>5 DEF Max

\* Of each document that is written an object of the handler stays.
LEMMA FinalIs ==
  ASSUME NEW s \in Handlers, session[s] \in Sessions(Copies),
         NEW list \in Seq(Nat), \A i \in DOMAIN list : list[i] \in Objects(s),
         NEW d \in Written(s, list)
  PROVE  /\ d \in Docs
         /\ \E i \in DOMAIN list : Final(s, list, d) = list[i] /\ IdOf(session[s], list[i]) = d
<1> DEFINE S == {i \in DOMAIN list : IdOf(session[s], list[i]) = d}
<1>1. S # {} /\ S \in SUBSET (1..Len(list)) /\ Len(list) \in Nat
  BY DEF Written
<1>2. Max(S) \in S
  <2> HIDE DEF S
  <2> QED BY <1>1, LargestExists
<1>3. Final(s, list, d) = list[Max(S)]
  BY DEF Final
<1>4. PICK i \in DOMAIN list : Final(s, list, d) = list[i] /\ IdOf(session[s], list[i]) = d
  BY <1>2, <1>3
<1>5. session[s].objs[list[i]] \in Copies
  BY Held DEF Objects
<1>6. d \in Docs
  BY <1>4, <1>5 DEF IdOf, Copies
<1> QED BY <1>4, <1>6

\* What a write makes of the store.
WriteEffect(s, list) ==
  /\ store' \in [Docs -> Attributes \cup {Absent}]
  /\ version' \in [Docs -> 0..MaxVersion]
  /\ fetched' \in [Handlers -> Seq(Nat)]
  /\ Len(fetched'[s]) = Len(session[s].objs)
  /\ \A r \in Handlers \ {s} : fetched'[r] = fetched[r]
  /\ \A d \in Docs : \/ store'[d] = store[d] /\ version'[d] = version[d]
                     \/ version'[d] > version[d]
  /\ MatchOK(session[s], touched[s], fetched'[s], store', version')
  /\ \A d \in Docs : store'[d] # store[d] =>
       \E i \in DOMAIN list : /\ IdOf(session[s], list[i]) = d
                              /\ store'[d] = ValOf(session[s], list[i])

\* Every document written has a new version, and the object that stays matches
\* it.
LEMMA WriteMatches ==
  ASSUME Typed, NEW s \in Handlers,
         HandlerOK(session[s], writing[s], touched[s], fetched[s], store, version),
         NEW list \in Seq(Nat), \A i \in DOMAIN list : list[i] \in Objects(s),
         store' = Replaced(s, list), Recorded(s, list)
  PROVE  WriteEffect(s, list)
<1> DEFINE x == session[s]
           g == fetched[s]
           h == fetched'[s]
           W == Written(s, list)
<1>1. /\ x \in Sessions(Copies) /\ x.objs \in Seq(Copies)
      /\ \A n \in DOMAIN x.objs : x.objs[n].id \in Docs /\ x.objs[n].val \in Attributes
      /\ g \in Seq(Nat) /\ Len(g) = Len(x.objs) /\ DOMAIN g = DOMAIN x.objs
  <2>1. x \in Sessions(Copies) /\ g \in Seq(Nat)
    BY DEF Typed
  <2>2. x.objs \in Seq(Copies) /\ \A n \in DOMAIN x.objs : x.objs[n] \in Copies
    BY <2>1, Held
  <2>3. Len(g) = Len(x.objs)
    BY DEF HandlerOK, HeldOK
  <2> QED BY <2>1, <2>2, <2>3 DEF Copies
<1>2. \A d \in W : /\ d \in Docs
                   /\ \E i \in DOMAIN list : Final(s, list, d) = list[i] /\ x.objs[list[i]].id = d
                                             /\ list[i] \in DOMAIN x.objs
  BY <1>1, FinalIs DEF IdOf, Objects
<1>3. \A d \in Docs : store'[d] = IF d \in W THEN x.objs[Final(s, list, d)].val ELSE store[d]
  BY DEF Replaced, ValOf
<1>4. store' \in [Docs -> Attributes \cup {Absent}]
  <2>1. ASSUME NEW d \in Docs PROVE store'[d] \in Attributes \cup {Absent}
    <3>1. CASE d \in W
      <4>1. PICK n \in DOMAIN x.objs : Final(s, list, d) = n
        BY <3>1, <1>2
      <4>2. store'[d] = x.objs[n].val
        BY <3>1, <4>1, <1>3
      <4> QED BY <4>2, <1>1
    <3>2. CASE d \notin W
      <4>1. store'[d] = store[d]
        BY <3>2, <1>3
      <4> QED BY <4>1 DEF Typed
    <3> QED BY <3>1, <3>2
  <2>2. store' = [d \in Docs |-> store'[d]]
    BY DEF Replaced
  <2> QED BY <2>1, <2>2
<1>5. \A d \in Docs : /\ version[d] \in Nat
                      /\ version'[d] = IF d \in W THEN version[d] + 1 ELSE version[d]
                      /\ version'[d] \in 0..MaxVersion
  <2>1. version' = [d \in Docs |-> IF d \in W THEN version[d] + 1 ELSE version[d]]
        /\ \A d \in Docs : version'[d] <= MaxVersion
    BY DEF Recorded
  <2>2. \A d \in Docs : version[d] \in 0..MaxVersion
    BY DEF Typed
  <2> HIDE DEF W
  <2> QED BY <2>1, <2>2, BoundsAssumption
<1>6. version' \in [Docs -> 0..MaxVersion]
  <2>1. version' = [d \in Docs |-> version'[d]]
    BY DEF Recorded
  <2> QED BY <2>1, <1>5
<1>7. /\ h = [n \in DOMAIN g |-> IF x.objs[n].id \in W /\ n = Final(s, list, x.objs[n].id)
                                 THEN version'[x.objs[n].id] ELSE g[n]]
      /\ \A r \in Handlers \ {s} : fetched'[r] = fetched[r]
      /\ fetched' = [r \in Handlers |-> fetched'[r]]
  BY DEF Recorded, Typed, IdOf
<1> HIDE DEF h, g, x, W
<1>8. h \in Seq(Nat) /\ Len(h) = Len(x.objs) /\ DOMAIN h = DOMAIN x.objs
  <2>1. ASSUME NEW n \in DOMAIN g PROVE h[n] \in Nat
    <3> DEFINE d == x.objs[n].id
    <3>1. g[n] \in Nat /\ d \in Docs
      BY <1>1
    <3>2. version'[d] \in Nat
      BY <3>1, <1>5, BoundsAssumption
    <3>3. h[n] = g[n] \/ h[n] = version'[d]
      BY <1>7
    <3> HIDE DEF d
    <3> QED BY <3>1, <3>2, <3>3
  <2>2. DOMAIN g = 1..Len(x.objs) /\ Len(x.objs) \in Nat
    BY <1>1
  <2> DEFINE k == Len(x.objs)
  <2>3. DOMAIN h = DOMAIN g /\ h = [n \in DOMAIN g |-> h[n]]
    BY <1>7
  <2>4. h \in [1..k -> Nat] /\ k \in Nat /\ DOMAIN h = 1..k
    <3>1. DOMAIN g = 1..k /\ k \in Nat
      BY <2>2
    <3> HIDE DEF k
    <3> QED BY <2>1, <2>3, <3>1
  <2>5. h \in Seq(Nat) /\ Len(h) = k
    <3> HIDE DEF k
    <3> QED BY <2>4
  <2> QED BY <2>2, <2>3, <2>5, <1>1
<1>9. fetched' \in [Handlers -> Seq(Nat)]
  <2>1. \A r \in Handlers \ {s} : fetched[r] \in Seq(Nat)
    BY DEF Typed
  <2>2. \A r \in Handlers : fetched'[r] \in Seq(Nat)
    BY <1>7, <1>8, <2>1 DEF h
  <2> QED BY <1>7, <2>2
<1>10. \A d \in Docs : \/ store'[d] = store[d] /\ version'[d] = version[d]
                       \/ version'[d] > version[d]
  BY <1>3, <1>5
<1>11. \A n \in DOMAIN x.objs : g[n] <= version[x.objs[n].id]
  BY DEF HandlerOK, MatchOK, x, g
<1>12. \A n \in DOMAIN x.objs :
         \/ h[n] = g[n] /\ ~(x.objs[n].id \in W /\ n = Final(s, list, x.objs[n].id))
         \/ x.objs[n].id \in W /\ n = Final(s, list, x.objs[n].id) /\ h[n] = version'[x.objs[n].id]
  BY <1>1, <1>7
<1>13. MatchOK(x, touched[s], h, store', version')
  <2>1. ASSUME NEW n \in DOMAIN x.objs PROVE h[n] <= version'[x.objs[n].id]
    <3> DEFINE d == x.objs[n].id
    <3>1. d \in Docs /\ g[n] \in Nat /\ g[n] <= version[d]
      BY <1>1, <1>11
    <3>4. version[d] \in Nat /\ (version'[d] = version[d] + 1 \/ version'[d] = version[d])
      BY <3>1, <1>5
    <3>2. h[n] = g[n] \/ h[n] = version'[d]
      BY <1>12
    <3> HIDE DEF d
    <3>3. h[n] <= version'[d]
      BY <3>1, <3>2, <3>4
    <3> QED BY <3>3 DEF d
  <2>2. ASSUME NEW d \in Docs, NEW f \in Fields, NotAssigned(x, touched[s], d, f), store'[d] # Absent,
               NEW n \in DOMAIN x.objs, x.objs[n].id = d, h[n] = version'[d]
        PROVE  x.objs[n].val[f] = store'[d][f]
    <3>1. CASE d \in W /\ n = Final(s, list, d)
      BY <3>1, <1>3
    <3>2. CASE ~(d \in W /\ n = Final(s, list, d))
      <4>1. h[n] = g[n] /\ g[n] <= version[d] /\ g[n] \in Nat
        BY <3>2, <2>2, <1>1, <1>11, <1>12
      <4>2. d \notin W
        BY <4>1, <2>2, <1>5
      <4>3. store'[d] = store[d] /\ version'[d] = version[d]
        BY <4>2, <1>3, <1>5
      <4> QED BY <4>1, <4>3, <2>2 DEF HandlerOK, MatchOK, x, g
    <3> QED BY <3>1, <3>2
  <2> QED BY <2>1, <2>2 DEF MatchOK
<1>14. ASSUME NEW d \in Docs, store'[d] # store[d]
       PROVE  \E i \in DOMAIN list : /\ IdOf(session[s], list[i]) = d
                                     /\ store'[d] = ValOf(session[s], list[i])
  <2>1. d \in W /\ store'[d] = x.objs[Final(s, list, d)].val
    BY <1>3, <1>14
  <2> QED BY <1>2, <2>1 DEF IdOf, ValOf, x
<1> QED BY <1>4, <1>6, <1>7, <1>8, <1>9, <1>10, <1>13, <1>14 DEF WriteEffect, h, x

-----------------------------------------------------------------------------
(* The steps *)

\* Typing a commit: its list, and the session it leaves.
LEMMA CommitFacts ==
  ASSUME NEW x \in Sessions(Copies), NEW t, NoticedOK(x, <<>>, t)
  PROVE  /\ Writes(x) \in Seq(Nat)
         /\ \A i \in DOMAIN Writes(x) : Writes(x)[i] \in DOMAIN x.objs /\ Changed(x, t, Writes(x)[i])
         /\ Committed(x) \in Sessions(Copies) /\ Committed(x).objs = x.objs
         /\ DOMAIN Committed(x).tracked = {}
<1>1. Writes(x) \in Seq(DOMAIN x.objs) /\ x.objs \in Seq(Copies)
  BY WritesType, Held
<1>2. \A i \in DOMAIN Writes(x) : Writes(x)[i] \in DOMAIN x.objs
  BY <1>1
<1>3. Writes(x) \in Seq(Nat)
  <2>1. DOMAIN x.objs \subseteq Nat
    BY <1>1
  <2> QED BY <1>1, <2>1
<1>4. ASSUME NEW i \in DOMAIN Writes(x) PROVE Changed(x, t, Writes(x)[i])
  <2> DEFINE n == Writes(x)[i]
  <2>1. CASE \E j \in DOMAIN x.pending : x.pending[j] = n
    BY <2>1 DEF Changed
  <2>2. CASE \E j \in Dirty(x) : x.tracked[j].obj = n
    <3>1. PICK j \in Dirty(x) : x.tracked[j].obj = n
      BY <2>2
    <3>2. j \in DOMAIN x.tracked /\ x.objs[n].val # x.tracked[j].snapshot
      BY <3>1 DEF Dirty, ValOf
    <3>3. x.objs[n].val \in Attributes /\ x.tracked[j].snapshot \in Attributes
      BY <3>1, <3>2, Held DEF Copies
    <3>4. PICK f \in Fields : x.objs[n].val[f] # x.tracked[j].snapshot[f]
      BY <3>2, <3>3 DEF Attributes
    <3>5. <<n, f>> \in t
      BY <3>1, <3>2, <3>4 DEF NoticedOK
    <3> QED BY <3>5 DEF Changed
  <2> QED BY <2>1, <2>2, WritesChanged
<1>5. Committed(x) \in Sessions(Copies) /\ Committed(x).objs = x.objs
  BY CommittedType
<1>6. DOMAIN Committed(x).tracked = {}
  <2> DEFINE none == <<>>
  <2>1. x \in [objs : Seq(Copies), tracked : Seq(Entries(Copies)), pending : Seq(Nat)]
    BY DEF Sessions
  <2>2. Committed(x) = [x EXCEPT !.tracked = none, !.pending = none] /\ DOMAIN none = {}
    BY DEF Committed
  <2> HIDE DEF none
  <2> QED BY <2>1, <2>2
<1> QED BY <1>2, <1>3, <1>4, <1>5, <1>6

\* The step is one of handler s, and what it does to the store is new.
Alone(s) ==
  /\ \A r \in Handlers \ {s} : /\ session'[r] = session[r] /\ writing'[r] = writing[r]
                               /\ touched'[r] = touched[r] /\ fetched'[r] = fetched[r]
  /\ \A d \in Docs : \/ store'[d] = store[d] /\ version'[d] = version[d]
                     \/ version'[d] > version[d]

\* What is known of a handler in a state of the invariant.
LEMMA OfHandler ==
  ASSUME Inv, NEW s \in Handlers
  PROVE  /\ session[s] \in Sessions(Copies) /\ writing[s] \in Seq(Nat)
         /\ touched[s] \in SUBSET (Nat \X Fields) /\ fetched[s] \in Seq(Nat)
         /\ Len(fetched[s]) = Len(session[s].objs)
         /\ version \in [Docs -> Nat]
         /\ HandlerOK(session[s], writing[s], touched[s], fetched[s], store, version)
<1>1. version \in [Docs -> 0..MaxVersion]
  BY DEF Inv, Typed
<1>2. version \in [Docs -> Nat]
  BY <1>1, BoundsAssumption
<1> QED BY <1>2 DEF Inv, Typed, HandlerOK, HeldOK

\* A step of one handler keeps the invariant if it keeps that handler's part.
LEMMA OneHandler ==
  ASSUME Inv, Typed', NEW s \in Handlers, Alone(s),
         HandlerOK(session'[s], writing'[s], touched'[s], fetched'[s], store', version')
  PROVE  Inv'
<1>1. ASSUME NEW r \in Handlers \ {s}
      PROVE  HandlerOK(session'[r], writing'[r], touched'[r], fetched'[r], store', version')
  <2> DEFINE x == session[r]
             w == writing[r]
             t == touched[r]
             g == fetched[r]
  <2>1. /\ x \in Sessions(Copies) /\ g \in Seq(Nat) /\ Len(g) = Len(x.objs)
        /\ version \in [Docs -> Nat] /\ HandlerOK(x, w, t, g, store, version)
    BY OfHandler
  <2>2. version' \in [Docs -> Nat]
    <3>1. version' \in [Docs -> 0..MaxVersion]
      BY DEF Typed
    <3> QED BY <3>1, BoundsAssumption
  <2>3. \A d \in Docs : \/ store'[d] = store[d] /\ version'[d] = version[d]
                        \/ version'[d] > version[d]
    BY DEF Alone
  <2>4. session'[r] = x /\ writing'[r] = w /\ touched'[r] = t /\ fetched'[r] = g
    BY DEF Alone
  <2> HIDE DEF x, w, t, g
  <2>5. MatchOK(x, t, g, store, version) /\ HeldOK(x, w, t, g) /\ NoticedOK(x, w, t)
    BY <2>1 DEF HandlerOK
  <2>6. MatchOK(x, t, g, store', version')
    BY <2>1, <2>2, <2>3, <2>5, OthersMatch
  <2> QED BY <2>4, <2>5, <2>6 DEF HandlerOK
<1> QED BY <1>1 DEF Inv

\* A query adds an object that matches the document.
LEMMA QueryStep == ASSUME Inv, NEW s \in Handlers, NEW d \in Docs, Query(s, d) PROVE Inv'
<1> DEFINE x == session[s]
           y == Fetch(x, d, store[d])
           h == Append(fetched[s], version[d])
<1>1. /\ session' = [session EXCEPT ![s] = y] /\ fetched' = [fetched EXCEPT ![s] = h]
      /\ store' = store /\ version' = version /\ touched' = touched /\ writing' = writing
      /\ writing[s] = <<>> /\ store[d] # Absent
  BY DEF Query, Running
<1>2. /\ x \in Sessions(Copies) /\ fetched[s] \in Seq(Nat) /\ version \in [Docs -> Nat]
      /\ HandlerOK(x, writing[s], touched[s], fetched[s], store, version)
  BY OfHandler
<1>3. store[d] \in Attributes
  BY <1>1 DEF Inv, Typed
<1>4. y \in Sessions(Copies) /\ h \in Seq(Nat) /\ HandlerOK(y, writing[s], touched[s], h, store, version)
  <2>1. DOMAIN writing[s] = {}
    BY <1>1
  <2> HIDE DEF x
  <2> QED BY <1>2, <1>3, <2>1, QueryKeeps
<1> HIDE DEF x, y, h
<1>5. session'[s] = y /\ fetched'[s] = h
  BY <1>1 DEF Inv, Typed
<1>6. Typed'
  BY <1>1, <1>4 DEF Inv, Typed
<1>7. Alone(s)
  BY <1>1 DEF Alone, Inv, Typed
<1>8. HandlerOK(session'[s], writing'[s], touched'[s], fetched'[s], store', version')
  BY <1>1, <1>4, <1>5
<1> QED BY <1>6, <1>7, <1>8, OneHandler

\* A value of every attribute.
LEMMA BlankType == Blank \in Attributes
BY ValuesAssumption DEF Blank, Attributes

\* The constructor and add() of a new object.
LEMMA CreateStep == ASSUME Inv, NEW s \in Handlers, NEW d \in Docs, Create(s, d) PROVE Inv'
<1> DEFINE x == session[s]
           y == AddNew(x, d, Blank)
           h == Append(fetched[s], 0)
           u == touched[s] \cup {<<Newest(x) + 1, f>> : f \in Fields}
<1>1. /\ session' = [session EXCEPT ![s] = y] /\ fetched' = [fetched EXCEPT ![s] = h]
      /\ touched' = [touched EXCEPT ![s] = u]
      /\ store' = store /\ version' = version /\ writing' = writing
      /\ writing[s] = <<>>
  BY DEF Create, Running
<1>2. /\ x \in Sessions(Copies) /\ fetched[s] \in Seq(Nat) /\ version \in [Docs -> Nat]
      /\ HandlerOK(x, writing[s], touched[s], fetched[s], store, version)
  BY OfHandler
<1>3. y \in Sessions(Copies) /\ h \in Seq(Nat) /\ HandlerOK(y, writing[s], u, h, store, version)
  <2>1. DOMAIN writing[s] = {}
    BY <1>1
  <2> HIDE DEF x
  <2> QED BY <1>2, <2>1, BlankType, CreateKeeps
<1>4. u \in SUBSET (Nat \X Fields)
  <2>1. touched[s] \in SUBSET (Nat \X Fields) /\ Newest(x) + 1 \in Nat
    <3>1. x.objs \in Seq(Copies)
      BY <1>2, Held
    <3> QED BY <3>1, OfHandler DEF Newest
  <2> HIDE DEF x
  <2> QED BY <2>1
<1> HIDE DEF x, y, h, u
<1>5. session'[s] = y /\ fetched'[s] = h /\ touched'[s] = u
  BY <1>1 DEF Inv, Typed
<1>6. Typed'
  BY <1>1, <1>3, <1>4 DEF Inv, Typed
<1>7. Alone(s)
  BY <1>1 DEF Alone, Inv, Typed
<1>8. HandlerOK(session'[s], writing'[s], touched'[s], fetched'[s], store', version')
  BY <1>1, <1>3, <1>5
<1> QED BY <1>6, <1>7, <1>8, OneHandler

\* Object n gets a value, and the attributes T are noted as assigned.
LEMMA AssignStep ==
  ASSUME Inv, NEW s \in Handlers, Running(s), NEW n \in Objects(s), NEW val \in Attributes,
         NEW T \in SUBSET ({n} \X Fields),
         \A f \in Fields : <<n, f>> \notin T => val[f] = ValOf(session[s], n)[f],
         session' = [session EXCEPT ![s] = Assign(session[s], n, val)],
         touched' = [touched EXCEPT ![s] = touched[s] \cup T],
         UNCHANGED <<store, writing, version, fetched>>
  PROVE  Inv'
<1> DEFINE x == session[s]
           y == Assign(x, n, val)
           u == touched[s] \cup T
<1>1. /\ session' = [session EXCEPT ![s] = y] /\ touched' = [touched EXCEPT ![s] = u]
      /\ store' = store /\ version' = version /\ writing' = writing /\ fetched' = fetched
      /\ writing[s] = <<>>
  BY DEF Running
<1>2. /\ x \in Sessions(Copies) /\ fetched[s] \in Seq(Nat) /\ version \in [Docs -> Nat]
      /\ HandlerOK(x, writing[s], touched[s], fetched[s], store, version)
  BY OfHandler
<1>3. y \in Sessions(Copies) /\ HandlerOK(y, writing[s], u, fetched[s], store, version)
  <2>1. DOMAIN writing[s] = {}
    BY <1>1
  <2>2. n \in DOMAIN x.objs /\ \A f \in Fields : <<n, f>> \notin T => val[f] = x.objs[n].val[f]
    BY DEF Objects, ValOf
  <2> HIDE DEF x
  <2> QED BY <1>2, <2>1, <2>2, AssignKeeps
<1>4. u \in SUBSET (Nat \X Fields)
  <2>1. n \in Nat
    <3>1. x.objs \in Seq(Copies)
      BY <1>2, Held
    <3> QED BY <3>1 DEF Objects
  <2> QED BY <2>1, OfHandler
<1> HIDE DEF x, y, u
<1>5. session'[s] = y /\ touched'[s] = u
  BY <1>1 DEF Inv, Typed
<1>6. Typed'
  BY <1>1, <1>3, <1>4 DEF Inv, Typed
<1>7. Alone(s)
  BY <1>1 DEF Alone, Inv, Typed
<1>8. HandlerOK(session'[s], writing'[s], touched'[s], fetched'[s], store', version')
  BY <1>1, <1>3, <1>5
<1> QED BY <1>6, <1>7, <1>8, OneHandler

\* One attribute is assigned.
LEMMA SetAttributeStep ==
  ASSUME Inv, NEW s \in Handlers, NEW n \in Objects(s), NEW f \in Fields, NEW v \in Values,
         SetAttribute(s, n, f, v)
  PROVE  Inv'
<1> DEFINE val == [ValOf(session[s], n) EXCEPT ![f] = v]
           T == {<<n, f>>}
<1>1. ValOf(session[s], n) \in Attributes
  BY OfHandler, Held DEF Objects, ValOf, Copies
<1>2. val \in Attributes /\ \A e \in Fields : e # f => val[e] = ValOf(session[s], n)[e]
  BY <1>1 DEF Attributes
<1>3. T \in SUBSET ({n} \X Fields) /\ \A e \in Fields : <<n, e>> \notin T => e # f
  OBVIOUS
<1>4. /\ Running(s) /\ session' = [session EXCEPT ![s] = Assign(session[s], n, val)]
      /\ touched' = [touched EXCEPT ![s] = touched[s] \cup T]
      /\ UNCHANGED <<store, writing, version, fetched>>
  BY DEF SetAttribute
<1> HIDE DEF val, T
<1>5. \A e \in Fields : <<n, e>> \notin T => val[e] = ValOf(session[s], n)[e]
  BY <1>2, <1>3
<1> QED BY <1>2, <1>3, <1>4, <1>5, AssignStep

\* refresh() assigns all the attributes.
LEMMA RefreshStep ==
  ASSUME Inv, NEW s \in Handlers, NEW n \in Objects(s), Refresh(s, n)
  PROVE  Inv'
<1> DEFINE d == IdOf(session[s], n)
           T == {<<n, f>> : f \in Fields}
<1>1. d \in Docs
  BY OfHandler, Held DEF Objects, IdOf, Copies
<1>2. store[d] \in Attributes
  BY <1>1 DEF Refresh, Inv, Typed
<1>3. T \in SUBSET ({n} \X Fields) /\ \A e \in Fields : <<n, e>> \in T
  OBVIOUS
<1>4. /\ Running(s) /\ session' = [session EXCEPT ![s] = Assign(session[s], n, store[d])]
      /\ touched' = [touched EXCEPT ![s] = touched[s] \cup T]
      /\ UNCHANGED <<store, writing, version, fetched>>
  BY DEF Refresh
<1> HIDE DEF d, T
<1> QED BY <1>2, <1>3, <1>4, AssignStep

\* add() of an object changes only what is pending.
LEMMA AddStep ==
  ASSUME Inv, NEW s \in Handlers, NEW n \in Objects(s), Add(s, n)
  PROVE  Inv'
<1> DEFINE x == session[s]
           y == AddObject(x, n)
<1>1. /\ session' = [session EXCEPT ![s] = y] /\ touched' = touched
      /\ store' = store /\ version' = version /\ writing' = writing /\ fetched' = fetched
      /\ writing[s] = <<>>
  BY DEF Add, Running
<1>2. /\ x \in Sessions(Copies)
      /\ HandlerOK(x, writing[s], touched[s], fetched[s], store, version)
  BY OfHandler
<1>3. y \in Sessions(Copies) /\ HandlerOK(y, writing[s], touched[s], fetched[s], store, version)
  <2>1. DOMAIN writing[s] = {} /\ n \in DOMAIN x.objs
    BY <1>1 DEF Objects
  <2> HIDE DEF x
  <2> QED BY <1>2, <2>1, AddKeeps
<1> HIDE DEF x, y
<1>4. session'[s] = y
  BY <1>1 DEF Inv, Typed
<1>5. Typed'
  BY <1>1, <1>3 DEF Inv, Typed
<1>6. Alone(s)
  BY <1>1 DEF Alone, Inv, Typed
<1>7. HandlerOK(session'[s], writing'[s], touched'[s], fetched'[s], store', version')
  BY <1>1, <1>3, <1>4
<1> QED BY <1>5, <1>6, <1>7, OneHandler

\* delete() makes a new version and leaves the session as it is.
LEMMA DeleteStep ==
  ASSUME Inv, NEW s \in Handlers, NEW n \in Objects(s), DeleteNow(s, n)
  PROVE  Inv'
<1> DEFINE d == IdOf(session[s], n)
<1>1. d \in Docs
  BY OfHandler, Held DEF Objects, IdOf, Copies
<1>2. /\ store' = [store EXCEPT ![d] = Absent] /\ version' = [version EXCEPT ![d] = version[d] + 1]
      /\ version[d] < MaxVersion
      /\ session' = session /\ writing' = writing /\ touched' = touched /\ fetched' = fetched
  BY DEF DeleteNow
<1> HIDE DEF d
<1>3. store \in [Docs -> Attributes \cup {Absent}] /\ version \in [Docs -> 0..MaxVersion]
  BY DEF Inv, Typed
<1>4. store' \in [Docs -> Attributes \cup {Absent}] /\ version' \in [Docs -> 0..MaxVersion]
  <2>1. version[d] + 1 \in 0..MaxVersion
    BY <1>1, <1>2, <1>3, BoundsAssumption
  <2> QED BY <1>1, <1>2, <1>3, <2>1
<1>5. \A e \in Docs : \/ store'[e] = store[e] /\ version'[e] = version[e]
                      \/ version'[e] > version[e]
  <2>1. \A e \in Docs : version[e] \in Nat
    BY <1>3, BoundsAssumption
  <2> QED BY <1>1, <1>2, <1>3, <2>1
<1>6. Typed'
  BY <1>2, <1>4 DEF Inv, Typed
<1>7. Alone(s)
  BY <1>2, <1>5 DEF Alone
<1>8. HandlerOK(session'[s], writing'[s], touched'[s], fetched'[s], store', version')
  <2>1. version' \in [Docs -> Nat]
    BY <1>4, BoundsAssumption
  <2>2. MatchOK(session[s], touched[s], fetched[s], store', version')
    BY <1>5, <2>1, OfHandler, OthersMatch DEF HandlerOK
  <2> QED BY <1>2, <2>2, OfHandler DEF HandlerOK
<1> QED BY <1>6, <1>7, <1>8, OneHandler

\* What a commit in one transaction and a single write of the fallback share.
LEMMA StoreStep ==
  ASSUME Inv, NEW s \in Handlers,
         NEW list \in Seq(Nat), \A i \in DOMAIN list : list[i] \in Objects(s),
         store' = Replaced(s, list), Recorded(s, list),
         NEW x \in Sessions(Copies), session' = [session EXCEPT ![s] = x],
         NEW w \in Seq(Nat), writing' = [writing EXCEPT ![s] = w],
         x.objs = session[s].objs, NoticedOK(x, w, touched[s]),
         \A i \in DOMAIN w : w[i] \in Objects(s),
         touched' = touched
  PROVE  Inv'
<1>1. WriteEffect(s, list)
  BY OfHandler, WriteMatches DEF Inv
<1>2. session'[s] = x /\ writing'[s] = w
  BY DEF Inv, Typed
<1>3. Typed'
  <2>1. session' \in [Handlers -> Sessions(Copies)]
    BY DEF Inv, Typed
  <2>2. writing' \in [Handlers -> Seq(Nat)]
    BY DEF Inv, Typed
  <2> QED BY <1>1, <2>1, <2>2 DEF WriteEffect, Inv, Typed
<1>4. Alone(s)
  <2>1. \A r \in Handlers \ {s} : session'[r] = session[r] /\ writing'[r] = writing[r]
    BY DEF Inv, Typed
  <2> QED BY <1>1, <2>1 DEF WriteEffect, Alone
<1>5. HandlerOK(session'[s], writing'[s], touched'[s], fetched'[s], store', version')
  <2>1. MatchOK(session[s], touched[s], fetched'[s], store', version')
    BY <1>1 DEF WriteEffect
  <2>2. MatchOK(x, touched[s], fetched'[s], store', version')
    BY <2>1 DEF MatchOK, NotAssigned
  <2>3. touched[s] \subseteq (DOMAIN session[s].objs) \X Fields
    BY OfHandler DEF HandlerOK, HeldOK
  <2>4. HeldOK(x, w, touched[s], fetched'[s])
    BY <1>1, <2>3 DEF HeldOK, WriteEffect, Objects
  <2> QED BY <1>2, <2>2, <2>4 DEF HandlerOK
<1> QED BY <1>3, <1>4, <1>5, OneHandler

\* A commit that succeeds as a transaction.
LEMMA TransactionStep == ASSUME Inv, NEW s \in Handlers, CommitTransaction(s) PROVE Inv'
<1> DEFINE x == session[s]
           y == Committed(x)
           list == Writes(x)
           none == <<>>
<1>1. /\ store' = Replaced(s, list) /\ Recorded(s, list)
      /\ session' = [session EXCEPT ![s] = y] /\ writing' = writing /\ touched' = touched
      /\ writing[s] = none
  BY DEF CommitTransaction, Running
<1>2. x \in Sessions(Copies) /\ NoticedOK(x, none, touched[s])
  BY <1>1, OfHandler DEF HandlerOK
<1>3. /\ list \in Seq(Nat) /\ \A i \in DOMAIN list : list[i] \in Objects(s)
      /\ y \in Sessions(Copies) /\ y.objs = x.objs /\ DOMAIN y.tracked = {}
  <2>1. /\ list \in Seq(Nat) /\ \A i \in DOMAIN list : list[i] \in DOMAIN x.objs
        /\ y \in Sessions(Copies) /\ y.objs = x.objs /\ DOMAIN y.tracked = {}
    <3> HIDE DEF x
    <3> QED BY <1>2, CommitFacts
  <2> QED BY <2>1 DEF Objects
<1>4. NoticedOK(y, none, touched[s])
  <2> HIDE DEF x, y
  <2> QED BY <1>3 DEF NoticedOK
<1>5. none \in Seq(Nat) /\ DOMAIN none = {}
  OBVIOUS
<1>6. writing' = [writing EXCEPT ![s] = none]
  BY <1>1 DEF Inv, Typed
<1>7. y.objs = session[s].objs
  BY <1>3
<1> HIDE DEF x, y, list, none
<1> QED BY <1>1, <1>3, <1>4, <1>5, <1>6, <1>7, StoreStep

\* A commit that begins to store documents one by one.
LEMMA FallbackStep == ASSUME Inv, NEW s \in Handlers, CommitFallback(s) PROVE Inv'
<1> DEFINE x == session[s]
           list == Writes(x)
<1>1. /\ writing' = [writing EXCEPT ![s] = list] /\ writing[s] = <<>>
      /\ store' = store /\ version' = version /\ session' = session /\ touched' = touched
      /\ fetched' = fetched
  BY DEF CommitFallback, Running
<1>2. x \in Sessions(Copies) /\ NoticedOK(x, <<>>, touched[s])
  BY <1>1, OfHandler DEF HandlerOK
<1>3. list \in Seq(Nat) /\ \A i \in DOMAIN list : list[i] \in DOMAIN x.objs /\ Changed(x, touched[s], list[i])
  <2> HIDE DEF x
  <2> QED BY <1>2, CommitFacts
<1> HIDE DEF list
<1>4. writing'[s] = list
  BY <1>1 DEF Inv, Typed
<1>5. Typed'
  BY <1>1, <1>3 DEF Inv, Typed
<1>6. Alone(s)
  BY <1>1 DEF Alone, Inv, Typed
<1>7. HandlerOK(session'[s], writing'[s], touched'[s], fetched'[s], store', version')
  <2>1. HandlerOK(x, writing[s], touched[s], fetched[s], store, version)
    BY OfHandler
  <2>2. HeldOK(x, list, touched[s], fetched[s])
    BY <2>1, <1>3 DEF HandlerOK, HeldOK
  <2>3. NoticedOK(x, list, touched[s])
    BY <1>2, <1>3 DEF NoticedOK
  <2> QED BY <1>1, <1>4, <2>1, <2>2, <2>3 DEF HandlerOK
<1> QED BY <1>5, <1>6, <1>7, OneHandler

\* One write of such a commit; the last one ends it.
LEMMA WriteNextStep == ASSUME Inv, NEW s \in Handlers, WriteNext(s) PROVE Inv'
<1> DEFINE x == session[s]
           w == writing[s]
           v == Tail(w)
           list == <<Head(w)>>
           y == IF Len(w) = 1 THEN Committed(x) ELSE x
<1>1. /\ store' = Replaced(s, list) /\ Recorded(s, list) /\ touched' = touched
      /\ writing' = [writing EXCEPT ![s] = v] /\ w # <<>>
      /\ session' = [session EXCEPT ![s] = y]
  BY DEF WriteNext, Running, Inv, Typed
<1>2. x \in Sessions(Copies) /\ w \in Seq(Nat) /\ NoticedOK(x, w, touched[s])
      /\ \A i \in DOMAIN w : w[i] \in Objects(s)
  BY OfHandler DEF HandlerOK, HeldOK, Objects
<1> HIDE DEF x, w
<1>3. /\ v \in Seq(Nat) /\ \A i \in DOMAIN v : i + 1 \in DOMAIN w /\ v[i] = w[i + 1]
      /\ list \in Seq(Nat) /\ 1 \in DOMAIN w /\ \A i \in DOMAIN list : list[i] = w[1]
  BY <1>1, <1>2
<1>4. y \in Sessions(Copies) /\ y.objs = x.objs
  BY <1>2, CommittedType
<1>5. NoticedOK(y, v, touched[s])
  <2>1. CASE Len(w) = 1
    <3>1. DOMAIN v = {}
      <4>1. DOMAIN w = 1..1
        BY <2>1, <1>2
      <4> HIDE DEF v
      <4>2. \A i \in DOMAIN v : i \in Nat /\ i > 0
        BY <1>3
      <4> QED BY <4>1, <4>2, <1>3
    <3>2. NoticedOK(x, <<>>, touched[s])
      BY <1>2 DEF NoticedOK
    <3>3. DOMAIN Committed(x).tracked = {}
      BY <1>2, <3>2, CommitFacts
    <3> HIDE DEF v
    <3> QED BY <2>1, <3>1, <3>3 DEF NoticedOK
  <2>2. CASE Len(w) # 1
    BY <2>2, <1>2, <1>3 DEF NoticedOK
  <2> QED BY <2>1, <2>2
<1>6. /\ \A i \in DOMAIN v : v[i] \in Objects(s)
      /\ \A i \in DOMAIN list : list[i] \in Objects(s)
  BY <1>2, <1>3
<1>7. y.objs = session[s].objs
  BY <1>4 DEF x
<1> HIDE DEF v, list, y
<1> QED BY <1>1, <1>3, <1>4, <1>5, <1>6, <1>7, StoreStep

\* Nobody holds anything yet.
LEMMA InitOK == ASSUME Init PROVE Inv
<1> DEFINE none == <<>>
<1>1. /\ NoSession \in Sessions(Copies)
      /\ DOMAIN NoSession.objs = {} /\ DOMAIN NoSession.tracked = {} /\ Len(NoSession.objs) = 0
  BY NoSessionType DEF NoSession
<1>2. none \in Seq(Nat) /\ DOMAIN none = {} /\ Len(none) = 0
  OBVIOUS
<1>3. /\ store \in [Docs -> {Absent, Blank}] /\ version = [d \in Docs |-> 0]
      /\ session = [s \in Handlers |-> NoSession] /\ writing = [s \in Handlers |-> none]
      /\ touched = [s \in Handlers |-> {}] /\ fetched = [s \in Handlers |-> none]
  BY DEF Init
<1> HIDE DEF none
<1>4. Typed
  <2>1. 0 \in 0..MaxVersion
    BY BoundsAssumption
  <2>2. store \in [Docs -> Attributes \cup {Absent}]
    BY <1>3, BlankType
  <2> QED BY <1>1, <1>2, <1>3, <2>1, <2>2 DEF Typed
<1>5. ASSUME NEW s \in Handlers
      PROVE  HandlerOK(session[s], writing[s], touched[s], fetched[s], store, version)
  <2>1. session[s] = NoSession /\ writing[s] = none /\ touched[s] = {} /\ fetched[s] = none
    BY <1>3
  <2>2. HeldOK(NoSession, none, {}, none) /\ NoticedOK(NoSession, none, {})
    BY <1>1, <1>2 DEF HeldOK, NoticedOK
  <2>3. MatchOK(NoSession, {}, none, store, version)
    BY <1>1 DEF MatchOK
  <2> QED BY <2>1, <2>2, <2>3 DEF HandlerOK
<1> QED BY <1>4, <1>5 DEF Inv

\* Every step keeps the invariant.
LEMMA NextOK == Inv /\ [Next]_vars => Inv'
<1> SUFFICES ASSUME Inv, [Next]_vars PROVE Inv'
  OBVIOUS
<1>1. CASE UNCHANGED vars
  BY <1>1 DEF vars, Inv, Typed
<1>2. CASE Next
  <2>1. PICK s \in Handlers :
          \/ \E d \in Docs : Query(s, d) \/ Create(s, d)
          \/ \E n \in Objects(s) :
               \/ \E f \in Fields, v \in Values : SetAttribute(s, n, f, v)
               \/ Add(s, n)
               \/ Refresh(s, n)
               \/ DeleteNow(s, n)
          \/ CommitTransaction(s)
          \/ CommitFallback(s)
          \/ WriteNext(s)
    BY <1>2 DEF Next
  <2>2. CASE \E d \in Docs : Query(s, d) \/ Create(s, d)
    BY <2>2, QueryStep, CreateStep
  <2>3. CASE \E n \in Objects(s) : \E f \in Fields, v \in Values : SetAttribute(s, n, f, v)
    BY <2>3, SetAttributeStep
  <2>4. CASE \E n \in Objects(s) : Add(s, n) \/ Refresh(s, n) \/ DeleteNow(s, n)
    BY <2>4, AddStep, RefreshStep, DeleteStep
  <2>5. CASE CommitTransaction(s) \/ CommitFallback(s) \/ WriteNext(s)
    BY <2>5, TransactionStep, FallbackStep, WriteNextStep
  <2> QED BY <2>1, <2>2, <2>3, <2>4, <2>5
<1> QED BY <1>1, <1>2

\* The invariant holds in every reachable state.
THEOREM Invariance == Spec => []Inv
BY InitOK, NextOK, PTL DEF Spec

\* Every reachable state is well typed; in particular a commit only stores
\* objects its handler holds.
THEOREM TypeCorrect == Spec => []TypeOK
<1>1. ASSUME Inv PROVE TypeOK
  <2>1. ASSUME NEW s \in Handlers
        PROVE  /\ \A n \in Objects(s) : session[s].objs[n] \in [id : Docs, val : Attributes]
               /\ Range(session[s].pending) \cup Range(writing[s]) \subseteq Objects(s)
               /\ \A i \in DOMAIN session[s].tracked : session[s].tracked[i].obj \in Objects(s)
               /\ touched[s] \subseteq Objects(s) \X Fields
               /\ DOMAIN fetched[s] = Objects(s)
    <3> DEFINE x == session[s]
               g == fetched[s]
    <3>1. /\ x.objs \in Seq(Copies)
          /\ \A n \in DOMAIN x.objs : x.objs[n] \in Copies
          /\ \A i \in DOMAIN x.tracked : x.tracked[i].obj \in DOMAIN x.objs
          /\ \A i \in DOMAIN x.pending : x.pending[i] \in DOMAIN x.objs
      BY <1>1, OfHandler, Held
    <3>2. /\ \A i \in DOMAIN writing[s] : writing[s][i] \in DOMAIN x.objs
          /\ touched[s] \subseteq (DOMAIN x.objs) \X Fields
          /\ g \in Seq(Nat) /\ Len(g) = Len(x.objs)
      BY <1>1, OfHandler DEF HandlerOK, HeldOK
    <3>3. DOMAIN g = DOMAIN x.objs
      BY <3>1, <3>2
    <3> QED BY <3>1, <3>2, <3>3 DEF Objects, Copies, Range
  <2> QED BY <1>1, <2>1 DEF Inv, Typed, TypeOK
<1> QED BY <1>1, Invariance, PTL

\* What a step that stores documents does, whichever way the commit goes: each
\* document that changes gets the value of an object the handler holds and had
\* a reason to store.
LEMMA StoresChanged ==
  ASSUME Inv, NEW s \in Handlers, Stores(s), NEW d \in Docs, store'[d] # store[d]
  PROVE  \E n \in Objects(s) : /\ IdOf(session[s], n) = d /\ store'[d] = ValOf(session[s], n)
                               /\ Changed(session[s], touched[s], n)
<1> DEFINE x == session[s]
           w == writing[s]
<1>1. /\ x \in Sessions(Copies) /\ w \in Seq(Nat) /\ NoticedOK(x, w, touched[s])
      /\ \A i \in DOMAIN w : w[i] \in DOMAIN x.objs
      /\ HandlerOK(session[s], writing[s], touched[s], fetched[s], store, version)
  BY OfHandler DEF HandlerOK, HeldOK
<1>2. PICK list \in Seq(Nat) :
        /\ store' = Replaced(s, list) /\ Recorded(s, list)
        /\ \A i \in DOMAIN list : list[i] \in DOMAIN x.objs /\ Changed(x, touched[s], list[i])
  <2>1. CASE CommitTransaction(s)
    <3>1. store' = Replaced(s, Writes(x)) /\ Recorded(s, Writes(x)) /\ w = <<>>
      BY <2>1 DEF CommitTransaction, Running
    <3>2. NoticedOK(x, <<>>, touched[s])
      BY <1>1, <3>1
    <3>3. Writes(x) \in Seq(Nat)
          /\ \A i \in DOMAIN Writes(x) : Writes(x)[i] \in DOMAIN x.objs /\ Changed(x, touched[s], Writes(x)[i])
      <4> HIDE DEF x
      <4> QED BY <1>1, <3>2, CommitFacts
    <3> QED BY <3>1, <3>3
  <2>2. CASE WriteNext(s)
    <3> DEFINE next == <<Head(w)>>
    <3>1. store' = Replaced(s, next) /\ Recorded(s, next) /\ w # <<>>
      BY <2>2 DEF WriteNext, Running
    <3> HIDE DEF w
    <3>2. next \in Seq(Nat) /\ 1 \in DOMAIN w /\ \A i \in DOMAIN next : next[i] = w[1]
      BY <1>1, <3>1
    <3>3. Changed(x, touched[s], w[1]) /\ w[1] \in DOMAIN x.objs
      BY <1>1, <3>2 DEF NoticedOK
    <3> HIDE DEF next
    <3> QED BY <3>1, <3>2, <3>3
  <2> QED BY <2>1, <2>2 DEF Stores
<1>3. WriteEffect(s, list)
  BY <1>1, <1>2, WriteMatches DEF Objects, Inv
<1>4. PICK i \in DOMAIN list : IdOf(session[s], list[i]) = d /\ store'[d] = ValOf(session[s], list[i])
  BY <1>3 DEF WriteEffect
<1> QED BY <1>2, <1>4 DEF Objects

\* test_dirty_tracking_and_audit_forks.py, line 75: a handler never stores a
\* document it fetched and did not modify, for any handlers and documents, with
\* and without transactions.
THEOREM Unmodified == Spec => UnmodifiedNeverWritten
<1> DEFINE A == \A s \in Handlers, d \in Docs :
                  store'[d] # store[d] /\ Stores(s)
                    => \E n \in Objects(s) :
                         /\ IdOf(session[s], n) = d
                         /\ \/ n \in Range(session[s].pending)
                            \/ \E f \in Fields : <<n, f>> \in touched[s]
<1>1. Inv => A
  <2> SUFFICES ASSUME Inv, NEW s \in Handlers, NEW d \in Docs, store'[d] # store[d], Stores(s)
               PROVE  \E n \in Objects(s) :
                        /\ IdOf(session[s], n) = d
                        /\ \/ n \in Range(session[s].pending)
                           \/ \E f \in Fields : <<n, f>> \in touched[s]
    OBVIOUS
  <2>1. PICK n \in Objects(s) : IdOf(session[s], n) = d /\ Changed(session[s], touched[s], n)
    BY StoresChanged
  <2> QED BY <2>1 DEF Changed, Range
<1>2. Inv /\ [Next]_vars => [A]_vars
  BY <1>1
<1> QED BY <1>2, Invariance, PTL DEF Spec, UnmodifiedNeverWritten

\* session.py, commit: whole documents are stored, but an attribute the handler
\* never assigned changes only if somebody stored the document after the handler
\* had read it, for any handlers, documents and attributes.
THEOREM OverlapOnly == Spec => LostOnlyByOverlap
<1> DEFINE A == \A s \in Handlers, d \in Docs :
                  /\ store[d] # Absent /\ store'[d] # store[d]
                  /\ Stores(s)
                  /\ \A n \in Objects(s) : IdOf(session[s], n) = d => fetched[s][n] = version[d]
                  => \A f \in Fields :
                       store'[d][f] # store[d][f]
                         => \E n \in Objects(s) :
                              IdOf(session[s], n) = d /\ <<n, f>> \in touched[s]
<1>1. Inv => A
  <2> SUFFICES ASSUME Inv, NEW s \in Handlers, NEW d \in Docs,
                      store[d] # Absent, store'[d] # store[d], Stores(s),
                      \A n \in Objects(s) : IdOf(session[s], n) = d => fetched[s][n] = version[d],
                      NEW f \in Fields, store'[d][f] # store[d][f],
                      ~ \E n \in Objects(s) : IdOf(session[s], n) = d /\ <<n, f>> \in touched[s]
               PROVE  FALSE
    OBVIOUS
  <2> DEFINE x == session[s]
  <2>1. PICK n \in Objects(s) : IdOf(session[s], n) = d /\ store'[d] = ValOf(session[s], n)
    BY StoresChanged
  <2>2. NotAssigned(x, touched[s], d, f)
    BY DEF NotAssigned, Objects, IdOf
  <2>3. MatchOK(x, touched[s], fetched[s], store, version)
    BY OfHandler DEF HandlerOK
  <2>4. n \in DOMAIN x.objs /\ x.objs[n].id = d /\ fetched[s][n] = version[d]
    BY <2>1 DEF Objects, IdOf
  <2>5. x.objs[n].val[f] = store[d][f]
    <3> HIDE DEF x
    <3> QED BY <2>2, <2>3, <2>4 DEF MatchOK
  <2> QED BY <2>1, <2>5 DEF ValOf
<1>2. Inv /\ [Next]_vars => [A]_vars
  BY <1>1
<1> QED BY <1>2, Invariance, PTL DEF Spec, LostOnlyByOverlap

=============================================================================
