-------------------------- MODULE AuditChainProofs --------------------------
(***************************************************************************)
(* What holds of AuditChain for any number of writers, any window and any  *)
(* bounds.  The central fact is QueryFindsEnd: as long as no timestamp is  *)
(* shared by more records than the window holds, the record a query picks  *)
(* has no successor at that moment.                                        *)
(***************************************************************************)
EXTENDS AuditChain, FiniteSetTheorems, WellFoundedInduction, TLAPS

USE DEF GENESIS

-----------------------------------------------------------------------------
(* Types *)

\* Every reachable state is well typed.
THEOREM TypeCorrect == Spec => []TypeOK
<1> USE BoundsAssumption DEF Hash, Time, Draft, NoDraft, Event, Stored, Computed
<1>1. Init => TypeOK
  BY DEF Init, TypeOK
<1>2. TypeOK /\ [Next]_vars => TypeOK'
  <2> SUFFICES ASSUME TypeOK, [Next]_vars PROVE TypeOK'
    OBVIOUS
  <2> USE DEF TypeOK
  <2>1. ASSUME NEW w \in Writers, Query(w) PROVE TypeOK'
    <3>1. PICK h \in Stored \cup {GENESIS} :
            draft' = [draft EXCEPT ![w] = [prev |-> h, ts |-> 0, saw |-> Stored]]
      BY <2>1 DEF Query, ChainEnds, Newest, Unreferenced
    <3>2. h \in Hash \cup {GENESIS} /\ Stored \subseteq Hash
      BY SMTT(40), <3>1
    <3>3. draft' \in [Writers -> Draft]
      BY <3>1, <3>2
    <3> QED BY <2>1, <3>3 DEF Query
  <2>2. ASSUME NEW w \in Writers, Stamp(w) PROVE TypeOK'
    BY <2>2 DEF Stamp
  <2>3. ASSUME NEW w \in Writers, Insert(w) PROVE TypeOK'
    <3> DEFINE h == Len(history) + 1
    <3>1. /\ h \in Hash
          /\ history' \in Seq(Draft)
          /\ Len(history') = h
          /\ DOMAIN history' = DOMAIN history \cup {h}
      BY SMTT(40), <2>3 DEF Insert
    <3>2. audit' \in [Stored \cup {h} -> Event]
      BY <2>3 DEF Insert
    <3>3. draft' \in [Writers -> Draft] /\ pc' \in [Writers -> {"idle", "queried", "stamped"}]
      BY <2>3 DEF Insert
    <3> QED BY <2>3, <3>1, <3>2, <3>3 DEF Insert
  <2>4. CASE Tick
    BY <2>4 DEF Tick
  <2>5. ASSUME NEW h \in Stored, Edit(h) PROVE TypeOK'
    <3>1. PICK new \in Event : audit' = [audit EXCEPT ![h] = new]
      <4> HIDE DEF Stored, Computed, Time, Hash
      <4>1. audit[h] \in Event
        OBVIOUS
      <4>2. [audit[h] EXCEPT !.body = "edited"] \in Event
        BY <4>1
      <4>3. \A t \in Time : [audit[h] EXCEPT !.ts = t] \in Event
        BY <4>1
      <4>4. \A p \in Computed \cup {GENESIS} : [audit[h] EXCEPT !.prev = p] \in Event
        BY SMTT(40), <4>1 DEF Computed, Hash
      <4> QED BY <2>5, <4>2, <4>3, <4>4 DEF Edit
    <3>2. audit' \in [Stored -> Event]
      BY <3>1
    <3> QED BY <2>5, <3>2 DEF Edit
  <2>6. ASSUME NEW h \in Stored, EditNote(h) PROVE TypeOK'
    <3>1. [audit[h] EXCEPT !.note = "edited"] \in Event
      <4> HIDE DEF Stored, Time, Hash
      <4>1. audit[h] \in Event
        OBVIOUS
      <4> QED BY <4>1
    <3>2. audit' \in [Stored -> Event]
      BY <2>6, <3>1 DEF EditNote
    <3> QED BY <2>6, <3>2 DEF EditNote
  <2>7. ASSUME NEW h \in Stored, Delete(h) PROVE TypeOK'
    BY <2>7 DEF Delete
  <2>8. ASSUME NEW h \in Stored, Rewrite(h) PROVE TypeOK'
    <3> DEFINE g == Len(history) + 1
    <3>1. PICK p \in Computed \cup {GENESIS}, t \in Time :
            /\ audit' = [k \in (Stored \ {h}) \cup {g} |->
                           IF k = g THEN [prev |-> p, ts |-> t, body |-> "written",
                                          note |-> audit[h].note]
                           ELSE audit[k]]
            /\ history' = Append(history, [prev |-> p, ts |-> t, saw |-> {}])
      BY ZenonT(60), <2>8 DEF Rewrite
    <3>2. g \in Hash /\ p \in Hash \cup {GENESIS}
      <4>1. g <= MaxEvents
        BY ZenonT(60), <2>8 DEF Rewrite
      <4>2. Len(history) \in Nat /\ DOMAIN history = 1..Len(history) /\ Len(history) <= MaxEvents
        OBVIOUS
      <4>3. g \in Hash
        BY SMTT(40), <4>1, <4>2
      <4>4. DOMAIN history \subseteq Hash
        BY SMTT(40), <4>2
      <4> QED BY ZenonT(60), <4>3, <4>4 DEF Computed
    <3>3. [prev |-> p, ts |-> t, saw |-> {}] \in Draft
      BY <3>2
    <3>4. /\ history' \in Seq(Draft)
          /\ Len(history') = g
          /\ DOMAIN history' = DOMAIN history \cup {g}
      BY SMTT(40), <3>1, <3>3
    <3>5. audit' \in [(Stored \ {h}) \cup {g} -> Event]
      <4>1. audit[h] \in Event
        OBVIOUS
      <4>2. [prev |-> p, ts |-> t, body |-> "written", note |-> audit[h].note] \in Event
        BY <3>2, <4>1
      <4> QED BY <3>1, <4>2
    <3> QED BY <2>8, <3>2, <3>4, <3>5 DEF Rewrite
  <2>9. CASE UNCHANGED vars
    BY <2>9 DEF vars
  <2> QED BY <2>1, <2>2, <2>3, <2>4, <2>5, <2>6, <2>7, <2>8, <2>9 DEF Next
<1> QED BY <1>1, <1>2, PTL DEF Spec

-----------------------------------------------------------------------------
(* The chain without tampering *)

\* A changed or deleted record shows in the collection: it is Untouched no more.
LEMMA TamperingShows ==
  ASSUME TypeOK, NEW h \in Stored, Edit(h) \/ EditNote(h) \/ Delete(h) \/ Rewrite(h)
  PROVE  ~Untouched'
<1> SUFFICES ASSUME Untouched' PROVE FALSE
  OBVIOUS
<1> USE DEF TypeOK, Untouched, Pristine, Unaltered, Fields, Sealed
<1>1. CASE Edit(h)
  <2>1. audit \in [Stored -> Event] /\ audit[h] \in Event
    OBVIOUS
  <2> HIDE DEF TypeOK, Untouched, Unaltered
  <2>5. history' = history /\ Unaltered(h)
    BY <1>1 DEF Edit
  <2>6. (h \in Stored)' => Unaltered(h)'
    BY DEF Untouched, Pristine
  <2>2. CASE audit' = [audit EXCEPT ![h].body = "edited"]
    BY <2>1, <2>5, <2>6, <2>2 DEF Unaltered, Stored, Event
  <2>3. ASSUME NEW t \in Time \ {audit[h].ts}, audit' = [audit EXCEPT ![h].ts = t]
        PROVE  FALSE
    BY <2>1, <2>5, <2>6, <2>3 DEF Unaltered, Stored, Event
  <2>4. ASSUME NEW p \in (Computed \cup {GENESIS}) \ {audit[h].prev},
               audit' = [audit EXCEPT ![h].prev = p]
        PROVE  FALSE
    BY <2>1, <2>5, <2>6, <2>4 DEF Unaltered, Stored, Event
  <2> QED BY <1>1, <2>2, <2>3, <2>4 DEF Edit
<1>2. CASE EditNote(h)
  BY ZenonT(60), <1>2 DEF EditNote, Stored, Event
<1>3. CASE Delete(h)
  BY <1>3 DEF Delete, Stored, Computed
<1>4. CASE Rewrite(h)
  <2>1. h \in Computed' /\ Stored' = (Stored \ {h}) \cup {Len(history) + 1}
    BY <1>4 DEF Rewrite, Stored, Computed
  <2>2. h # Len(history) + 1
    BY DEF Computed
  <2> QED BY <2>1, <2>2
<1> QED BY <1>1, <1>2, <1>3, <1>4

\* Once the collection differs from what log_event wrote, it does so forever:
\* appended records repair nothing.
LEMMA UntouchedBackwards ==
  ASSUME TypeOK, [Next]_vars, Untouched'
  PROVE  Untouched
<1> USE DEF TypeOK, Untouched, Pristine, Unaltered, Fields, Sealed
<1>1. ASSUME NEW w \in Writers, Query(w) PROVE Untouched
  BY <1>1 DEF Query, Stored, Computed
<1>2. ASSUME NEW w \in Writers, Stamp(w) PROVE Untouched
  BY <1>2 DEF Stamp, Stored, Computed
<1>3. ASSUME NEW w \in Writers, Insert(w) PROVE Untouched
  <2> DEFINE h == Len(history) + 1
  <2>1. /\ Stored' = Stored \cup {h}
        /\ Computed' = Computed \cup {h}
        /\ h \notin Computed
        /\ \A g \in Stored : audit'[g] = audit[g]
        /\ \A g \in Computed : history'[g] = history[g]
    BY <1>3 DEF Insert, Stored, Computed, Draft
  <2>2. Stored = Computed
    <3>1. Stored' = Computed' /\ Stored \subseteq Computed
      OBVIOUS
    <3> HIDE DEF TypeOK, Untouched, h
    <3> QED BY <2>1, <3>1
  <2>3. \A g \in Stored : Pristine(g)
    BY <2>1, <2>2
  <2> QED BY <2>2, <2>3
<1>4. CASE Tick
  BY <1>4 DEF Tick, Stored, Computed
<1>5. ASSUME NEW h \in Stored, Edit(h) \/ EditNote(h) \/ Delete(h) \/ Rewrite(h)
      PROVE  FALSE
  BY <1>5, TamperingShows
<1>6. CASE UNCHANGED vars
  BY <1>6 DEF vars, Stored, Computed
<1> QED BY <1>1, <1>2, <1>3, <1>4, <1>5, <1>6 DEF Next

-----------------------------------------------------------------------------
(* The invariant of the untouched chain *)

\* The links point back in the chain and in time.
LinksBackwards ==
  \A h \in Stored :
    /\ audit[h].ts <= now
    /\ audit[h].prev \in Stored \cup {GENESIS}
    /\ audit[h].prev \in Stored => audit[audit[h].prev].ts <= audit[h].ts

\* Some record of the latest timestamp has no successor.
IsEnd(h) == \A g \in Stored : audit[g].prev # h /\ audit[g].ts <= audit[h].ts
HasEnd == Stored # {} => \E h \in Stored : IsEnd(h)

Bursts == \A t \in Time : Cardinality({g \in Stored : audit[g].ts = t}) <= MaxBurst

\* What a writer in log_event knows: its predecessor had no successor among
\* the records its query saw.
DraftsKnow ==
  \A w \in Writers :
    LET d == draft[w]
    IN  pc[w] # "idle" =>
          /\ d.saw \subseteq Stored
          /\ d.prev \in d.saw \cup {GENESIS}
          /\ \A g \in d.saw : audit[g].prev # d.prev
          /\ pc[w] = "stamped" =>
               d.ts <= now /\ (d.prev \in Stored => audit[d.prev].ts <= d.ts)

\* The same of a stored record, about the query that preceded it.
RecordsKnow ==
  \A h \in Stored :
    /\ history[h].saw \subseteq Stored
    /\ \A g \in history[h].saw : audit[g].prev # audit[h].prev

Rooted == \A S \in SUBSET Stored : Closed(S) => S = Stored

ChainInv ==
  /\ LinksBackwards
  /\ HasEnd
  /\ Bursts
  /\ DraftsKnow
  /\ RecordsKnow
  /\ Rooted

IInv == TypeOK /\ (Untouched => ChainInv)

\* The collection is finite and its timestamps are numbers.
LEMMA StoredFacts ==
  ASSUME TypeOK
  PROVE  /\ IsFiniteSet(Stored)
         /\ \A g \in Stored : audit[g].ts \in Nat /\ audit[g].ts \in Time
         /\ GENESIS \notin Stored
<1> USE BoundsAssumption
<1>1. Computed = 1..Len(history) /\ Len(history) \in Nat
  BY DEF TypeOK, Computed
<1>2. Stored \in SUBSET Computed
  BY DEF TypeOK
<1>3. IsFiniteSet(Stored)
  <2>1. IsFiniteSet(Computed)
    BY <1>1, FS_Interval
  <2> QED BY <1>2, <2>1, FS_Subset
<1>4. \A g \in Stored : audit[g].ts \in Time
  BY DEF TypeOK, Event
<1> QED BY <1>1, <1>2, <1>3, <1>4 DEF Time

\* A query of an untouched chain picks a record without a successor, or
\* GENESIS when there is none: this is where MaxBurst <= Window is needed.
LEMMA QueryFindsEnd ==
  ASSUME TypeOK, LinksBackwards, HasEnd, Bursts,
         NEW W \in SUBSET Stored, IsLatest(W),
         NEW h \in ChainEnds(W)
  PROVE  /\ h \in Stored \cup {GENESIS}
         /\ \A g \in Stored : audit[g].prev # h
<1> USE BoundsAssumption
<1>1. /\ IsFiniteSet(Stored)
      /\ \A g \in Stored : audit[g].ts \in Nat /\ audit[g].ts \in Time
      /\ GENESIS \notin Stored
  BY StoredFacts
<1>2. CASE Stored = {}
  BY <1>2 DEF ChainEnds
<1>3. CASE Stored # {}
  <2>1. PICK end \in Stored : IsEnd(end)
    BY <1>3 DEF HasEnd
  <2>2. ASSUME NEW g \in Stored, audit[g].ts = audit[end].ts
        PROVE  g \in W
    <3> SUFFICES ASSUME g \notin W PROVE FALSE
      OBVIOUS
    <3> DEFINE Tied == {k \in Stored : audit[k].ts = audit[end].ts}
    <3>1. Cardinality(W) = Window
      BY DEF IsLatest
    <3>2. W \cup {g} \subseteq Tied
      BY <1>1, <2>1, <2>2 DEF IsLatest, IsEnd
    <3>3. IsFiniteSet(W) /\ IsFiniteSet(Tied)
      BY <1>1, FS_Subset
    <3>4. Cardinality(W \cup {g}) = Window + 1
      BY <3>1, <3>3, FS_AddElement
    <3>5. Cardinality(W \cup {g}) <= Cardinality(Tied)
      <4> HIDE DEF Tied
      <4> QED BY <3>2, <3>3, FS_Subset
    <3>6. Cardinality(Tied) <= MaxBurst /\ Cardinality(Tied) \in Nat
      BY <1>1, <3>3, FS_CardinalityType DEF Bursts
    <3> QED BY <3>4, <3>5, <3>6
  <2>3. end \in Unreferenced(W)
    BY <2>1, <2>2 DEF Unreferenced, IsEnd
  <2>4. h \in Newest(Unreferenced(W))
    BY <2>3 DEF ChainEnds, Unreferenced
  <2>5. h \in Unreferenced(W) /\ audit[end].ts <= audit[h].ts
    BY <2>3, <2>4 DEF Newest
  <2>6. h \in Stored /\ audit[h].ts = audit[end].ts
    BY <1>1, <2>1, <2>5 DEF Unreferenced, IsEnd
  <2>7. ASSUME NEW g \in Stored, audit[g].prev = h PROVE FALSE
    <3>1. audit[g].ts = audit[end].ts
      BY <1>1, <2>1, <2>6, <2>7 DEF LinksBackwards, IsEnd
    <3> QED BY <2>2, <2>5, <2>7, <3>1 DEF Unreferenced
  <2> QED BY <2>6, <2>7
<1> QED BY <1>2, <1>3

\* The insertion of a record keeps the invariant of the untouched chain.
LEMMA InsertStep ==
  ASSUME TypeOK, TypeOK', Untouched, Untouched', ChainInv,
         NEW w \in Writers, Insert(w)
  PROVE  ChainInv'
<1> USE BoundsAssumption
<1> DEFINE x == Len(history) + 1
           d == draft[w]
<1>1. /\ Stored' = Stored \cup {x}
      /\ x \notin Stored /\ x # GENESIS
      /\ audit'[x].prev = d.prev /\ audit'[x].ts = d.ts
      /\ \A g \in Stored : audit'[g] = audit[g]
      /\ history'[x] = d
      /\ \A g \in Stored : history'[g] = history[g]
      /\ now' = now
      /\ Cardinality({g \in Stored : audit[g].ts = d.ts}) < MaxBurst
  BY DEF Insert, Stored, Computed, Untouched, TypeOK, Draft
<1>2. /\ d.saw \subseteq Stored
      /\ d.prev \in d.saw \cup {GENESIS}
      /\ \A g \in d.saw : audit[g].prev # d.prev
      /\ d.ts <= now
      /\ d.prev \in Stored => audit[d.prev].ts <= d.ts
  BY DEF Insert, ChainInv, DraftsKnow
<1>3. /\ now \in Nat /\ d.ts \in Nat /\ d.ts \in Time
      /\ \A g \in Stored : audit[g].ts \in Nat
      /\ IsFiniteSet(Stored)
      /\ GENESIS \notin Stored
  BY StoredFacts DEF TypeOK, Draft, Time
<1> HIDE DEF x, d
<1>4. LinksBackwards'
  BY <1>1, <1>2, <1>3 DEF ChainInv, LinksBackwards
<1>5. HasEnd'
  <2>1. \A g \in Stored' : audit'[g].prev # x
    BY <1>1, <1>2 DEF ChainInv, LinksBackwards
  <2>2. CASE Stored = {}
    BY <1>1, <1>3, <2>1, <2>2 DEF HasEnd, IsEnd
  <2>3. CASE Stored # {}
    <3>1. PICK end \in Stored : IsEnd(end)
      BY <2>3 DEF ChainInv, HasEnd
    <3>2. CASE audit[end].ts <= d.ts
      BY <1>1, <1>3, <2>1, <3>1, <3>2 DEF HasEnd, IsEnd
    <3>3. CASE ~(audit[end].ts <= d.ts)
      <4>1. d.prev # end
        BY <1>2, <3>1, <3>3
      <4> QED BY <1>1, <1>3, <3>1, <3>3, <4>1 DEF HasEnd, IsEnd
    <3> QED BY <3>2, <3>3
  <2> QED BY <2>2, <2>3
<1>6. Bursts'
  <2> SUFFICES ASSUME NEW t \in Time
      PROVE  Cardinality({g \in Stored' : audit'[g].ts = t}) <= MaxBurst
    BY DEF Bursts, Time
  <2> DEFINE Tied == {g \in Stored : audit[g].ts = t}
  <2>1. IsFiniteSet(Tied) /\ Cardinality(Tied) \in Nat
    BY <1>3, FS_Subset, FS_CardinalityType
  <2>2. CASE t = d.ts
    <3>1. {g \in Stored' : audit'[g].ts = t} = Tied \cup {x}
      BY <1>1, <2>2
    <3>2. Cardinality(Tied) < MaxBurst
      BY <1>1, <2>2
    <3>3. x \notin Tied
      BY <1>1
    <3> HIDE DEF Tied
    <3>4. Cardinality(Tied \cup {x}) = Cardinality(Tied) + 1
      BY <2>1, <3>3, FS_AddElement
    <3> QED BY <2>1, <3>1, <3>2, <3>4
  <2>3. CASE t # d.ts
    <3>1. {g \in Stored' : audit'[g].ts = t} = Tied
      BY <1>1, <2>3
    <3> QED BY <3>1 DEF ChainInv, Bursts
  <2> QED BY <2>2, <2>3
<1>7. DraftsKnow'
  <2> SUFFICES ASSUME NEW v \in Writers, pc'[v] # "idle"
      PROVE  LET e == draft'[v]
             IN  /\ e.saw \subseteq Stored'
                 /\ e.prev \in e.saw \cup {GENESIS}
                 /\ \A g \in e.saw : audit'[g].prev # e.prev
                 /\ pc'[v] = "stamped" =>
                      e.ts <= now' /\ (e.prev \in Stored' => audit'[e.prev].ts <= e.ts)
    BY DEF DraftsKnow
  <2>1. v # w /\ pc'[v] = pc[v] /\ draft'[v] = draft[v]
    BY DEF Insert, TypeOK
  <2>2. draft[v].prev # x
    BY <1>1, <2>1 DEF ChainInv, DraftsKnow
  <2> QED BY <1>1, <2>1, <2>2 DEF ChainInv, DraftsKnow
<1>8. RecordsKnow'
  BY <1>1, <1>2 DEF ChainInv, RecordsKnow
<1>9. Rooted'
  <2> SUFFICES ASSUME NEW S \in SUBSET Stored', Closed(S)' PROVE S = Stored'
    BY DEF Rooted
  <2>1. \A h \in Stored : (audit[h].prev = GENESIS \/ audit[h].prev \in S) => h \in S
    BY <1>1 DEF Closed
  <2>2. \A h \in Stored : audit[h].prev # x
    BY <1>1 DEF ChainInv, LinksBackwards
  <2>3. Closed(S \cap Stored)
    BY <2>1 DEF Closed
  <2>4. Stored \subseteq S
    BY <2>3 DEF ChainInv, Rooted
  <2>5. x \in S
    BY <1>1, <1>2, <2>4 DEF Closed
  <2> QED BY <1>1, <2>4, <2>5
<1> QED BY <1>4, <1>5, <1>6, <1>7, <1>8, <1>9 DEF ChainInv

\* log_event keeps the invariant of the untouched chain.
LEMMA ChainStep ==
  ASSUME TypeOK, TypeOK', Untouched, Untouched', ChainInv, [Next]_vars
  PROVE  ChainInv'
<1> USE BoundsAssumption DEF ChainInv
<1>1. ASSUME NEW w \in Writers, Query(w) PROVE ChainInv'
  <2>0. PICK W \in SUBSET Stored :
          /\ IsLatest(W)
          /\ \E h \in ChainEnds(W) :
               draft' = [draft EXCEPT ![w] = [prev |-> h, ts |-> 0, saw |-> Stored]]
    BY <1>1 DEF Query
  <2>1. PICK h \in ChainEnds(W) :
          draft' = [draft EXCEPT ![w] = [prev |-> h, ts |-> 0, saw |-> Stored]]
    BY <2>0
  <2>2. h \in Stored \cup {GENESIS} /\ \A g \in Stored : audit[g].prev # h
    BY <2>0, <2>1, QueryFindsEnd
  <2>3. /\ audit' = audit /\ history' = history /\ now' = now
        /\ Stored' = Stored
        /\ pc' = [pc EXCEPT ![w] = "queried"]
    BY <1>1 DEF Query, Stored
  <2>4. DraftsKnow'
    <3> SUFFICES ASSUME NEW v \in Writers, pc'[v] # "idle"
        PROVE  LET d == draft'[v]
               IN  /\ d.saw \subseteq Stored
                   /\ d.prev \in d.saw \cup {GENESIS}
                   /\ \A g \in d.saw : audit[g].prev # d.prev
                   /\ pc'[v] = "stamped" =>
                        d.ts <= now /\ (d.prev \in Stored => audit[d.prev].ts <= d.ts)
      BY <2>3 DEF DraftsKnow
    <3>1. CASE v = w
      BY <2>1, <2>2, <2>3, <3>1 DEF TypeOK
    <3>2. CASE v # w
      <4>1. pc'[v] = pc[v] /\ draft'[v] = draft[v]
        BY <2>1, <2>3, <3>2 DEF TypeOK
      <4> QED BY <4>1 DEF DraftsKnow
    <3> QED BY <3>1, <3>2
  <2>5. UNCHANGED <<LinksBackwards, HasEnd, Bursts, RecordsKnow, Rooted>>
    BY <2>3 DEF LinksBackwards, HasEnd, IsEnd, Bursts, RecordsKnow, Rooted, Closed
  <2> QED BY <2>4, <2>5
<1>2. ASSUME NEW w \in Writers, Stamp(w) PROVE ChainInv'
  <2>1. /\ audit' = audit /\ history' = history /\ now' = now
        /\ Stored' = Stored
        /\ pc[w] = "queried"
        /\ pc' = [pc EXCEPT ![w] = "stamped"]
        /\ draft' = [draft EXCEPT ![w].ts = now]
    BY <1>2 DEF Stamp, Stored
  <2>2. DraftsKnow'
    <3> SUFFICES ASSUME NEW v \in Writers, pc'[v] # "idle"
        PROVE  LET d == draft'[v]
               IN  /\ d.saw \subseteq Stored
                   /\ d.prev \in d.saw \cup {GENESIS}
                   /\ \A g \in d.saw : audit[g].prev # d.prev
                   /\ pc'[v] = "stamped" =>
                        d.ts <= now /\ (d.prev \in Stored => audit[d.prev].ts <= d.ts)
      BY <2>1 DEF DraftsKnow
    <3>1. CASE v = w
      <4>1. /\ draft'[v].saw = draft[v].saw
            /\ draft'[v].prev = draft[v].prev
            /\ draft'[v].ts = now
        BY <2>1, <3>1 DEF TypeOK, Draft
      <4>2. now \in Nat /\ \A g \in Stored : audit[g].ts <= now
        BY DEF TypeOK, Time, LinksBackwards
      <4> QED BY <2>1, <3>1, <4>1, <4>2 DEF DraftsKnow
    <3>2. CASE v # w
      <4>1. pc'[v] = pc[v] /\ draft'[v] = draft[v]
        BY <2>1, <3>2 DEF TypeOK
      <4> QED BY <4>1 DEF DraftsKnow
    <3> QED BY <3>1, <3>2
  <2>3. UNCHANGED <<LinksBackwards, HasEnd, Bursts, RecordsKnow, Rooted>>
    BY <2>1 DEF LinksBackwards, HasEnd, IsEnd, Bursts, RecordsKnow, Rooted, Closed
  <2> QED BY <2>2, <2>3
<1>3. ASSUME NEW w \in Writers, Insert(w) PROVE ChainInv'
  BY <1>3, InsertStep
<1>4. CASE Tick
  <2>1. /\ audit' = audit /\ history' = history /\ pc' = pc /\ draft' = draft
        /\ Stored' = Stored
        /\ now' = now + 1
    BY <1>4 DEF Tick, Stored
  <2>2. LinksBackwards'
    BY <2>1 DEF LinksBackwards, TypeOK, Event, Time
  <2>3. DraftsKnow'
    BY <2>1 DEF DraftsKnow, TypeOK, Draft, Time
  <2>4. UNCHANGED <<HasEnd, Bursts, RecordsKnow, Rooted>>
    BY <2>1 DEF HasEnd, IsEnd, Bursts, RecordsKnow, Rooted, Closed
  <2> QED BY <2>2, <2>3, <2>4
<1>5. ASSUME NEW h \in Stored, Edit(h) \/ EditNote(h) \/ Delete(h) \/ Rewrite(h)
      PROVE  FALSE
  BY <1>5, TamperingShows
<1>6. CASE UNCHANGED vars
  <2>1. Stored' = Stored
    BY <1>6 DEF vars, Stored
  <2>2. UNCHANGED <<LinksBackwards, HasEnd, Bursts>>
    BY <1>6, <2>1 DEF vars, LinksBackwards, HasEnd, IsEnd, Bursts
  <2>3. UNCHANGED <<DraftsKnow, RecordsKnow, Rooted>>
    BY <1>6, <2>1 DEF vars, DraftsKnow, RecordsKnow, Rooted, Closed
  <2> QED BY <2>2, <2>3
<1> QED BY <1>1, <1>2, <1>3, <1>4, <1>5, <1>6 DEF Next

\* ChainInv holds for as long as the collection is untouched.
THEOREM Invariance == Spec => []IInv
<1>1. Init => ChainInv
  <2> SUFFICES ASSUME Init PROVE ChainInv
    OBVIOUS
  <2>1. Stored = {} /\ \A w \in Writers : pc[w] = "idle"
    BY DEF Init, Stored
  <2>2. Bursts
    <3> SUFFICES ASSUME NEW t \in Time
        PROVE  Cardinality({g \in Stored : audit[g].ts = t}) <= MaxBurst
      BY DEF Bursts
    <3>1. {g \in Stored : audit[g].ts = t} = {}
      BY <2>1
    <3>2. Cardinality({}) = 0
      BY FS_EmptySet
    <3> QED BY <3>1, <3>2, BoundsAssumption
  <2>3. LinksBackwards /\ HasEnd /\ RecordsKnow /\ Rooted
    BY <2>1 DEF LinksBackwards, HasEnd, RecordsKnow, Rooted
  <2>4. DraftsKnow
    BY <2>1 DEF DraftsKnow
  <2> QED BY <2>2, <2>3, <2>4 DEF ChainInv
<1>2. TypeOK /\ TypeOK' /\ (Untouched => ChainInv) /\ [Next]_vars => (Untouched => ChainInv)'
  BY UntouchedBackwards, ChainStep
<1> QED BY <1>1, <1>2, TypeCorrect, PTL DEF IInv, Spec

-----------------------------------------------------------------------------
(* The properties *)

\* Only calls of log_event that overlapped can fork the chain.
THEOREM OnlyOverlapsFork == Spec => []ForksOverlap
<1>1. IInv => ForksOverlap
  BY DEF IInv, ChainInv, RecordsKnow, ForksOverlap
<1> QED BY <1>1, Invariance, PTL

\* Without tampering no record is ever cut off from GENESIS.
THEOREM EverythingReachable == Spec => []NoOrphans
<1>1. IInv => NoOrphans
  BY DEF IInv, ChainInv, Rooted, NoOrphans, Orphans
<1> QED BY <1>1, Invariance, PTL

\* A record that is hashed follows one that was hashed before.
HashedInOrder ==
  /\ \A w \in Writers : draft[w].prev \in Computed \cup {GENESIS}
  /\ \A h \in Computed : history[h].prev < h

\* That holds whatever is done to the collection, because whoever looks for
\* the end of the chain finds a record.
LEMMA OrderOfHashes == Spec => []HashedInOrder
<1>1. Init => HashedInOrder
  BY DEF Init, HashedInOrder, NoDraft, Computed
<1>2. TypeOK /\ HashedInOrder /\ [Next]_vars => HashedInOrder'
  <2> SUFFICES ASSUME TypeOK, HashedInOrder, [Next]_vars PROVE HashedInOrder'
    OBVIOUS
  <2>1. Computed = 1..Len(history) /\ Len(history) \in Nat /\ Stored \subseteq Computed
    BY DEF TypeOK, Computed
  <2>2. ASSUME NEW w \in Writers, Query(w) PROVE HashedInOrder'
    <3>1. PICK h \in Stored \cup {GENESIS} :
            draft' = [draft EXCEPT ![w] = [prev |-> h, ts |-> 0, saw |-> Stored]]
      BY <2>2 DEF Query, ChainEnds, Newest, Unreferenced
    <3>2. UNCHANGED <<history, Computed>>
      BY <2>2 DEF Query, Computed
    <3> QED BY <2>1, <3>1, <3>2 DEF HashedInOrder, TypeOK
  <2>3. ASSUME NEW w \in Writers, Stamp(w) PROVE HashedInOrder'
    <3>1. \A v \in Writers : draft'[v].prev = draft[v].prev
      BY <2>3 DEF Stamp, TypeOK, Draft
    <3>2. UNCHANGED <<history, Computed>>
      BY <2>3 DEF Stamp, Computed
    <3> QED BY <3>1, <3>2 DEF HashedInOrder
  <2>4. ASSUME NEW x, x.prev \in Computed \cup {GENESIS}, history' = Append(history, x)
        PROVE  /\ Computed \subseteq Computed'
               /\ \A h \in Computed' : history'[h].prev < h
    <3>1. Computed' = Computed \cup {Len(history) + 1}
      BY <2>1, <2>4 DEF TypeOK, Computed
    <3>2. \A h \in Computed : history'[h] = history[h]
      BY <2>1, <2>4 DEF TypeOK
    <3>3. history'[Len(history) + 1] = x
      BY <2>1, <2>4 DEF TypeOK
    <3>4. x.prev < Len(history) + 1
      BY <2>1, <2>4
    <3> QED BY <3>1, <3>2, <3>3, <3>4 DEF HashedInOrder
  <2>5. ASSUME NEW w \in Writers, Insert(w) PROVE HashedInOrder'
    <3>1. draft[w].prev \in Computed \cup {GENESIS} /\ history' = Append(history, draft[w])
      BY <2>5 DEF Insert, HashedInOrder
    <3>2. draft' = [draft EXCEPT ![w] = NoDraft]
      BY <2>5 DEF Insert
    <3> QED BY <2>4, <3>1, <3>2 DEF HashedInOrder, NoDraft, TypeOK
  <2>6. ASSUME NEW h \in Stored, Rewrite(h) PROVE HashedInOrder'
    <3>1. PICK p \in Computed \cup {GENESIS}, t \in Time :
            history' = Append(history, [prev |-> p, ts |-> t, saw |-> {}])
      BY <2>6 DEF Rewrite
    <3>2. draft' = draft
      BY <2>6 DEF Rewrite
    <3> QED BY <2>4, <3>1, <3>2 DEF HashedInOrder
  <2>7. CASE Tick
    BY <2>7 DEF Tick, HashedInOrder, Computed
  <2>8. ASSUME NEW h \in Stored, Edit(h) \/ EditNote(h) \/ Delete(h) PROVE HashedInOrder'
    BY <2>8 DEF Edit, EditNote, Delete, HashedInOrder, Computed
  <2>9. CASE UNCHANGED vars
    BY <2>9 DEF vars, HashedInOrder, Computed
  <2> QED BY <2>2, <2>3, <2>5, <2>6, <2>7, <2>8, <2>9 DEF Next
<1> QED BY <1>1, <1>2, TypeCorrect, PTL DEF Spec

\* When verify_chain answers "intact", every stored record carries what its
\* record_hash was computed from, the records are one line from GENESIS with
\* nothing missing before any of them, and each was hashed after the one it
\* follows: whatever was edited, deleted or rewritten together with its hash.
THEOREM VerdictSound == Spec => []IntactMeansPrefix
<1>1. TypeOK /\ HashedInOrder => IntactMeansPrefix
  <2> SUFFICES ASSUME TypeOK, HashedInOrder, Verdict = "intact", Stored # {}
               PROVE  /\ \A h \in Stored :
                           /\ Fields(audit[h]) = Sealed(h)
                           /\ history[h].prev \in Stored \cup {GENESIS}
                           /\ audit[h].prev < h
                      /\ \A g, h \in Stored : history[g].prev = history[h].prev => g = h
    BY DEF IntactMeansPrefix
  <2>1. /\ ~Forked
        /\ Orphans = {}
        /\ \A h \in Stored : Fields(audit[h]) = Sealed(h)
    BY DEF Verdict, Unaltered
  <2>2. \A h \in Stored : audit[h].prev = history[h].prev
    BY <2>1 DEF Fields, Sealed
  <2>3. ASSUME NEW h \in Stored, audit[h].prev \notin Stored \cup {GENESIS}
        PROVE  FALSE
    <3>1. Closed(Stored \ {h})
      BY <2>3 DEF Closed
    <3>2. h \in Orphans
      BY <3>1 DEF Orphans
    <3> QED BY <2>1, <3>2
  <2>4. \A g, h \in Stored : history[g].prev = history[h].prev => g = h
    BY <2>1, <2>2 DEF Forked
  <2>5. \A h \in Stored : audit[h].prev < h
    BY <2>2 DEF HashedInOrder, TypeOK
  <2> QED BY <2>1, <2>2, <2>3, <2>4, <2>5
<1> QED BY <1>1, OrderOfHashes, TypeCorrect, PTL

\* One writer: every query sees everything written before it.
SeesAll ==
  Untouched =>
    /\ \A w \in Writers : pc[w] # "idle" => draft[w].saw = Stored
    /\ \A g, h \in Stored : g < h => g \in history[h].saw

\* When the calls of log_event do not overlap, verify_chain always finds the
\* untouched trail intact.
THEOREM SerialChainIntact ==
  ASSUME \A v, w \in Writers : v = w
  PROVE  Spec => []ChainIntact
<1>1. Init => SeesAll
  BY DEF Init, SeesAll, Stored
<1>2. TypeOK /\ SeesAll /\ [Next]_vars => SeesAll'
  <2> SUFFICES ASSUME TypeOK, SeesAll, [Next]_vars, Untouched'
      PROVE  /\ \A w \in Writers : pc'[w] # "idle" => draft'[w].saw = Stored'
             /\ \A g, h \in Stored' : g < h => g \in history'[h].saw
    BY DEF SeesAll
  <2>1. /\ Untouched
        /\ \A w \in Writers : pc[w] # "idle" => draft[w].saw = Stored
        /\ \A g, h \in Stored : g < h => g \in history[h].saw
    BY UntouchedBackwards DEF SeesAll
  <2>2. ASSUME NEW w \in Writers, Query(w) \/ Stamp(w)
        PROVE  /\ \A v \in Writers : pc'[v] # "idle" => draft'[v].saw = Stored'
               /\ UNCHANGED <<audit, history, Stored>>
    BY <2>1, <2>2 DEF Query, Stamp, Stored, TypeOK, Draft
  <2>3. ASSUME NEW w \in Writers, Insert(w)
        PROVE  /\ \A v \in Writers : pc'[v] = "idle"
               /\ \A g, h \in Stored' : g < h => g \in history'[h].saw
    <3> DEFINE x == Len(history) + 1
    <3>1. /\ Stored' = Stored \cup {x}
          /\ \A g \in Stored : g \in Nat /\ g < x
          /\ history'[x] = draft[w]
          /\ draft[w].saw = Stored
          /\ \A g \in Stored : history'[g] = history[g]
      BY <2>1, <2>3 DEF Insert, Stored, Computed, Untouched, TypeOK, Draft
    <3>2. \A v \in Writers : pc'[v] = "idle"
      BY <2>3 DEF Insert, TypeOK
    <3>3. x \in Nat
      BY DEF TypeOK
    <3> HIDE DEF x
    <3> QED BY <2>1, <3>1, <3>2, <3>3
  <2>4. ASSUME NEW h \in Stored, Edit(h) \/ EditNote(h) \/ Delete(h) \/ Rewrite(h)
      PROVE  FALSE
    BY <2>4, TamperingShows
  <2>5. CASE Tick \/ UNCHANGED vars
    BY <2>1, <2>5 DEF Tick, vars, Stored
  <2> QED BY <2>1, <2>2, <2>3, <2>4, <2>5 DEF Next
<1>3. TypeOK /\ IInv /\ SeesAll => ChainIntact
  <2> SUFFICES ASSUME TypeOK, ChainInv, Untouched, SeesAll PROVE Verdict = "intact"
    BY DEF IInv, ChainIntact
  <2>1. ~Forked
    <3> SUFFICES ASSUME NEW g \in Stored, NEW h \in Stored, g # h,
                        audit[g].prev = audit[h].prev
                 PROVE  FALSE
      BY DEF Forked
    <3>1. g \in Nat /\ h \in Nat
      BY DEF TypeOK, Computed
    <3>2. g < h \/ h < g
      BY <3>1
    <3> QED BY <3>2 DEF SeesAll, ChainInv, RecordsKnow
  <2>2. Orphans = {}
    BY DEF ChainInv, Rooted, Orphans
  <2>3. \A h \in Stored : Unaltered(h)
    BY DEF Untouched, Pristine
  <2> QED BY <2>1, <2>2, <2>3 DEF Verdict
<1> QED BY <1>1, <1>2, <1>3, TypeCorrect, Invariance, PTL DEF Spec

-----------------------------------------------------------------------------
(* The refinement of AuditLog by one writer *)

\* One writer and no tampering: the chain is one line of all hashes, in the
\* order of their timestamps, and whoever is in log_event will continue it.
Serial ==
  /\ Untouched
  /\ \A h \in Stored : audit[h].prev = h - 1
  /\ \A g, h \in Stored : g <= h => audit[g].ts <= audit[h].ts
  /\ \A w \in Writers :
       /\ pc[w] # "idle" => draft[w].prev = Len(history)
       /\ pc[w] = "stamped" => \A g \in Stored : audit[g].ts <= draft[w].ts

\* The hashes in the order of their computation.
Line == [i \in 1..Len(history) |-> [id |-> i, ts |-> audit[i].ts]]

\* A record in front of a sequence.
LEMMA InFront ==
  ASSUME NEW T, NEW r \in T, NEW s \in Seq(T), NEW q \in Seq(T), Len(q) = Len(s) + 1,
         q[1] = r, \A i \in 1..Len(s) : q[i + 1] = s[i]
  PROVE  <<r>> \o s = q
<1> DEFINE c == <<r>> \o s
<1>1. c \in Seq(T) /\ Len(c) = Len(s) + 1 /\ c[1] = r /\ \A i \in 1..Len(s) : c[i + 1] = s[i]
  OBVIOUS
<1> HIDE DEF c
<1>2. Len(s) \in Nat /\ DOMAIN c = 1..(Len(s) + 1) /\ DOMAIN q = 1..(Len(s) + 1)
  BY <1>1
<1>3. ASSUME NEW i \in 1..(Len(s) + 1) PROVE c[i] = q[i]
  <2>1. CASE i = 1
    BY <2>1, <1>1
  <2>2. CASE i # 1
    <3>1. i - 1 \in 1..Len(s) /\ i = (i - 1) + 1
      BY <2>2, <1>2
    <3> QED BY <3>1, <1>1
  <2> QED BY <2>1, <2>2
<1>4. c = q
  BY <1>1, <1>2, <1>3
<1> QED BY <1>4 DEF c

\* In one line the walk from GENESIS visits every record in order: by the
\* uniqueness of a function that is defined along the line.
LEMMA WalkIsLine == TypeOK /\ Serial => Walk = Line
<1> SUFFICES ASSUME TypeOK, Serial PROVE Walk = Line
  OBVIOUS
<1> DEFINE n == Len(history)
           D == Stored \cup {GENESIS}
           Rec(i) == [id |-> i, ts |-> audit[i].ts]
           Rest == [p \in D |-> [i \in 1..(n - p) |-> Rec(p + i)]]
           Follows(p) == {h \in Stored : audit[h].prev = p}
           Body(f, p) == IF Cardinality(Follows(p)) # 1 THEN <<>>
                         ELSE LET h == CHOOSE h \in Follows(p) : TRUE
                              IN  <<[id |-> h, ts |-> audit[h].ts]>> \o f[h]
<1>1. n \in Nat /\ Stored = 1..n /\ D = 0..n /\ \A h \in 1..n : audit[h].prev = h - 1
  <2>1. Stored = DOMAIN history /\ history \in Seq(Draft)
    BY DEF TypeOK, Serial, Untouched, Computed
  <2>2. n \in Nat /\ Stored = 1..n
    BY <2>1
  <2> HIDE DEF n
  <2> QED BY <2>2 DEF Serial
<1> HIDE DEF n
<1>2. \A p \in 0..n : Follows(p) = IF p < n THEN {p + 1} ELSE {}
  BY <1>1
<1>3. \A f, p : p \in 0..n => Body(f, p) = IF p < n THEN <<Rec(p + 1)>> \o f[p + 1] ELSE <<>>
  <2> SUFFICES ASSUME NEW f, NEW p \in 0..n
               PROVE  Body(f, p) = IF p < n THEN <<Rec(p + 1)>> \o f[p + 1] ELSE <<>>
    OBVIOUS
  <2>1. CASE p < n
    <3>1. Follows(p) = {p + 1} /\ Cardinality({p + 1}) = 1
      BY <2>1, <1>2, FS_Singleton
    <3>2. (CHOOSE h \in Follows(p) : TRUE) = p + 1
      BY <3>1
    <3> HIDE DEF Follows
    <3> QED BY <2>1, <3>1, <3>2
  <2>2. CASE ~(p < n)
    <3>1. Follows(p) = {} /\ Cardinality({}) = 0
      BY <2>2, <1>2, FS_EmptySet
    <3> HIDE DEF Follows
    <3> QED BY <2>2, <3>1
  <2> QED BY <2>1, <2>2
<1>4. \A p \in 0..n : Rest[p] = IF p < n THEN <<Rec(p + 1)>> \o Rest[p + 1] ELSE <<>>
  <2> SUFFICES ASSUME NEW p \in 0..n
               PROVE  Rest[p] = IF p < n THEN <<Rec(p + 1)>> \o Rest[p + 1] ELSE <<>>
    OBVIOUS
  <2>1. CASE p < n
    <3> DEFINE T == {Rec(i) : i \in 1..n}
               q == [i \in 1..(n - p) |-> Rec(p + i)]
               s == [i \in 1..(n - (p + 1)) |-> Rec(p + 1 + i)]
               r == Rec(p + 1)
               k == n - (p + 1)
    <3>1. Rest[p] = q /\ Rest[p + 1] = s
      BY <2>1, <1>1
    <3>2. k \in Nat /\ n - p = k + 1 /\ n - (p + 1) = k
      BY <2>1, <1>1
    <3>3. \A i \in 1..k : Rec(p + 1 + i) \in T /\ p + (i + 1) = p + 1 + i
      <4>1. \A i \in 1..k : p + 1 + i \in 1..n /\ p + (i + 1) = p + 1 + i
        BY <2>1, <1>1
      <4> HIDE DEF k
      <4> QED BY <4>1
    <3>4. r \in T
      BY <2>1, <1>1
    <3>5. \A i \in 1..(k + 1) : Rec(p + i) \in T
      BY <2>1, <1>1
    <3>6. q = [i \in 1..(k + 1) |-> Rec(p + i)] /\ s = [i \in 1..k |-> Rec(p + 1 + i)]
      BY <3>2
    <3>7. q[1] = r /\ \A i \in 1..k : q[i + 1] = s[i]
      <4> HIDE DEF k
      <4>1. \A i \in 1..k : i + 1 \in 1..(k + 1) /\ 1 \in 1..(k + 1)
        BY <3>2
      <4>2. \A i \in 1..k : q[i + 1] = Rec(p + (i + 1)) /\ s[i] = Rec(p + 1 + i)
        <5> HIDE DEF Rec
        <5> QED BY <3>6, <4>1
      <4>3. 1 \in 1..(k + 1)
        BY <3>2
      <4>4. q[1] = Rec(p + 1)
        <5> HIDE DEF Rec
        <5> QED BY <3>6, <4>3
      <4> QED BY <3>3, <4>2, <4>4
    <3>8. q \in Seq(T) /\ s \in Seq(T) /\ Len(q) = k + 1 /\ Len(s) = k
      <4>1. q \in [1..(k + 1) -> T] /\ s \in [1..k -> T]
        <5> HIDE DEF T, Rec, k, q, s
        <5> QED BY <3>3, <3>5, <3>6
      <4> HIDE DEF T, Rec, k, q, s
      <4> QED BY <3>2, <4>1
    <3> HIDE DEF T, q, s, r, k
    <3>9. <<r>> \o s = q
      BY <3>4, <3>7, <3>8, InFront
    <3> QED BY <2>1, <3>1, <3>9 DEF r
  <2>2. CASE ~(p < n)
    <3>1. p = n /\ 1..(n - p) = {}
      BY <2>2, <1>1
    <3>2. Rest[p] = [i \in {} |-> Rec(p + i)]
      BY <3>1, <1>1
    <3> HIDE DEF Rest, Rec
    <3> QED BY <2>2, <3>2
  <2> QED BY <2>1, <2>2
<1> HIDE DEF Body, Rec
<1>5. Rest = [p \in D |-> Body(Rest, p)]
  <2>1. \A p \in D : Rest[p] = Body(Rest, p)
    BY <1>1, <1>3, <1>4
  <2>2. Rest = [p \in D |-> Rest[p]]
    OBVIOUS
  <2> HIDE DEF Rest
  <2> QED BY <2>1, <2>2
<1>6. WalkFrom = CHOOSE f : f = [p \in D |-> Body(f, p)]
  BY DEF WalkFrom, Body
<1>7. WalkFrom = [p \in D |-> Body(WalkFrom, p)]
  <2> HIDE DEF Rest, D
  <2> QED BY <1>5, <1>6
<1> HIDE DEF Rest
<1>8. \A p \in 0..n : WalkFrom[p] = IF p < n THEN <<Rec(p + 1)>> \o WalkFrom[p + 1] ELSE <<>>
  BY <1>1, <1>3, <1>7
<1>9. \A p \in 0..n : WalkFrom[p] = Rest[p]
  <2> DEFINE Bad == {k \in Nat : \E p \in 0..n : k = n - p /\ WalkFrom[p] # Rest[p]}
  <2>1. SUFFICES Bad = {}
    <3>1. ASSUME NEW p \in 0..n, WalkFrom[p] # Rest[p] PROVE n - p \in Bad
      <4>1. n - p \in Nat
        BY <1>1
      <4> QED BY <3>1, <4>1
    <3> HIDE DEF Bad
    <3> QED BY <3>1
  <2>2. SUFFICES ASSUME Bad # {} PROVE FALSE
    OBVIOUS
  <2>3. PICK k \in Bad : \A j \in Bad : ~ (<<j, k>> \in OpToRel(<, Nat))
    <3>1. Bad \subseteq Nat
      OBVIOUS
    <3> HIDE DEF Bad
    <3> QED BY <2>2, <3>1, NatLessThanWellFounded, WFMin
  <2>4. PICK p \in 0..n : k = n - p /\ WalkFrom[p] # Rest[p]
    BY <2>3
  <2>5. p < n
    BY <2>4, <1>4, <1>8
  <2>6. p + 1 \in 0..n /\ n - (p + 1) \in Nat /\ n - (p + 1) < k /\ k \in Nat
    BY <2>4, <2>5, <1>1
  <2>7. n - (p + 1) \notin Bad
    <3> HIDE DEF Bad
    <3> QED BY <2>3, <2>6 DEF OpToRel
  <2>8. WalkFrom[p + 1] = Rest[p + 1]
    BY <2>6, <2>7
  <2> QED BY <2>4, <2>5, <2>8, <1>4, <1>8
<1>10. Rest[0] = Line
  <2>1. 0 \in D /\ n - 0 = n /\ \A i \in 1..n : 0 + i = i
    BY <1>1
  <2>2. Rest[0] = [i \in 1..n |-> Rec(i)]
    <3>1. Rest[0] = [i \in 1..n |-> Rec(0 + i)]
      BY <2>1 DEF Rest
    <3> QED BY <2>1, <3>1
  <2> QED BY <2>2 DEF Line, Rec, n
<1>11. 0 \in 0..n
  BY <1>1
<1> QED BY <1>9, <1>10, <1>11 DEF Walk

\* log_event, called by one handler at a time, keeps the chain one line.
LEMMA SerialStep ==
  ASSUME \A v, w \in Writers : v = w, Tampers = {},
         TypeOK, TypeOK', ChainInv, Serial, [Next]_vars
  PROVE  Serial'
<1> DEFINE n == Len(history)
<1>1. n \in Nat /\ Stored = 1..n /\ Computed = 1..n
  BY DEF TypeOK, Serial, Untouched, Computed
<1>2. /\ \A g \in Stored : audit[g].ts \in Nat
      /\ \A w \in Writers : draft[w].ts \in Nat
  BY StoredFacts DEF TypeOK, Draft, Time
<1>3. ASSUME UNCHANGED <<audit, history>>
      PROVE  /\ Untouched'
             /\ \A h \in Stored' : audit'[h].prev = h - 1
             /\ \A g, h \in Stored' : g <= h => audit'[g].ts <= audit'[h].ts
  BY <1>3 DEF Serial, Untouched, Stored, Computed, Pristine, Unaltered, Fields, Sealed
<1>4. ASSUME NEW w \in Writers, Query(w) PROVE Serial'
  <2>1. PICK W \in SUBSET Stored :
          /\ IsLatest(W)
          /\ \E h \in ChainEnds(W) :
               draft' = [draft EXCEPT ![w] = [prev |-> h, ts |-> 0, saw |-> Stored]]
    BY <1>4 DEF Query
  <2>2. PICK h \in ChainEnds(W) :
          draft' = [draft EXCEPT ![w] = [prev |-> h, ts |-> 0, saw |-> Stored]]
    BY <2>1
  <2>3. /\ h \in Stored \cup {GENESIS}
        /\ \A g \in Stored : audit[g].prev # h
    BY <2>1, QueryFindsEnd DEF ChainInv
  <2>4. h = n
    <3>1. h \in 0..n
      BY <2>3, <1>1 DEF GENESIS
    <3>2. ~(h + 1 \in Stored)
      BY <2>3, <3>1, <1>1 DEF Serial
    <3> HIDE DEF n
    <3> QED BY <3>1, <3>2, <1>1
  <2>5. draft'[w].prev = n /\ pc'[w] = "queried" /\ UNCHANGED <<audit, history>>
    BY <1>4, <2>2, <2>4 DEF Query, TypeOK
  <2> QED BY <2>5, <1>3 DEF Serial
<1>5. ASSUME NEW w \in Writers, Stamp(w) PROVE Serial'
  <2>1. /\ draft'[w].prev = draft[w].prev /\ draft'[w].ts = now
        /\ pc[w] # "idle" /\ UNCHANGED <<audit, history>>
    BY <1>5 DEF Stamp, TypeOK, Draft
  <2>2. \A g \in Stored : audit[g].ts <= now
    BY DEF ChainInv, LinksBackwards
  <2>3. Stored' = Stored
    BY <2>1 DEF Stored
  <2> QED BY <2>1, <2>2, <2>3, <1>3 DEF Serial
<1>6. ASSUME NEW w \in Writers, Insert(w) PROVE Serial'
  <2> DEFINE x == n + 1
             event == [prev |-> draft[w].prev, ts |-> draft[w].ts,
                       body |-> "written", note |-> "written"]
  <2>1. /\ Stored' = Stored \cup {x}
        /\ audit' = [g \in Stored \cup {x} |-> IF g = x THEN event ELSE audit[g]]
        /\ history' = Append(history, draft[w])
        /\ pc[w] = "stamped" /\ pc' = [pc EXCEPT ![w] = "idle"]
    BY <1>6 DEF Insert, Stored
  <2>2. x \notin Stored /\ x \in Nat /\ x - 1 = n
    BY <1>1
  <2>3. audit'[x] = event /\ \A g \in Stored : audit'[g] = audit[g]
    BY <2>1, <2>2
  <2>4. /\ Computed' = Stored'
        /\ history'[x] = draft[w]
        /\ \A g \in Stored : history'[g] = history[g]
    BY <2>1, <1>1 DEF Computed, TypeOK
  <2>5. event.prev = n /\ \A g \in Stored : audit[g].ts <= event.ts
    BY <2>1 DEF Serial
  <2>6. Untouched'
    <3>1. ASSUME NEW g \in Stored' PROVE Pristine(g)'
      <4>1. CASE g \in Stored
        BY <4>1, <2>3, <2>4 DEF Serial, Untouched, Pristine, Unaltered, Fields, Sealed
      <4>2. CASE g = x
        BY <4>2, <2>3, <2>4 DEF Pristine, Unaltered, Fields, Sealed
      <4> QED BY <2>1, <4>1, <4>2
    <3> QED BY <2>4, <3>1 DEF Untouched
  <2>7. \A h \in Stored' : audit'[h].prev = h - 1
    BY <2>1, <2>2, <2>3, <2>5 DEF Serial
  <2>8. \A g, h \in Stored' : g <= h => audit'[g].ts <= audit'[h].ts
    <3>1. event.ts \in Nat /\ \A g \in Stored : g < x
      BY <1>1, <1>2
    <3>2. \A g \in Stored : ~(x <= g)
      BY <3>1, <1>1, <2>2
    <3> HIDE DEF x, event
    <3> QED BY <2>1, <2>3, <2>5, <3>1, <3>2 DEF Serial
  <2>9. \A v \in Writers : pc'[v] = "idle"
    BY <2>1 DEF TypeOK
  <2> QED BY <2>6, <2>7, <2>8, <2>9 DEF Serial
<1>7. CASE Tick \/ UNCHANGED vars
  BY <1>7, <1>3 DEF Tick, vars, Serial, Stored
<1>8. ASSUME NEW h \in Stored, Edit(h) \/ EditNote(h) \/ Delete(h) \/ Rewrite(h)
      PROVE  FALSE
  BY <1>8 DEF Edit, EditNote, Delete, Rewrite
<1> QED BY <1>4, <1>5, <1>6, <1>7, <1>8 DEF Next

\* A record that log_event adds to the one line is added to the log; what else
\* it does leaves the log alone.
LEMMA LogStep ==
  ASSUME TypeOK, TypeOK', Serial, Serial', [Next]_vars, Tampers = {},
         Walk = Line, Walk' = Line'
  PROVE  [Log!Next]_Walk
<1> DEFINE n == Len(history)
<1>1. n \in Nat /\ Stored = 1..n
  BY DEF TypeOK, Serial, Untouched, Computed
<1>2. ASSUME UNCHANGED <<audit, history>> PROVE Walk' = Walk
  BY <1>2 DEF Line
<1>3. ASSUME NEW w \in Writers, Insert(w) PROVE Log!Next
  <2> DEFINE x == n + 1
             t == draft[w].ts
             rec == [id |-> x, ts |-> t]
  <2>1. /\ audit' = [g \in Stored \cup {x} |->
                       IF g = x THEN [prev |-> draft[w].prev, ts |-> t,
                                      body |-> "written", note |-> "written"]
                       ELSE audit[g]]
        /\ Len(history') = x
        /\ x <= MaxEvents
        /\ pc[w] = "stamped"
    BY <1>3 DEF Insert, TypeOK
  <2>2. x \in Hash /\ t \in Time
    BY <2>1, <1>1 DEF Hash, TypeOK, Draft
  <2>3. Line' = [i \in 1..x |-> [id |-> i, ts |-> audit'[i].ts]]
    BY <2>1 DEF Line
  <2>4. audit'[x].ts = t /\ \A i \in 1..n : audit'[i].ts = audit[i].ts /\ i # x
    BY <2>1, <1>1
  <2>5. Line = [i \in 1..n |-> [id |-> i, ts |-> audit[i].ts]]
    BY DEF Line
  <2>6. Line' = Append(Line, rec)
    <3> DEFINE T == [id : Nat, ts : Nat]
               a == [i \in 1..n |-> [id |-> i, ts |-> audit[i].ts]]
    <3>1. a \in Seq(T) /\ Len(a) = n /\ DOMAIN a = 1..n
      <4>1. \A i \in 1..n : [id |-> i, ts |-> audit[i].ts] \in T
        BY <1>1, StoredFacts
      <4> HIDE DEF T, n
      <4> QED BY <4>1, <1>1
    <3>2. rec \in T
      BY <2>2, <1>1 DEF Time
    <3> HIDE DEF T, n
    <3>3. \A i \in 1..n : a[i] = [id |-> i, ts |-> audit[i].ts]
      OBVIOUS
    <3> HIDE DEF a, rec
    <3>4. Append(a, rec) = [i \in 1..(n + 1) |-> IF i = n + 1 THEN rec ELSE a[i]]
      <4> DEFINE b == [i \in 1..(n + 1) |-> IF i = n + 1 THEN rec ELSE a[i]]
                 c == Append(a, rec)
      <4>1. /\ c \in Seq(T) /\ Len(c) = n + 1 /\ DOMAIN c = 1..(n + 1)
            /\ c[n + 1] = rec /\ \A i \in 1..n : c[i] = a[i]
        BY <3>1, <3>2, <1>1
      <4>2. c \in [1..(n + 1) -> T]
        <5> HIDE DEF c
        <5> QED BY <4>1, <1>1
      <4>3. \A i \in 1..(n + 1) : i = n + 1 \/ i \in 1..n
        BY <1>1
      <4> HIDE DEF c
      <4>4. \A i \in 1..(n + 1) : c[i] = b[i]
        BY <4>1, <4>3
      <4> QED BY <4>1, <4>2, <4>4 DEF c
    <3>5. \A i \in 1..(n + 1) : [id |-> i, ts |-> audit'[i].ts]
                                = IF i = n + 1 THEN rec ELSE a[i]
      BY <1>1, <2>4, <3>3 DEF rec
    <3>6. Line' = [i \in 1..(n + 1) |-> IF i = n + 1 THEN rec ELSE a[i]]
      BY <2>3, <3>5
    <3> QED BY <2>5, <3>4, <3>6 DEF a
  <2>7. \A i \in DOMAIN Walk : Walk[i].id # x /\ Walk[i].ts <= t
    BY <2>1, <2>4, <2>5, <1>1 DEF Serial
  <2>8. Log!Add(x, t)
    BY <2>6, <2>7 DEF Log!Add
  <2> QED BY <2>2, <2>8 DEF Log!Next
<1>4. CASE \E w \in Writers : Query(w) \/ Stamp(w)
  BY <1>2, <1>4 DEF Query, Stamp
<1>5. CASE Tick \/ UNCHANGED vars
  BY <1>2, <1>5 DEF Tick, vars
<1>6. ASSUME NEW h \in Stored, Edit(h) \/ EditNote(h) \/ Delete(h) \/ Rewrite(h)
      PROVE  FALSE
  BY <1>6 DEF Edit, EditNote, Delete, Rewrite
<1> QED BY <1>3, <1>4, <1>5, <1>6 DEF Next

\* One handler at a time and nobody else writing: the audit trail implements
\* the log its readers take it for.  What verify_chain walks through only ever
\* grows at its end, one record at a time and in the order of the timestamps.
THEOREM SerialTrailIsALog ==
  ASSUME \A v, w \in Writers : v = w, Tampers = {}
  PROVE  Spec => ImplementsLog
<1>1. Init => Serial
  BY DEF Init, Serial, Untouched, Stored, Computed
<1>2. TypeOK /\ TypeOK' /\ IInv /\ Serial /\ [Next]_vars => Serial'
  BY SerialStep DEF IInv, Serial
<1>3. TypeOK /\ Serial => Walk = Line
  BY WalkIsLine
<1>4. Init => Log!Init
  <2> SUFFICES ASSUME Init PROVE Walk = <<>>
    BY DEF Log!Init
  <2>1. Serial /\ history = <<>>
    BY <1>1 DEF Init
  <2>2. Line = <<>>
    BY <2>1 DEF Line
  <2>3. TypeOK
    BY <2>1, BoundsAssumption DEF Init, TypeOK, Hash, Time, Draft, NoDraft, Event, Stored, Computed
  <2> QED BY <2>1, <2>2, <2>3, WalkIsLine
<1>5. TypeOK /\ TypeOK' /\ Serial /\ Serial' /\ (Walk = Line) /\ (Walk = Line)'
        /\ [Next]_vars => [Log!Next]_Walk
  BY LogStep
<1> QED BY <1>1, <1>2, <1>3, <1>4, <1>5, TypeCorrect, Invariance, PTL
         DEF Spec, ImplementsLog, Log!Spec
=============================================================================
