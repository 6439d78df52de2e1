----------------------------- MODULE LoginProofs ------------------------------
(***************************************************************************)
(* What holds of LoginAuth for any number of handlers, processes, users,   *)
(* secrets, challenges and requests, and any limits of the lockout.        *)
(*                                                                         *)
(* The invariant has three layers, each proved from the ones before it.    *)
(*   Inv     A handler holds one user object at most, the first one, and   *)
(*           stores it last of all (UserLast): after the records that it   *)
(*           needs (Reviewed).                                             *)
(*   Second  The user object that a handler may still store is what its    *)
(*           request makes of the stored account (Related), or stale.      *)
(*   Third   Whoever uses a challenge looks where it is kept, and is the   *)
(*           first one to use it, or what it found is stale.               *)
(* Count bounds the wrong passwords by what the account itself counts.     *)
(***************************************************************************)
EXTENDS LoginAuth, RequestProofs, FiniteSetTheorems

\* The places of a handler and its kinds, the events, the objects it can hold
\* and its local variables.
Names == Basic \cup {"register", "did", "fail", "login", "granted", "sign_in", "otp", "user", "delete",
                     "setup", "log", "enable"}
UserRecords == [attempts : Nat, locked : Nat, mfa : BOOLEAN, secret : Secrets \cup {NoSecret}]
Events == ({"register"} \X Users) \cup ({"lock"} \X Nat) \cup ({"challenge"} \X Challenges)
            \cup ({"enable"} \X Secrets) \cup {Routine}
Items == [id : Users, val : UserRecords] \cup [id : {"audit"}, val : Events]
           \cup [id : {"did", "profile"}, val : Users]
Locals == [user : Users \cup {"none"}, challenge : Challenges \cup {"none"}]

UserItem(u, v) == [id |-> u, val |-> v]
DidItem(u) == [id |-> "did", val |-> u]

\* What a user is like when n locks have been set.
Sane(v, n) ==
  v.attempts < MaxAttempts + n /\ v.locked <= n /\ (v.mfa => v.secret \in Secrets)

\* The event e that must be on the trail before o is stored: a lock, the enabling
\* of MFA.
Needs(o, e) ==
  /\ o.id \in Users
  /\ \/ o.val.locked > 0 /\ e = <<"lock", o.val.locked>>
     \/ o.val.mfa /\ e = <<"enable", o.val.secret>>

\* The session of request r holds the user of l alone, as its first object.
Owns(r, l, n) ==
  \A m \in DOMAIN r.session.objs :
    r.session.objs[m].id \in Users =>
      m = 1 /\ r.session.objs[m].id = l.user /\ Sane(r.session.objs[m].val, n)
Simple(s) == \A i \in DOMAIN s.tracked : i = 1 /\ s.tracked[i].obj = 1 /\ s.objs[1].id \in Users

\* What it holds may be stored when its turn comes.
Reviewed(r, ins) ==
  \A m \in DOMAIN r.session.objs : \A e \in Events :
    Needs(r.session.objs[m], e) =>
      <<"audit", e>> \in ins \/ (r.pc = "flush" /\ NextObject(r) = AuditItem(e))

\* A user is registered before its profiles are stored, and these before the record.
Registering(r, l, st) ==
  /\ r.pc = "did" => l.user \in Users /\ st[l.user] # Absent
  /\ r.pc = "flush" /\ r.then = "did" =>
       /\ l.user \in Users
       /\ \/ st[l.user] # Absent
          \/ \E i \in DOMAIN r.writing : r.session.objs[r.writing[i]].id = l.user
DidBefore(r, i, u) ==
  \E j \in DOMAIN r.writing : j < i /\ r.session.objs[r.writing[j]] = DidItem(u)
Ordered(r, st, ins) ==
  \A i \in DOMAIN r.writing : \A u \in Users :
    r.session.objs[r.writing[i]] = AuditItem(<<"register", u>>) =>
      st[u] # Absent /\ (<<"did", u>> \in ins \/ DidBefore(r, i, u))
UserLast(r) ==
  \A i \in DOMAIN r.writing : r.session.objs[r.writing[i]].id \in Users => i = Len(r.writing)

\* The part of a handler with request r and local variables l, when the users st
\* and the records ins are stored and n locks have been set.
HandlerOK(r, l, st, ins, n) ==
  /\ r \in Requests(Names, Items) /\ l \in Locals
  /\ Owns(r, l, n) /\ Simple(r.session)
  /\ r.pc # "flush" => r.session.pending = <<>>
  /\ Reviewed(r, ins)
  /\ Registering(r, l, st)
  /\ r.pc = "flush" => Ordered(r, st, ins) /\ UserLast(r)

\* The part of the database.
StoreOK(st, ins, n) ==
  /\ st \in [Users -> UserRecords \cup {Absent}]
  /\ ins \subseteq ({"audit"} \X Events) \cup ({"did", "profile"} \X Users)
  /\ n \in 0..MaxLocks
  /\ \A u \in Users : st[u] # Absent =>
       /\ Sane(st[u], n)
       /\ \A e \in Events : Needs(UserItem(u, st[u]), e) => <<"audit", e>> \in ins
  /\ \A u \in Users : <<"audit", <<"register", u>>>> \in ins => st[u] # Absent /\ <<"did", u>> \in ins

\* The part of time, of the processes and of the browser.
AroundOK ==
  /\ over \in 0..locks
  /\ otp \in [Challenges -> {Nowhere, "redis"} \cup Processes]
  /\ client \in [Processes -> {"unknown", "redis", "memory"}]
  /\ tokens \subseteq {"access", "refresh"}

\* The first layer of the invariant.
Inv ==
  /\ StoreOK(store, inserted, locks) /\ AroundOK
  /\ req \in [Handlers -> Requests(Names, Items)] /\ local \in [Handlers -> Locals]
  /\ \A h \in Handlers : HandlerOK(req[h], local[h], store, inserted, locks)

\* The names of this model cover those of every request.
LEMMA NamesBasic == Basic \subseteq Names
BY DEF Names

\* A stored user is a record of a user.
LEMMA AbsentIsNone == Absent \notin UserRecords
<1> SUFFICES ASSUME Absent \in UserRecords PROVE FALSE
  OBVIOUS
<1>1. DOMAIN Absent = {"status"}
  BY DEF Absent
<1>2. "attempts" \in DOMAIN Absent
  BY DEF UserRecords
<1> QED BY <1>1, <1>2

\* What may be held in a session.
LEMMA ItemsHeld ==
  /\ \A u \in Users : \A v \in UserRecords : UserItem(u, v) \in Items
  /\ \A u \in Users : DidItem(u) \in Items /\ [id |-> "profile", val |-> u] \in Items
  /\ \A e \in Events : AuditItem(e) \in Items
BY DEF Items, UserItem, DidItem, AuditItem

\* The id of an object tells what its value is.
LEMMA ItemFacts ==
  ASSUME NEW o \in Items
  PROVE  /\ o.id \in Users => o.val \in UserRecords
         /\ o.id = "audit" => o.val \in Events
         /\ o.id \in {"did", "profile"} => o.val \in Users
         /\ o.id \in {"audit", "did", "profile"} \cup Users
         /\ o = [id |-> o.id, val |-> o.val]
BY NamesAssumption DEF Items

\* The names of the records are no users.
LEMMA RecordsAreNoUsers == \A d \in {"audit", "did", "profile"} : d \notin Users
BY NamesAssumption

\* A commit writes what was added, in that order, and then the user.
LEMMA WritesLast ==
  ASSUME NEW s \in Sessions(Items), \A i \in DOMAIN s.tracked : i = 1 /\ s.tracked[i].obj = 1
  PROVE  /\ \A i \in DOMAIN Writes(s) :
              \/ i \in DOMAIN s.pending /\ Writes(s)[i] = s.pending[i]
              \/ i = Len(Writes(s)) /\ Writes(s)[i] = 1 /\ 1 \in DOMAIN s.tracked
         /\ StartsWith(Writes(s), s.pending)
         /\ Writes(s) \in Seq(Nat)
<1> DEFINE p == s.pending
           added == {IdOf(s, p[k]) : k \in DOMAIN p}
           S == {i \in Dirty(s) : IdOf(s, s.tracked[i].obj) \notin added}
           b == ObjectsOf(s, S)
           w == Writes(s)
<1>1. StartsWith(w, p)
  BY WritesType
<1>2. S \subseteq {1} /\ S \subseteq DOMAIN s.tracked
  BY DEF Dirty
<1>3. p \in Seq(Nat) /\ s.tracked \in Seq(Entries(Items))
  BY DEF Sessions
<1>4. w = p \o b
  BY DEF Writes
<1>5. w \in Seq(Nat)
  <2>1. w \in Seq(DOMAIN s.objs)
    BY WritesType
  <2>2. DOMAIN s.objs \subseteq Nat
    BY DEF Sessions
  <2> QED BY <2>1, <2>2
<1> HIDE DEF S, p, w
<1>6. CASE S = {}
  <2>1. Cardinality(S) = 0
    BY <1>6, FS_EmptySet
  <2>2. b = <<>>
    <3>1. b = [i \in 1..0 |-> s.tracked[InOrder(S)[i]].obj]
      BY <2>1 DEF ObjectsOf
    <3> QED BY <3>1
  <2>3. w = p
    BY <1>3, <1>4, <2>2
  <2> QED BY <1>1, <1>5, <2>3 DEF p, w
<1>7. CASE S = {1}
  <2>1. Cardinality(S) = 1
    BY <1>7, FS_Singleton
  <2>2. InOrder(S) \in [1..1 -> S]
    <3>1. 1 \in Nat /\ S \in SUBSET (1..1)
      BY <1>7
    <3>2. InOrder(S) \in [1..Cardinality(S) -> S]
      BY <3>1, InOrderType
    <3> QED BY <2>1, <3>2
  <2>3. b = <<1>>
    <3>1. InOrder(S)[1] = 1
      BY <1>7, <2>2
    <3>2. s.tracked[1].obj = 1
      BY <1>2, <1>7
    <3>3. b = [i \in 1..1 |-> s.tracked[InOrder(S)[i]].obj]
      BY <2>1 DEF ObjectsOf
    <3> QED BY <3>1, <3>2, <3>3
  <2> HIDE DEF b
  <2>4. \A i \in DOMAIN w : \/ i \in DOMAIN p /\ w[i] = p[i]
                            \/ i = Len(w) /\ w[i] = 1
    BY <1>3, <1>4, <2>3
  <2> QED BY <1>1, <1>2, <1>5, <1>7, <2>4 DEF p, w
<1> QED BY <1>2, <1>6, <1>7

\* What a request consists of.
LEMMA RequestFacts ==
  ASSUME NEW r \in Requests(Names, Items)
  PROVE  /\ r \in Shape(Names, Items) /\ Sound(r) /\ r.session \in Sessions(Items)
         /\ r.session.objs \in Seq(Items) /\ r.session.pending \in Seq(Nat)
         /\ \A m \in DOMAIN r.session.objs : r.session.objs[m] \in Items
BY DEF Requests, Shape, Sessions

\* log_event of a handler that holds its user alone stores what is pending, its
\* record and then the user, in this order.
LogForm(r, e, f) ==
  /\ f \in Requests(Names, Items) /\ f.op = r.op /\ f.pc = "flush" /\ f.then = "idle"
  /\ f.session.objs = Append(r.session.objs, AuditItem(e))
  /\ f.session.tracked = r.session.tracked
  /\ \A i \in DOMAIN f.writing :
       \/ i \in DOMAIN r.session.pending /\ f.writing[i] = r.session.pending[i]
       \/ i = Len(r.session.pending) + 1 /\ f.writing[i] = Len(r.session.objs) + 1
       \/ i = Len(f.writing) /\ f.writing[i] = 1 /\ 1 \in DOMAIN r.session.tracked
  /\ StartsWith(f.writing, Append(r.session.pending, Len(r.session.objs) + 1))

\* The session and the writes of a flush with something to write.
LEMMA FlushWrites ==
  ASSUME NEW r \in Requests(Names, Items), NEW pc \in Names, pc # "flush", NEW f, f = Flush(r, pc)
  PROVE  /\ f \in Requests(Names, Items) /\ f.session = r.session /\ f.op = r.op
         /\ \/ f.pc = pc /\ Writes(r.session) = <<>>
            \/ f.pc = "flush" /\ f.then = pc /\ f.writing = Writes(r.session)
BY FlushType, NamesBasic

\* log_event of such a handler.
LEMMA LogIs ==
  ASSUME NEW r \in Requests(Names, Items), Simple(r.session), NEW e \in Events,
         NEW f, f = LogEvent(r, e, "idle")
  PROVE  LogForm(r, e, f)
<1> DEFINE t == r.session
           s == AddNew(t, "audit", e)
           q == [r EXCEPT !.session = s]
           k == Len(t.objs) + 1
           p == Append(t.pending, k)
<1>1. "idle" \in Names /\ "idle" # "flush" /\ AuditItem(e) \in Items
  BY ItemsHeld DEF Names, Basic
<1>2. Recording(Names, Items, r, e, "idle", f)
  BY <1>1, LogEventType, NamesBasic
<1>3. r \in Shape(Names, Items) /\ Sound(r) /\ t \in Sessions(Items)
  BY RequestFacts
<1>4. /\ s \in Sessions(Items) /\ s.objs = Append(t.objs, AuditItem(e)) /\ s.pending = p
      /\ s.tracked = t.tracked
  <2> DEFINE id == "audit"
  <2>1. [id |-> id, val |-> e] \in Items
    BY <1>1 DEF AuditItem
  <2> HIDE DEF id, t
  <2>2. /\ AddNew(t, id, e) \in Sessions(Items)
        /\ AddNew(t, id, e).objs = Append(t.objs, [id |-> id, val |-> e])
        /\ AddNew(t, id, e).pending = Append(t.pending, Len(t.objs) + 1)
    BY <1>3, <2>1, AddNewType
  <2>3. AddNew(t, id, e).tracked = t.tracked
    BY <1>3, SameTracked
  <2> QED BY <2>2, <2>3 DEF id, AuditItem
<1>5. f = Flush(q, "idle")
  BY DEF LogEvent
<1>6. q \in Shape(Names, Items) /\ q.session = s /\ q.writing = r.writing /\ q.pc = r.pc
      /\ q.then = r.then
  <2> HIDE DEF s
  <2> QED BY <1>3, <1>4 DEF Shape
<1> HIDE DEF s, q, p
<1>7. q \in Requests(Names, Items)
  <2>1. DOMAIN t.objs \subseteq DOMAIN s.objs
    <3> DEFINE o == AuditItem(e)
    <3>1. t.objs \in Seq(Items) /\ o \in Items /\ s.objs = Append(t.objs, o)
      BY <1>1, <1>3, <1>4 DEF Sessions
    <3> HIDE DEF o
    <3>2. DOMAIN s.objs = DOMAIN t.objs \cup {Len(s.objs)}
      BY <3>1, AppendFacts
    <3> QED BY <3>2
  <2> QED BY <1>3, <1>6, <2>1 DEF Requests, Sound
<1>8. f.session = s /\ f.writing = Writes(s)
  <2>1. f.pc = "flush"
    BY <1>2 DEF Recording
  <2> QED BY <1>1, <1>5, <1>6, <1>7, <2>1, FlushWrites
<1>9. \A i \in DOMAIN s.tracked : i = 1 /\ s.tracked[i].obj = 1
  BY <1>4 DEF Simple
<1>10. \A i \in DOMAIN Writes(s) :
         \/ i \in DOMAIN s.pending /\ Writes(s)[i] = s.pending[i]
         \/ i = Len(Writes(s)) /\ Writes(s)[i] = 1 /\ 1 \in DOMAIN s.tracked
  BY <1>4, <1>9, WritesLast
<1>11. DOMAIN p = DOMAIN t.pending \cup {Len(p)} /\ p[Len(p)] = k /\ Len(p) = Len(t.pending) + 1
       /\ \A i \in DOMAIN t.pending : p[i] = t.pending[i]
  <2>1. t.pending \in Seq(Nat) /\ k \in Nat
    BY <1>3 DEF Sessions
  <2> HIDE DEF k, t
  <2> QED BY <2>1, AppendFacts DEF p
<1> QED BY <1>2, <1>4, <1>8, <1>10, <1>11 DEF LogForm, Recording, p

\* With nothing pending, the record of log_event is the next thing stored.
LEMMA LogIsNext ==
  ASSUME NEW r \in Requests(Names, Items), r.session.pending = <<>>, NEW e \in Events,
         NEW f, LogForm(r, e, f)
  PROVE  /\ NextObject(f) = AuditItem(e)
         /\ \A i \in DOMAIN f.writing :
              \/ i = 1 /\ f.writing[i] = Len(r.session.objs) + 1
              \/ i = Len(f.writing) /\ f.writing[i] = 1 /\ 1 \in DOMAIN r.session.tracked
         /\ 1 \in DOMAIN f.writing /\ f.writing[1] = Len(r.session.objs) + 1
<1> DEFINE k == Len(r.session.objs) + 1
           objs == r.session.objs
           o == AuditItem(e)
           p == Append(r.session.pending, k)
<1>1. 1 \in DOMAIN p /\ p[1] = k
  <2>1. k \in Nat /\ r.session.pending \in Seq(Nat)
    BY RequestFacts
  <2> HIDE DEF k
  <2> QED BY <2>1
<1>2. 1 \in DOMAIN f.writing /\ f.writing[1] = k
  BY <1>1 DEF LogForm, StartsWith
<1>3. Head(f.writing) = k
  BY <1>2, NextObjectType, NamesBasic DEF LogForm
<1>4. Append(objs, o)[k] = o
  <2>1. objs \in Seq(Items) /\ o \in Items
    BY RequestFacts, ItemsHeld
  <2> HIDE DEF objs, o
  <2>2. Append(objs, o)[Len(objs) + 1] = o
    BY <2>1
  <2> QED BY <2>2 DEF objs
<1>5. NextObject(f) = o
  BY <1>3, <1>4 DEF NextObject, LogForm
<1>6. Len(r.session.pending) + 1 = 1 /\ DOMAIN r.session.pending = {}
  OBVIOUS
<1> QED BY <1>2, <1>5, <1>6 DEF LogForm

\* What a handler holds that has read user u and left its copy with value v.
LEMMA ReadFacts ==
  ASSUME NEW u \in Users, NEW w \in UserRecords, store[u] = w, NEW v \in UserRecords,
         NEW op \in Names, op # "flush"
  PROVE  LET r == Read(u, op, v)
         IN  /\ r \in Requests(Names, Items) /\ r.op = op /\ r.pc = op
             /\ \A m \in DOMAIN r.session.objs : m = 1 /\ r.session.objs[m] = UserItem(u, v)
             /\ r.session.pending = <<>> /\ Simple(r.session)
             /\ 1 \in DOMAIN r.session.objs
             /\ 1 \in DOMAIN r.session.tracked /\ r.session.tracked[1].snapshot = w
<1> DEFINE s == Fetch(NoSession, u, w)
           a == Assign(s, 1, v)
           none == NoSession
           entry == [obj |-> 1, snapshot |-> w]
<1>1. none \in Sessions(Items) /\ [id |-> u, val |-> w] \in Items /\ [id |-> u, val |-> v] \in Items
      /\ none.objs = <<>> /\ none.tracked = <<>>
  BY NoSessionType, ItemsHeld DEF UserItem, NoSession
<1>2. a \in Sessions(Items) /\ a.pending = <<>> /\ \A m \in DOMAIN a.objs : a.objs[m] = [id |-> u, val |-> v]
  BY <1>1, FirstObject
<1>3. s.tracked = <<entry>> /\ s.objs = <<[id |-> u, val |-> w]>>
  <2>1. Newest(none) = 0
    BY <1>1 DEF Newest
  <2>2. {i \in DOMAIN none.tracked : IdOf(none, none.tracked[i].obj) = u} = {}
    BY <1>1
  <2>3. s = [none EXCEPT !.objs = Append(@, [id |-> u, val |-> w]), !.tracked = Append(@, entry)]
    BY <2>1, <2>2 DEF Fetch
  <2> DEFINE o1 == <<[id |-> u, val |-> w]>>
             t1 == <<entry>>
  <2>4. o1 = Append(none.objs, [id |-> u, val |-> w]) /\ t1 = Append(none.tracked, entry)
    BY <1>1
  <2>5. none = [objs |-> none.objs, tracked |-> none.tracked, pending |-> none.pending]
    BY DEF NoSession
  <2> HIDE DEF o1, t1, none
  <2>6. s = [objs |-> o1, tracked |-> t1, pending |-> none.pending]
    BY <2>3, <2>4, <2>5
  <2> QED BY <2>6 DEF o1, t1
<1>4. a.tracked = <<entry>>
  <2>1. s \in Sessions(Items)
    BY <1>1, FetchType
  <2> HIDE DEF s
  <2> QED BY <1>3, <2>1, SameTracked
<1>5. DOMAIN a.objs = {1}
  <2>1. a = [s EXCEPT !.objs[1].val = v]
    BY DEF Assign
  <2>2. s \in Sessions(Items)
    BY <1>1, FetchType
  <2> DEFINE q == [s.objs EXCEPT ![1].val = v]
  <2>3. a = [s EXCEPT !.objs = q]
    BY <2>1
  <2>4. DOMAIN q = {1}
    BY <1>3
  <2> HIDE DEF q, s
  <2> QED BY <2>2, <2>3, <2>4 DEF Sessions
<1>6. Read(u, op, v) = Start(op, a, op)
  BY DEF Read
<1> HIDE DEF a, s, none
<1>7. /\ Start(op, a, op) \in Requests(Names, Items) /\ Start(op, a, op).session = a
      /\ Start(op, a, op).pc = op /\ Start(op, a, op).op = op
  BY <1>2, StartType, NamesBasic
<1>8. Simple(a)
  BY <1>2, <1>4, <1>5 DEF Simple
<1> QED BY <1>2, <1>4, <1>5, <1>6, <1>7, <1>8 DEF UserItem

-----------------------------------------------------------------------------
(* The first layer *)

\* What is stored stays stored: the request's invariant is not disturbed.
LEMMA Monotone ==
  ASSUME NEW r, NEW l, NEW st, NEW ins, NEW n \in Nat, NEW st2, NEW ins2, NEW n2 \in Nat,
         HandlerOK(r, l, st, ins, n), ins \subseteq ins2, n <= n2,
         \A u \in Users : st[u] # Absent => st2[u] # Absent
  PROVE  HandlerOK(r, l, st2, ins2, n2)
<1>1. r \in Requests(Names, Items)
  BY DEF HandlerOK
<1>2. Owns(r, l, n2)
  <2>1. SUFFICES ASSUME NEW m \in DOMAIN r.session.objs, r.session.objs[m].id \in Users
                 PROVE  m = 1 /\ r.session.objs[m].id = l.user /\ Sane(r.session.objs[m].val, n2)
    BY DEF Owns
  <2>2. m = 1 /\ r.session.objs[m].id = l.user /\ Sane(r.session.objs[m].val, n)
    BY <2>1 DEF HandlerOK, Owns
  <2>3. r.session.objs[m].val \in UserRecords
    BY <1>1, <2>1, RequestFacts, ItemFacts
  <2> DEFINE v == r.session.objs[m].val
  <2> HIDE DEF v
  <2>4. v.attempts \in Nat /\ v.locked \in Nat /\ Sane(v, n)
    BY <2>2, <2>3 DEF v, UserRecords
  <2>5. Sane(v, n2)
    BY <2>4, LockoutAssumption DEF Sane
  <2> QED BY <2>2, <2>5 DEF v
<1>3. Reviewed(r, ins2)
  BY DEF HandlerOK, Reviewed
<1>4. Registering(r, l, st2)
  BY DEF HandlerOK, Registering
<1>5. r.pc = "flush" => Ordered(r, st2, ins2)
  BY DEF HandlerOK, Ordered
<1> QED BY <1>2, <1>3, <1>4, <1>5 DEF HandlerOK

\* What the invariant says of the whole.
LEMMA InvFacts ==
  ASSUME Inv
  PROVE  /\ StoreOK(store, inserted, locks) /\ AroundOK /\ locks \in 0..MaxLocks /\ locks \in Nat
         /\ req \in [Handlers -> Requests(Names, Items)] /\ local \in [Handlers -> Locals]
         /\ \A h \in Handlers : HandlerOK(req[h], local[h], store, inserted, locks)
         /\ \A u \in Users : store[u] # Absent =>
              /\ store[u] \in UserRecords /\ Sane(store[u], locks)
              /\ \A e \in Events : Needs(UserItem(u, store[u]), e) => <<"audit", e>> \in inserted
BY LockoutAssumption DEF Inv, StoreOK

\* A step of one handler.
LEMMA Frame ==
  ASSUME Inv, NEW h \in Handlers, NEW r, NEW l,
         req' = [req EXCEPT ![h] = r], local' = [local EXCEPT ![h] = l],
         HandlerOK(r, l, store', inserted', locks'), StoreOK(store', inserted', locks'), AroundOK',
         inserted \subseteq inserted', locks <= locks', locks' \in Nat,
         \A u \in Users : store[u] # Absent => store'[u] # Absent
  PROVE  Inv'
<1>1. r \in Requests(Names, Items) /\ l \in Locals
  BY DEF HandlerOK
<1>2. req' \in [Handlers -> Requests(Names, Items)] /\ local' \in [Handlers -> Locals]
  BY <1>1, InvFacts
<1>3. ASSUME NEW g \in Handlers PROVE HandlerOK(req'[g], local'[g], store', inserted', locks')
  <2>1. CASE g = h
    BY <2>1, InvFacts
  <2>2. CASE g # h
    <3>1. req'[g] = req[g] /\ local'[g] = local[g]
      BY <2>2, InvFacts
    <3>2. HandlerOK(req[g], local[g], store', inserted', locks')
      BY InvFacts, Monotone
    <3> QED BY <3>1, <3>2
  <2> QED BY <2>1, <2>2
<1> QED BY <1>2, <1>3 DEF Inv

\* A step of one handler that stores nothing and sets no lock.
LEMMA QuietFrame ==
  ASSUME Inv, NEW h \in Handlers, NEW r, NEW l,
         req' = [req EXCEPT ![h] = r], local' = [local EXCEPT ![h] = l],
         HandlerOK(r, l, store, inserted, locks), UNCHANGED <<store, inserted, locks>>, AroundOK'
  PROVE  Inv'
<1>1. /\ HandlerOK(r, l, store', inserted', locks') /\ StoreOK(store', inserted', locks')
      /\ locks \in Nat
  BY InvFacts
<1>2. inserted \subseteq inserted' /\ locks <= locks' /\ locks' \in Nat
      /\ \A u \in Users : store[u] # Absent => store'[u] # Absent
  BY <1>1
<1> QED BY <1>1, <1>2, Frame

\* An idle handler satisfies its part of the invariant.
LEMMA IdleOK ==
  ASSUME NEW l \in Locals, NEW st, NEW ins, NEW n
  PROVE  HandlerOK(Idle, l, st, ins, n)
<1>1. /\ Idle \in Requests(Names, Items) /\ Idle.pc = "idle"
      /\ DOMAIN Idle.session.objs = {} /\ Idle.session.pending = <<>> /\ DOMAIN Idle.session.tracked = {}
  BY IdleType, NamesBasic DEF Idle, NoSession
<1>2. Owns(Idle, l, n) /\ Simple(Idle.session) /\ Reviewed(Idle, ins) /\ Registering(Idle, l, st)
  BY <1>1 DEF Owns, Simple, Reviewed, Registering
<1> QED BY <1>1, <1>2 DEF HandlerOK

\* A handler that holds its user alone, with nothing pending, may go on to log
\* the event that it has still to store.
LEMMA LogOK ==
  ASSUME NEW r \in Requests(Names, Items), NEW l \in Locals, NEW st, NEW ins, NEW n,
         Owns(r, l, n), Simple(r.session), r.session.pending = <<>>,
         NEW e \in Events, \A u \in Users : e # <<"register", u>>,
         \A m \in DOMAIN r.session.objs : \A d \in Events :
           Needs(r.session.objs[m], d) => <<"audit", d>> \in ins \/ d = e,
         NEW f, f = LogEvent(r, e, "idle")
  PROVE  HandlerOK(f, l, st, ins, n)
<1> DEFINE objs == r.session.objs
           o == AuditItem(e)
           k == Len(objs) + 1
<1>1. LogForm(r, e, f)
  BY LogIs
<1>2. /\ NextObject(f) = AuditItem(e)
      /\ \A i \in DOMAIN f.writing :
           \/ i = 1 /\ f.writing[i] = k
           \/ i = Len(f.writing) /\ f.writing[i] = 1 /\ 1 \in DOMAIN r.session.tracked
  BY <1>1, LogIsNext
<1>3. /\ f \in Requests(Names, Items) /\ f.pc = "flush" /\ f.then = "idle"
      /\ f.session.objs = Append(objs, o) /\ f.session.tracked = r.session.tracked
  BY <1>1 DEF LogForm
<1>4. objs \in Seq(Items) /\ o \in Items /\ o.id = "audit" /\ o.id \notin Users /\ r \in Requests(Names, Items)
  BY RequestFacts, ItemsHeld, RecordsAreNoUsers DEF AuditItem
<1> DEFINE q == f.session.objs
<1>5. DOMAIN q = DOMAIN objs \cup {k} /\ q[k] = o /\ \A m \in DOMAIN objs : q[m] = objs[m]
  <2> HIDE DEF objs, o
  <2>1. DOMAIN q = DOMAIN objs \cup {Len(q)} /\ Len(q) = Len(objs) + 1 /\ q[Len(q)] = o
        /\ \A m \in DOMAIN objs : q[m] = objs[m]
    BY <1>3, <1>4, AppendFacts
  <2> QED BY <2>1
<1>6. 1 \in DOMAIN r.session.tracked => 1 \in DOMAIN objs /\ q[1].id \in Users
  <2>1. \A i \in DOMAIN r.session.tracked : r.session.tracked[i].obj \in DOMAIN objs
    BY RequestFacts DEF Sessions
  <2> QED BY <2>1, <1>5 DEF Simple
<1> HIDE DEF k, o, q
<1>7. Owns(f, l, n) /\ Simple(f.session)
  <2>1. Owns(f, l, n)
    BY <1>4, <1>5 DEF Owns, q
  <2>2. Simple(f.session)
    BY <1>3, <1>6 DEF Simple, q
  <2> QED BY <2>1, <2>2
<1>8. Reviewed(f, ins)
  <2>1. ASSUME NEW m \in DOMAIN q, NEW d \in Events, Needs(q[m], d)
        PROVE  <<"audit", d>> \in ins \/ d = e
    <3>1. q[m].id \in Users
      BY <2>1 DEF Needs
    <3> QED BY <1>4, <1>5, <2>1, <3>1
  <2> QED BY <1>2, <1>3, <2>1 DEF Reviewed, q
<1>9. Registering(f, l, st)
  BY <1>3 DEF Registering
<1>10. Ordered(f, st, ins)
  <2>1. ASSUME NEW i \in DOMAIN f.writing, NEW u \in Users, q[f.writing[i]] = AuditItem(<<"register", u>>)
        PROVE  FALSE
    <3>1. CASE f.writing[i] = k
      BY <1>5, <2>1, <3>1 DEF o, AuditItem
    <3>2. CASE f.writing[i] = 1 /\ 1 \in DOMAIN r.session.tracked
      BY <1>6, <2>1, <3>2, RecordsAreNoUsers DEF AuditItem
    <3> QED BY <1>2, <3>1, <3>2
  <2> QED BY <2>1 DEF Ordered, q
<1>11. UserLast(f)
  <2>1. ASSUME NEW i \in DOMAIN f.writing, q[f.writing[i]].id \in Users
        PROVE  i = Len(f.writing)
    BY <1>2, <1>4, <1>5, <2>1
  <2> QED BY <2>1 DEF UserLast, q
<1> QED BY <1>3, <1>7, <1>8, <1>9, <1>10, <1>11 DEF HandlerOK

\* A handler that holds its user alone, with nothing pending, may flush it if its
\* records are stored.
LEMMA FlushOK ==
  ASSUME NEW r \in Requests(Names, Items), NEW l \in Locals, NEW st, NEW ins, NEW n,
         Owns(r, l, n), Simple(r.session), r.session.pending = <<>>,
         \A m \in DOMAIN r.session.objs : \A d \in Events :
           Needs(r.session.objs[m], d) => <<"audit", d>> \in ins,
         NEW pc \in Names \ {"flush", "did"}, NEW f, f = Flush(r, pc)
  PROVE  HandlerOK(f, l, st, ins, n)
<1>1. /\ f \in Requests(Names, Items) /\ f.session = r.session
      /\ \/ f.pc = pc /\ Writes(r.session) = <<>>
         \/ f.pc = "flush" /\ f.then = pc /\ f.writing = Writes(r.session)
  BY FlushWrites
<1>2. \A i \in DOMAIN Writes(r.session) :
        \/ i \in DOMAIN r.session.pending
        \/ i = Len(Writes(r.session)) /\ Writes(r.session)[i] = 1 /\ 1 \in DOMAIN r.session.tracked
  BY RequestFacts, WritesLast DEF Simple
<1>3. DOMAIN r.session.pending = {}
  OBVIOUS
<1>4. 1 \in DOMAIN r.session.tracked => r.session.objs[1].id \in Users
  BY DEF Simple
<1>5. Owns(f, l, n) /\ Simple(f.session) /\ Reviewed(f, ins)
  BY <1>1 DEF Owns, Reviewed
<1>6. Registering(f, l, st)
  BY <1>1 DEF Registering
<1>7. f.pc = "flush" => Ordered(f, st, ins) /\ UserLast(f)
  <2>1. SUFFICES ASSUME f.pc = "flush" PROVE Ordered(f, st, ins) /\ UserLast(f)
    OBVIOUS
  <2>2. f.writing = Writes(r.session)
    BY <1>1, <2>1
  <2>3. \A i \in DOMAIN f.writing : i = Len(f.writing) /\ f.session.objs[f.writing[i]].id \in Users
    BY <1>1, <1>2, <1>3, <1>4, <2>2
  <2>4. \A u \in Users : AuditItem(<<"register", u>>).id \notin Users
    BY RecordsAreNoUsers DEF AuditItem
  <2> QED BY <2>3, <2>4 DEF Ordered, UserLast
<1> QED BY <1>1, <1>5, <1>6, <1>7 DEF HandlerOK

\* register starts with its new user, which needs no record.
LEMMA RegisterForm ==
  ASSUME Inv, NEW h \in Handlers, Register(h)
  PROVE  /\ Inv'
         /\ \E f, l : /\ req' = [req EXCEPT ![h] = f] /\ local' = [local EXCEPT ![h] = l]
                     /\ f.op = "register" /\ f.pc = "flush" /\ f.then = "did" /\ l.challenge = "none"
<1>1. PICK u \in Users :
        /\ ~Stored(u)
        /\ Begin(h, Flush(Start("register", AddNew(NoSession, u, NewUser), "did"), "did"),
                 [NoLocals EXCEPT !.user = u])
  BY DEF Register
<1> DEFINE none == NoSession
           s == AddNew(none, u, NewUser)
           q == Start("register", s, "did")
           f == Flush(q, "did")
           l == [NoLocals EXCEPT !.user = u]
           st == store
           ins == inserted
<1>2. l \in Locals /\ l.user = u /\ l.challenge = "none"
  BY DEF NoLocals, Locals
<1>3. none \in Sessions(Items) /\ none.objs = <<>> /\ none.tracked = <<>> /\ none.pending = <<>>
  BY NoSessionType DEF NoSession
<1>4. NewUser \in UserRecords /\ Sane(NewUser, locks) /\ ~NewUser.mfa /\ NewUser.locked = 0
  <2>1. locks \in Nat
    BY InvFacts
  <2> QED BY <2>1, LockoutAssumption DEF NewUser, UserRecords, Sane, NoSecret
<1>5. /\ s \in Sessions(Items) /\ s.objs = <<UserItem(u, NewUser)>> /\ s.pending = <<1>> /\ s.tracked = <<>>
  <2>1. [id |-> u, val |-> NewUser] \in Items
    BY <1>4, ItemsHeld DEF UserItem
  <2> HIDE DEF none
  <2>2. /\ s \in Sessions(Items) /\ s.objs = Append(none.objs, [id |-> u, val |-> NewUser])
        /\ s.pending = Append(none.pending, Len(none.objs) + 1)
    BY <1>3, <2>1, AddNewType
  <2>3. s.tracked = none.tracked
    BY <1>3, SameTracked
  <2> DEFINE o == UserItem(u, NewUser)
  <2>4. o = [id |-> u, val |-> NewUser]
    BY DEF UserItem
  <2> HIDE DEF s, o
  <2>5. s.objs = <<o>> /\ s.pending = <<1>>
    BY <1>3, <2>2, <2>4
  <2> QED BY <1>3, <2>2, <2>3, <2>5 DEF o
<1> HIDE DEF s
<1>6. q \in Requests(Names, Items) /\ q.session = s /\ q.pc = "did" /\ q.op = "register"
  <2> DEFINE op == "register"
             pc == "did"
  <2>1. op \in Names /\ pc \in Names /\ pc # "flush" /\ s \in Sessions(Items)
    BY <1>5 DEF Names
  <2> HIDE DEF op, pc
  <2>2. Start(op, s, pc) \in Requests(Names, Items) /\ Start(op, s, pc).session = s
        /\ Start(op, s, pc).pc = pc /\ Start(op, s, pc).op = op
    BY <2>1, StartType, NamesBasic
  <2> QED BY <2>2 DEF op, pc
<1> HIDE DEF q
<1>7. /\ f \in Requests(Names, Items) /\ f.session = s /\ f.op = "register"
      /\ \/ f.pc = "did" /\ Writes(s) = <<>>
         \/ f.pc = "flush" /\ f.then = "did" /\ f.writing = Writes(s)
  <2>1. "did" \in Names
    BY DEF Names
  <2> QED BY <1>6, <2>1, FlushWrites
<1> HIDE DEF f, l
<1>8. \A i \in DOMAIN s.tracked : i = 1 /\ s.tracked[i].obj = 1
  BY <1>5
<1>9. /\ 1 \in DOMAIN Writes(s) /\ Writes(s)[1] = 1 /\ Writes(s) \in Seq(Nat)
      /\ \A i \in DOMAIN Writes(s) : i = 1 /\ Writes(s)[i] = 1
  <2>1. /\ StartsWith(Writes(s), s.pending) /\ Writes(s) \in Seq(Nat)
        /\ \A i \in DOMAIN Writes(s) :
              \/ i \in DOMAIN s.pending /\ Writes(s)[i] = s.pending[i]
              \/ i = Len(Writes(s)) /\ Writes(s)[i] = 1 /\ 1 \in DOMAIN s.tracked
    BY <1>5, <1>8, WritesLast
  <2>2. DOMAIN s.pending = {1} /\ s.pending[1] = 1 /\ DOMAIN s.tracked = {}
    BY <1>5
  <2> QED BY <2>1, <2>2 DEF StartsWith
<1>10. Writes(s) # <<>> /\ Len(Writes(s)) = 1
  <2> DEFINE w == Writes(s)
             n == Len(w)
  <2>1. w \in Seq(Nat) /\ 1 \in DOMAIN w /\ \A i \in DOMAIN w : i = 1
    BY <1>9
  <2> HIDE DEF w
  <2>2. n \in Nat /\ DOMAIN w = 1..n
    BY <2>1
  <2> HIDE DEF n
  <2>3. n = 1
    <3>1. n \in 1..n
      BY <2>1, <2>2
    <3> QED BY <2>1, <2>2, <3>1
  <2> QED BY <2>3 DEF n, w
<1>11. f.pc = "flush" /\ f.then = "did" /\ f.writing = Writes(s)
  BY <1>7, <1>10
<1>12. DOMAIN s.objs = {1} /\ s.objs[1].id = u /\ s.objs[1].val = NewUser
  BY <1>5 DEF UserItem
<1>13. Owns(f, l, locks) /\ Simple(f.session) /\ Reviewed(f, ins)
  <2>1. Owns(f, l, locks)
    BY <1>2, <1>4, <1>7, <1>12 DEF Owns
  <2>2. Simple(f.session)
    BY <1>5, <1>7 DEF Simple
  <2>3. \A m \in DOMAIN s.objs : \A e \in Events : ~Needs(s.objs[m], e)
    BY <1>4, <1>12 DEF Needs
  <2> QED BY <1>7, <2>1, <2>2, <2>3 DEF Reviewed
<1>14. Registering(f, l, st)
  BY <1>2, <1>7, <1>9, <1>11, <1>12 DEF Registering
<1>15. Ordered(f, st, ins) /\ UserLast(f)
  <2>1. \A i \in DOMAIN f.writing : i = Len(f.writing) /\ f.session.objs[f.writing[i]].id \in Users
    BY <1>7, <1>9, <1>10, <1>11, <1>12
  <2>2. \A v \in Users : AuditItem(<<"register", v>>).id \notin Users
    BY RecordsAreNoUsers DEF AuditItem
  <2> QED BY <2>1, <2>2 DEF Ordered, UserLast
<1>16. HandlerOK(f, l, st, ins, locks)
  BY <1>2, <1>7, <1>11, <1>13, <1>14, <1>15 DEF HandlerOK
<1>17. /\ req' = [req EXCEPT ![h] = f] /\ local' = [local EXCEPT ![h] = l]
  BY <1>1 DEF Begin, f, q, s, l
<1>18. UNCHANGED <<store, inserted, locks>> /\ AroundOK'
  BY InvFacts DEF Register, data, around, AroundOK
<1> HIDE DEF st, ins
<1>19. Inv'
  BY <1>16, <1>17, <1>18, QuietFrame DEF st, ins
<1> QED BY <1>2, <1>7, <1>11, <1>17, <1>19

\* The first layer, of this step.
LEMMA RegisterOK ==
  ASSUME Inv, NEW h \in Handlers, Register(h)
  PROVE  Inv'
BY RegisterForm

\* Session s with a record of user u added is a.
Added(s, id, u, a) ==
  /\ a \in Sessions(Items) /\ a.tracked = s.tracked
  /\ DOMAIN a.objs = DOMAIN s.objs \cup {Len(s.objs) + 1}
  /\ a.objs[Len(s.objs) + 1] = [id |-> id, val |-> u]
  /\ \A m \in DOMAIN s.objs : a.objs[m] = s.objs[m]
  /\ DOMAIN a.pending = DOMAIN s.pending \cup {Len(s.pending) + 1}
  /\ a.pending[Len(s.pending) + 1] = Len(s.objs) + 1
  /\ \A m \in DOMAIN s.pending : a.pending[m] = s.pending[m]
  /\ Len(a.pending) = Len(s.pending) + 1

\* That is what add() of a record makes of it.
LEMMA AddRecord ==
  ASSUME NEW s \in Sessions(Items), NEW id \in {"did", "profile"}, NEW u \in Users,
         NEW a, a = AddNew(s, id, u)
  PROVE  Added(s, id, u, a)
<1> DEFINE o == [id |-> id, val |-> u]
           k == Len(s.objs) + 1
           q == s.objs
           p == s.pending
<1>1. o \in Items /\ q \in Seq(Items) /\ p \in Seq(Nat) /\ k \in Nat
  <2>1. o \in Items
    BY DEF Items
  <2>2. q \in Seq(Items) /\ p \in Seq(Nat)
    BY DEF Sessions
  <2> QED BY <2>1, <2>2
<1>2. a \in Sessions(Items) /\ a.objs = Append(q, o) /\ a.pending = Append(p, k)
  BY SMTT(40), <1>1, AddNewType
<1>3. a.tracked = s.tracked
  BY SameTracked
<1> HIDE DEF o
<1>4. /\ DOMAIN a.objs = DOMAIN q \cup {Len(a.objs)} /\ Len(a.objs) = Len(q) + 1
      /\ a.objs[Len(a.objs)] = o /\ \A m \in DOMAIN q : a.objs[m] = q[m]
  <2> HIDE DEF q
  <2> QED BY <1>1, <1>2, AppendFacts
<1>5. /\ DOMAIN a.pending = DOMAIN p \cup {Len(a.pending)} /\ Len(a.pending) = Len(p) + 1
      /\ a.pending[Len(a.pending)] = k /\ \A m \in DOMAIN p : a.pending[m] = p[m]
  <2> HIDE DEF p, k
  <2> QED BY <1>1, <1>2, AppendFacts
<1> QED BY <1>2, <1>3, <1>4, <1>5 DEF o, Added

\* What AddProfiles adds before the record: one or two records, the DID last.
Records(s, a, u) ==
  /\ a \in Sessions(Items) /\ a.tracked = s.tracked
  /\ \A m \in DOMAIN s.objs : m \in DOMAIN a.objs /\ a.objs[m] = s.objs[m]
  /\ \A m \in DOMAIN a.objs : m \in DOMAIN s.objs \/ a.objs[m].id \in {"did", "profile"}
  /\ \A i \in DOMAIN a.pending :
       a.pending[i] \in DOMAIN a.objs /\ a.objs[a.pending[i]].id \in {"did", "profile"}
  /\ Len(a.pending) \in DOMAIN a.pending /\ a.objs[a.pending[Len(a.pending)]] = DidItem(u)

\* With an issuer's profile or without, the DID profile is added last.
LEMMA RecordsAdded ==
  ASSUME NEW s \in Sessions(Items), s.pending = <<>>, NEW u \in Users, NEW b,
         b = IF AsIssuer THEN AddNew(s, "profile", u) ELSE s,
         NEW a, a = AddNew(b, "did", u)
  PROVE  Records(s, a, u)
<1>1. /\ b \in Sessions(Items) /\ b.tracked = s.tracked
      /\ \A m \in DOMAIN s.objs : m \in DOMAIN b.objs /\ b.objs[m] = s.objs[m]
      /\ \A m \in DOMAIN b.objs : m \in DOMAIN s.objs \/ b.objs[m].id = "profile"
      /\ \A i \in DOMAIN b.pending : b.pending[i] \in DOMAIN b.objs /\ b.objs[b.pending[i]].id = "profile"
  <2>0. DOMAIN s.pending = {}
    OBVIOUS
  <2>1. CASE AsIssuer
    <3> DEFINE id == "profile"
    <3>1. b = AddNew(s, id, u) /\ id \in {"did", "profile"}
      BY <2>1
    <3> HIDE DEF id
    <3>2. /\ b \in Sessions(Items) /\ b.tracked = s.tracked
          /\ DOMAIN b.objs = DOMAIN s.objs \cup {Len(s.objs) + 1}
          /\ b.objs[Len(s.objs) + 1] = [id |-> id, val |-> u]
          /\ \A m \in DOMAIN s.objs : b.objs[m] = s.objs[m]
          /\ DOMAIN b.pending = DOMAIN s.pending \cup {Len(s.pending) + 1}
          /\ b.pending[Len(s.pending) + 1] = Len(s.objs) + 1
      <4>1. Added(s, id, u, b)
        BY <3>1, AddRecord
      <4> QED BY <4>1 DEF Added
    <3>3. b.objs[Len(s.objs) + 1].id = id
      BY <3>2
    <3> QED BY <2>0, <3>2, <3>3 DEF id
  <2>2. CASE ~AsIssuer
    BY <2>0, <2>2
  <2> QED BY <2>1, <2>2
<1> DEFINE did == "did"
           n == Len(b.pending)
           k == Len(b.objs) + 1
           o == [id |-> did, val |-> u]
<1>2. a = AddNew(b, did, u) /\ did \in {"did", "profile"} /\ b \in Sessions(Items)
  BY <1>1
<1> HIDE DEF did
<1>3. /\ a \in Sessions(Items) /\ a.tracked = b.tracked
      /\ DOMAIN a.objs = DOMAIN b.objs \cup {k} /\ a.objs[k] = o
      /\ \A m \in DOMAIN b.objs : a.objs[m] = b.objs[m]
      /\ DOMAIN a.pending = DOMAIN b.pending \cup {n + 1} /\ a.pending[n + 1] = k
      /\ \A m \in DOMAIN b.pending : a.pending[m] = b.pending[m]
      /\ Len(a.pending) = n + 1
  <2>1. Added(b, did, u, a)
    BY <1>2, AddRecord
  <2> QED BY <2>1 DEF Added
<1>4. o = DidItem(u) /\ o.id = "did"
  BY DEF did, DidItem
<1> HIDE DEF n, k, o
<1>5. \A i \in DOMAIN a.pending :
        a.pending[i] \in DOMAIN a.objs /\ a.objs[a.pending[i]].id \in {"did", "profile"}
  BY <1>1, <1>3, <1>4
<1>6. Len(a.pending) \in DOMAIN a.pending /\ a.objs[a.pending[Len(a.pending)]] = DidItem(u)
  BY <1>3, <1>4
<1> QED BY <1>1, <1>3, <1>4, <1>5, <1>6 DEF Records

\* The record of a registration comes after its profiles, and its user is stored;
\* the user itself is stored again only if it is tracked.
LEMMA AddProfilesForm ==
  ASSUME Inv, NEW h \in Handlers, AddProfiles(h), NEW f, f = req'[h]
  PROVE  /\ Inv'
         /\ f.op = req[h].op /\ f.pc = "flush" /\ f.then = "idle"
         /\ \A i \in DOMAIN f.writing :
              f.session.objs[f.writing[i]].id \in Users => 1 \in DOMAIN req[h].session.tracked
<1> DEFINE u == local[h].user
           t == req[h].session
           b == IF AsIssuer THEN AddNew(t, "profile", u) ELSE t
           a == AddNew(b, "did", u)
           r == [req[h] EXCEPT !.session = a]
           e == <<"register", u>>
           l == local[h]
           st == store
           ins == inserted
<1>1. /\ req[h].pc = "did" /\ req' = [req EXCEPT ![h] = f] /\ UNCHANGED <<data, around, tokens, local>>
      /\ f = LogEvent(r, e, "idle")
  BY InvFacts DEF AddProfiles
<1>2. HandlerOK(req[h], l, st, ins, locks) /\ locks \in Nat
  BY InvFacts
<1>3. /\ req[h] \in Requests(Names, Items) /\ l \in Locals /\ t.pending = <<>> /\ Simple(t)
      /\ Owns(req[h], l, locks) /\ Reviewed(req[h], ins) /\ u \in Users /\ st[u] # Absent
  BY <1>1, <1>2 DEF HandlerOK, Registering
<1>4. t \in Sessions(Items) /\ req[h] \in Shape(Names, Items) /\ Sound(req[h])
  BY <1>3, RequestFacts
<1>5. Records(t, a, u)
  BY <1>3, <1>4, RecordsAdded
<1> HIDE DEF a, b
<1>6. a \in Sessions(Items) /\ a.tracked = t.tracked
      /\ \A m \in DOMAIN t.objs : m \in DOMAIN a.objs /\ a.objs[m] = t.objs[m]
  BY <1>5 DEF Records
<1>7. r \in Requests(Names, Items) /\ r.session = a
  <2>1. r \in Shape(Names, Items) /\ r.session = a /\ r.writing = req[h].writing /\ r.pc = req[h].pc
        /\ r.then = req[h].then
    BY <1>4, <1>6 DEF Shape
  <2> HIDE DEF r
  <2> QED BY <1>4, <1>6, <2>1 DEF Requests, Sound
<1>7a. r.op = req[h].op
  BY <1>4, <1>6 DEF Shape
<1> HIDE DEF r
<1>8. \A i \in DOMAIN t.tracked : t.tracked[i].obj \in DOMAIN t.objs
  BY <1>4 DEF Sessions
<1>9. Simple(a)
  BY <1>3, <1>6, <1>8 DEF Simple
<1>10. e \in Events
  BY <1>3 DEF Events
<1>11. LogForm(r, e, f)
  BY <1>1, <1>7, <1>9, <1>10, LogIs
<1> DEFINE o == AuditItem(e)
           k == Len(a.objs) + 1
           q == f.session.objs
           n == Len(a.pending)
<1>12. /\ f \in Requests(Names, Items) /\ f.pc = "flush" /\ f.then = "idle"
       /\ q = Append(a.objs, o) /\ f.session.tracked = a.tracked
       /\ \A i \in DOMAIN f.writing :
            \/ i \in DOMAIN a.pending /\ f.writing[i] = a.pending[i]
            \/ i = n + 1 /\ f.writing[i] = k
            \/ i = Len(f.writing) /\ f.writing[i] = 1 /\ 1 \in DOMAIN a.tracked
       /\ StartsWith(f.writing, Append(a.pending, k))
  BY <1>7, <1>11 DEF LogForm
<1>13. DOMAIN q = DOMAIN a.objs \cup {k} /\ q[k] = o /\ \A m \in DOMAIN a.objs : q[m] = a.objs[m]
  <2> DEFINE ao == a.objs
  <2>1. ao \in Seq(Items) /\ o \in Items
    BY <1>6, <1>10, ItemsHeld DEF Sessions
  <2> HIDE DEF o, ao, q
  <2>2. DOMAIN q = DOMAIN ao \cup {Len(q)} /\ Len(q) = Len(ao) + 1 /\ q[Len(q)] = o
        /\ \A m \in DOMAIN ao : q[m] = ao[m]
    BY <1>12, <2>1, AppendFacts DEF ao
  <2> QED BY <2>2 DEF ao
<1>14. n \in Nat /\ a.pending \in Seq(Nat) /\ k \in Nat
  BY <1>6 DEF Sessions
<1>15. \A i \in DOMAIN a.pending : i \in DOMAIN f.writing /\ f.writing[i] = a.pending[i] /\ i < n + 1
  <2> DEFINE p == Append(a.pending, k)
             ap == a.pending
  <2> HIDE DEF k
  <2>1. DOMAIN p = DOMAIN ap \cup {Len(p)} /\ (\A i \in DOMAIN ap : p[i] = ap[i])
    <3> HIDE DEF ap
    <3> QED BY <1>14, AppendFacts DEF ap
  <2>2. \A i \in DOMAIN p : i \in DOMAIN f.writing /\ f.writing[i] = p[i]
    BY <1>12 DEF StartsWith
  <2>3. \A i \in DOMAIN ap : i < n + 1
    BY <1>14
  <2> QED BY <2>1, <2>2, <2>3
<1>16. o.id = "audit" /\ o.id \notin Users /\ o = AuditItem(<<"register", u>>)
  BY RecordsAreNoUsers DEF AuditItem
<1>17. 1 \in DOMAIN a.tracked => 1 \in DOMAIN a.objs /\ q[1].id \in Users
  <2>1. \A i \in DOMAIN a.tracked : a.tracked[i].obj \in DOMAIN a.objs
    BY <1>6 DEF Sessions
  <2> QED BY <1>9, <1>13, <2>1 DEF Simple
<1>18. \A i \in DOMAIN a.pending : a.pending[i] \in DOMAIN a.objs /\ q[a.pending[i]] = a.objs[a.pending[i]]
                                   /\ q[a.pending[i]].id \in {"did", "profile"}
  BY <1>5, <1>13 DEF Records
<1>19. n \in DOMAIN a.pending /\ q[a.pending[n]] = DidItem(u)
  BY <1>5, <1>18 DEF Records
<1>20. \A m \in DOMAIN q : q[m].id \in Users => m \in DOMAIN t.objs /\ q[m] = t.objs[m]
  <2>1. SUFFICES ASSUME NEW m \in DOMAIN q, q[m].id \in Users
                 PROVE  m \in DOMAIN t.objs /\ q[m] = t.objs[m]
    OBVIOUS
  <2>2. m \in DOMAIN a.objs /\ q[m] = a.objs[m]
    BY <1>13, <1>16, <2>1
  <2>3. m \in DOMAIN t.objs
    BY <1>5, <2>1, <2>2, RecordsAreNoUsers DEF Records
  <2> QED BY <1>6, <2>2, <2>3
<1> HIDE DEF o, k, q, n
<1>21. Owns(f, l, locks) /\ Simple(f.session)
  <2>1. Owns(f, l, locks)
    BY <1>3, <1>20 DEF Owns, q
  <2>2. Simple(f.session)
    BY <1>9, <1>12, <1>17 DEF Simple, q
  <2> QED BY <2>1, <2>2
<1>22. Reviewed(f, ins)
  <2>1. ASSUME NEW m \in DOMAIN q, NEW d \in Events, Needs(q[m], d)
        PROVE  <<"audit", d>> \in ins
    <3>1. m \in DOMAIN t.objs /\ q[m] = t.objs[m]
      BY <1>20, <2>1 DEF Needs
    <3> QED BY <1>1, <1>3, <2>1, <3>1 DEF Reviewed
  <2> QED BY <2>1 DEF Reviewed, q
<1>23. Registering(f, l, st)
  BY <1>12 DEF Registering
<1>24. Ordered(f, st, ins)
  <2>1. ASSUME NEW i \in DOMAIN f.writing, NEW v \in Users, q[f.writing[i]] = AuditItem(<<"register", v>>)
        PROVE  st[v] # Absent /\ DidBefore(f, i, v)
    <3>0. q[f.writing[i]].id = "audit"
      BY <2>1 DEF AuditItem
    <3>1. CASE i \in DOMAIN a.pending /\ f.writing[i] = a.pending[i]
      BY <1>18, <3>0, <3>1
    <3>2. CASE i = n + 1 /\ f.writing[i] = k
      <4>1. v = u
        BY <1>13, <1>16, <2>1, <3>2 DEF AuditItem
      <4>2. n \in DOMAIN f.writing /\ n < i /\ q[f.writing[n]] = DidItem(v)
        BY <1>14, <1>15, <1>19, <3>2, <4>1
      <4> QED BY <1>3, <4>1, <4>2 DEF DidBefore, q
    <3>3. CASE f.writing[i] = 1 /\ 1 \in DOMAIN a.tracked
      BY <1>17, <3>0, <3>3, RecordsAreNoUsers
    <3> QED BY <1>12, <3>1, <3>2, <3>3
  <2> QED BY <2>1 DEF Ordered, q
<1>25. UserLast(f)
  <2>1. ASSUME NEW i \in DOMAIN f.writing, q[f.writing[i]].id \in Users
        PROVE  i = Len(f.writing)
    BY ZenonT(60), <1>12, <1>13, <1>16, <1>18, <2>1, RecordsAreNoUsers
  <2> QED BY <2>1 DEF UserLast, q
<1>26. HandlerOK(f, l, st, ins, locks)
  BY <1>3, <1>12, <1>21, <1>22, <1>23, <1>24, <1>25 DEF HandlerOK
<1>27. local' = [local EXCEPT ![h] = l]
  BY <1>1, InvFacts
<1>28. UNCHANGED <<store, inserted, locks>> /\ AroundOK'
  BY <1>1, InvFacts DEF data, around, AroundOK
<1>29. HandlerOK(f, l, store, inserted, locks) /\ req' = [req EXCEPT ![h] = f]
  BY <1>1, <1>26
<1> HIDE DEF l
<1>30. Inv'
  BY <1>27, <1>28, <1>29, QuietFrame
<1>31. ASSUME NEW i \in DOMAIN f.writing, q[f.writing[i]].id \in Users
       PROVE  1 \in DOMAIN t.tracked
  <2>1. CASE i \in DOMAIN a.pending /\ f.writing[i] = a.pending[i]
    BY <1>18, <1>31, <2>1, RecordsAreNoUsers
  <2>2. CASE f.writing[i] = k
    BY <1>13, <1>16, <1>31, <2>2
  <2>3. CASE 1 \in DOMAIN a.tracked
    BY <1>6, <2>3
  <2> QED BY <1>12, <2>1, <2>2, <2>3
<1>32. f.op = req[h].op
  BY <1>11, <1>7a DEF LogForm
<1> QED BY <1>12, <1>30, <1>31, <1>32 DEF q

\* The first layer, of this step.
LEMMA AddProfilesOK ==
  ASSUME Inv, NEW h \in Handlers, AddProfiles(h)
  PROVE  Inv'
BY AddProfilesForm

\* What the first layer says of a handler that is storing.
LEMMA FlushFacts ==
  ASSUME Inv, NEW h \in Handlers, req[h].pc = "flush", NEW r, r = req[h], NEW o, o = NextObject(r)
  PROVE  /\ r \in Requests(Names, Items) /\ r.pc = "flush" /\ HandlerOK(r, local[h], store, inserted, locks)
         /\ o \in Items /\ r.writing \in Seq(Nat) /\ 1 \in DOMAIN r.writing
         /\ r.writing[1] \in DOMAIN r.session.objs /\ o = r.session.objs[r.writing[1]]
         /\ Owns(r, local[h], locks) /\ Simple(r.session) /\ Reviewed(r, inserted)
         /\ Registering(r, local[h], store) /\ Ordered(r, store, inserted) /\ UserLast(r)
         /\ o.id \in Users =>
              /\ Len(r.writing) = 1 /\ o.id = local[h].user /\ o.val \in UserRecords /\ Sane(o.val, locks)
              /\ \A e \in Events : Needs(o, e) => <<"audit", e>> \in inserted
<1>1. HandlerOK(r, local[h], store, inserted, locks) /\ r \in Requests(Names, Items) /\ r.pc = "flush"
  BY InvFacts
<1>2. /\ Len(r.writing) \in Nat \ {0} /\ Head(r.writing) = r.writing[1]
      /\ r.writing[1] \in DOMAIN r.session.objs
      /\ o = r.session.objs[r.writing[1]] /\ o \in Items
  BY <1>1, NextObjectType, NamesBasic
<1>3. r.writing \in Seq(Nat) /\ 1 \in DOMAIN r.writing
  <2>1. r.writing \in Seq(Nat)
    BY <1>1, RequestFacts DEF Shape
  <2> QED BY <1>2, <2>1
<1>4. /\ Owns(r, local[h], locks) /\ Simple(r.session) /\ Reviewed(r, inserted)
      /\ Registering(r, local[h], store) /\ Ordered(r, store, inserted) /\ UserLast(r)
  BY <1>1 DEF HandlerOK
<1>5. ASSUME o.id \in Users
      PROVE  /\ Len(r.writing) = 1 /\ o.id = local[h].user /\ o.val \in UserRecords /\ Sane(o.val, locks)
             /\ \A e \in Events : Needs(o, e) => <<"audit", e>> \in inserted
  <2>1. Len(r.writing) = 1
    BY <1>2, <1>3, <1>4, <1>5 DEF UserLast
  <2>2. o.id = local[h].user /\ Sane(o.val, locks)
    BY <1>2, <1>4, <1>5 DEF Owns
  <2>3. o.val \in UserRecords
    BY <1>2, <1>5, ItemFacts
  <2>4. ASSUME NEW e \in Events, Needs(o, e) PROVE <<"audit", e>> \in inserted
    <3>1. NextObject(r) # AuditItem(e)
      BY <1>5, RecordsAreNoUsers DEF AuditItem
    <3> QED BY <1>2, <1>4, <2>4, <3>1 DEF Reviewed
  <2> QED BY <2>1, <2>2, <2>3, <2>4
<1> QED BY <1>1, <1>2, <1>3, <1>4, <1>5

\* The users and the records when the handler with request r has stored its next
\* object.
StoredBy(r, st, ins, st2, ins2) ==
  LET o == NextObject(r)
  IN  IF o.id \in Users THEN st2 = [st EXCEPT ![o.id] = o.val] /\ ins2 = ins
      ELSE ins2 = ins \cup {<<o.id, o.val>>} /\ st2 = st

\* A write leaves the database in order.
LEMMA WriteStore ==
  ASSUME Inv, NEW h \in Handlers, req[h].pc = "flush", NEW st2, NEW ins2,
         StoredBy(req[h], store, inserted, st2, ins2)
  PROVE  /\ StoreOK(st2, ins2, locks) /\ inserted \subseteq ins2
         /\ \A u \in Users : store[u] # Absent => st2[u] # Absent
<1> DEFINE r == req[h]
           o == NextObject(r)
<1>1. /\ r \in Requests(Names, Items) /\ r.pc = "flush" /\ o \in Items
      /\ o = r.session.objs[r.writing[1]] /\ Ordered(r, store, inserted)
      /\ r.writing \in Seq(Nat) /\ 1 \in DOMAIN r.writing
      /\ o.id \in Users =>
           /\ o.id = local[h].user /\ o.val \in UserRecords /\ Sane(o.val, locks)
           /\ \A e \in Events : Needs(o, e) => <<"audit", e>> \in inserted
  BY FlushFacts
<1>2. IF o.id \in Users THEN st2 = [store EXCEPT ![o.id] = o.val] /\ ins2 = inserted
      ELSE ins2 = inserted \cup {<<o.id, o.val>>} /\ st2 = store
  BY DEF StoredBy
<1> HIDE DEF o
<1>3. StoreOK(store, inserted, locks) /\ store \in [Users -> UserRecords \cup {Absent}]
  BY InvFacts DEF StoreOK
<1>4. CASE o.id \in Users
  <2>1. st2 = [store EXCEPT ![o.id] = o.val] /\ ins2 = inserted
    BY <1>2, <1>4
  <2>2. o = UserItem(o.id, o.val)
    BY <1>1, ItemFacts DEF UserItem
  <2>3. st2 \in [Users -> UserRecords \cup {Absent}] /\ o.val # Absent
    BY <1>1, <1>3, <1>4, <2>1, AbsentIsNone
  <2>4. \A u \in Users : st2[u] # Absent =>
          /\ Sane(st2[u], locks)
          /\ \A e \in Events : Needs(UserItem(u, st2[u]), e) => <<"audit", e>> \in ins2
    <3>1. SUFFICES ASSUME NEW u \in Users, st2[u] # Absent
                   PROVE  /\ Sane(st2[u], locks)
                          /\ \A e \in Events : Needs(UserItem(u, st2[u]), e) => <<"audit", e>> \in ins2
      OBVIOUS
    <3>2. CASE u = o.id
      <4>1. st2[u] = o.val
        BY <1>3, <1>4, <2>1, <3>2
      <4> QED BY <1>1, <1>4, <2>1, <2>2, <3>2, <4>1
    <3>3. CASE u # o.id
      <4>1. st2[u] = store[u]
        BY <1>3, <1>4, <2>1, <3>3
      <4> QED BY <1>3, <2>1, <3>1, <4>1 DEF StoreOK
    <3> QED BY <3>2, <3>3
  <2>5. \A u \in Users : store[u] # Absent => st2[u] # Absent
    BY <1>3, <1>4, <2>1, <2>3
  <2>6. ins2 = inserted
    BY <2>1
  <2> QED BY <1>3, <2>3, <2>4, <2>5, <2>6 DEF StoreOK
<1>5. CASE o.id \notin Users
  <2>1. ins2 = inserted \cup {<<o.id, o.val>>} /\ st2 = store
    BY <1>2, <1>5
  <2>2. ins2 \subseteq ({"audit"} \X Events) \cup ({"did", "profile"} \X Users)
    <3>1. <<o.id, o.val>> \in ({"audit"} \X Events) \cup ({"did", "profile"} \X Users)
      BY <1>1, <1>5, ItemFacts
    <3> QED BY <1>3, <2>1, <3>1 DEF StoreOK
  <2>3. ASSUME NEW u \in Users, <<"audit", <<"register", u>>>> \in ins2
        PROVE  store[u] # Absent /\ <<"did", u>> \in ins2
    <3>1. CASE <<"audit", <<"register", u>>>> \in inserted
      BY <1>3, <2>1, <3>1 DEF StoreOK
    <3>2. CASE <<"audit", <<"register", u>>>> = <<o.id, o.val>>
      <4>1. o = AuditItem(<<"register", u>>)
        <5>1. o.id = "audit" /\ o.val = <<"register", u>>
          BY <3>2
        <5> QED BY <1>1, <5>1, ItemFacts DEF AuditItem
      <4>2. ~DidBefore(r, 1, u)
        <5>1. \A j \in DOMAIN r.writing : ~(j < 1)
          BY <1>1
        <5> QED BY <5>1 DEF DidBefore
      <4> QED BY <1>1, <2>1, <4>1, <4>2 DEF Ordered
    <3> QED BY <2>1, <2>3, <3>1, <3>2
  <2>4. \A u \in Users : store[u] # Absent =>
          /\ Sane(store[u], locks)
          /\ \A e \in Events : Needs(UserItem(u, store[u]), e) => <<"audit", e>> \in ins2
    BY <1>3, <2>1 DEF StoreOK
  <2>5. locks \in 0..MaxLocks
    BY <1>3 DEF StoreOK
  <2> QED BY <1>3, <2>1, <2>2, <2>3, <2>4, <2>5 DEF StoreOK
<1> QED BY <1>4, <1>5

\* After a write the handler may go on storing, or do what comes then.
LEMMA WriteKeeps ==
  ASSUME Inv, NEW h \in Handlers, req[h].pc = "flush", NEW st2, NEW ins2,
         StoredBy(req[h], store, inserted, st2, ins2)
  PROVE  HandlerOK(AfterWrite(req[h]), local[h], st2, ins2, locks)
<1> DEFINE r == req[h]
           o == NextObject(r)
           l == local[h]
           a == AfterWrite(r)
           w == r.writing
           objs == r.session.objs
<1>1. /\ r \in Requests(Names, Items) /\ r.pc = "flush" /\ o \in Items /\ l \in Locals
      /\ w \in Seq(Nat) /\ 1 \in DOMAIN w
      /\ o = objs[w[1]] /\ Owns(r, l, locks) /\ Simple(r.session) /\ Reviewed(r, inserted)
      /\ Registering(r, l, store) /\ Ordered(r, store, inserted) /\ UserLast(r)
      /\ o.id \in Users => Len(w) = 1 /\ o.id = l.user /\ o.val \in UserRecords
  BY FlushFacts, InvFacts
<1>2. IF o.id \in Users THEN st2 = [store EXCEPT ![o.id] = o.val] /\ ins2 = inserted
      ELSE ins2 = inserted \cup {<<o.id, o.val>>} /\ st2 = store
  BY DEF StoredBy
<1>3. inserted \subseteq ins2 /\ \A u \in Users : store[u] # Absent => st2[u] # Absent
  BY WriteStore
<1>4. /\ a \in Requests(Names, Items) /\ a.session.objs = objs
      /\ \/ /\ a.pc = "flush" /\ a.then = r.then /\ a.writing = Tail(w)
            /\ a.session = r.session /\ Len(w) > 1
         \/ /\ a.pc = r.then /\ r.then # "flush" /\ Len(w) = 1
            /\ a.session.pending = <<>>
  BY <1>1, AfterWriteType, NamesBasic
<1>5. a.pc = "flush" \/ ToStore(a) = {}
  BY <1>1, WriteStores, NamesBasic
<1>6. o.id \in Users => st2[o.id] # Absent
  BY <1>1, <1>2, InvFacts, AbsentIsNone DEF StoreOK
<1> HIDE DEF a
<1>7. Owns(a, l, locks)
  BY <1>1, <1>4 DEF Owns
<1>8. Simple(a.session)
  <2>1. CASE a.session = r.session
    BY <1>1, <2>1
  <2>2. CASE a.pc # "flush"
    <3>1. DOMAIN a.session.tracked = {}
      BY <1>5, <2>2 DEF ToStore, Writable
    <3> QED BY <3>1 DEF Simple
  <2> QED BY <1>4, <2>1, <2>2
<1>9. Reviewed(a, ins2)
  <2>1. ASSUME NEW m \in DOMAIN objs, NEW e \in Events, Needs(objs[m], e)
        PROVE  <<"audit", e>> \in ins2
    <3>1. CASE <<"audit", e>> \in inserted
      BY <1>3, <3>1
    <3>2. CASE o = AuditItem(e)
      <4>1. o.id = "audit" /\ o.val = e /\ o.id \notin Users
        BY <3>2, RecordsAreNoUsers DEF AuditItem
      <4> QED BY <1>2, <4>1
    <3> QED BY <1>1, <2>1, <3>1, <3>2 DEF Reviewed
  <2> QED BY <1>4, <2>1 DEF Reviewed
<1>10. CASE /\ a.pc = "flush" /\ a.then = r.then /\ a.writing = Tail(w)
            /\ a.session = r.session /\ Len(w) > 1
  <2> DEFINE v == a.writing
  <2>1. /\ \A i \in DOMAIN v : i + 1 \in DOMAIN w /\ v[i] = w[i + 1] /\ i \in Nat
        /\ \A j \in DOMAIN w : j \in Nat /\ (j # 1 => j - 1 \in DOMAIN v /\ v[j - 1] = w[j])
    BY ZenonT(60), <1>1, <1>10, TailFacts
  <2>2. Len(v) = Len(w) - 1 /\ Len(w) \in Nat
    BY <1>1, <1>10
  <2> HIDE DEF v
  <2>3. o.id \notin Users
    <3> DEFINE n == Len(w)
    <3>1. n \in Nat /\ n > 1
      BY <1>10, <2>2
    <3> HIDE DEF n
    <3>2. n # 1
      BY <3>1
    <3> QED BY <1>1, <3>2 DEF n
  <2>4. Registering(a, l, st2)
    <3>1. ASSUME a.then = "did"
          PROVE  l.user \in Users /\ (st2[l.user] # Absent \/ \E i \in DOMAIN v : objs[v[i]].id = l.user)
      <4>1. l.user \in Users
            /\ (store[l.user] # Absent \/ \E i \in DOMAIN w : objs[w[i]].id = l.user)
        BY <1>1, <1>10, <3>1 DEF Registering
      <4>2. ASSUME NEW i \in DOMAIN w, objs[w[i]].id = l.user
            PROVE  i - 1 \in DOMAIN v /\ objs[v[i - 1]].id = l.user
        BY <1>1, <2>1, <2>3, <4>1, <4>2
      <4> QED BY <1>3, <4>1, <4>2
    <3> QED BY <1>4, <1>10, <3>1 DEF Registering, v
  <2>5. Ordered(a, st2, ins2)
    <3>1. ASSUME NEW i \in DOMAIN v, NEW u \in Users, objs[v[i]] = AuditItem(<<"register", u>>)
          PROVE  st2[u] # Absent
                 /\ (<<"did", u>> \in ins2 \/ \E j \in DOMAIN v : j < i /\ objs[v[j]] = DidItem(u))
      <4>1. store[u] # Absent /\ (<<"did", u>> \in inserted \/ DidBefore(r, i + 1, u))
        BY <1>1, <2>1, <3>1 DEF Ordered
      <4>2. ASSUME NEW j \in DOMAIN w, j < i + 1, objs[w[j]] = DidItem(u)
            PROVE  <<"did", u>> \in ins2 \/ \E k \in DOMAIN v : k < i /\ objs[v[k]] = DidItem(u)
        <5>1. CASE j = 1
          <6>1. o.id = "did" /\ o.val = u
            BY <1>1, <4>2, <5>1 DEF DidItem
          <6> QED BY <1>2, <2>3, <6>1
        <5>2. CASE j # 1
          <6>1. j - 1 \in DOMAIN v /\ objs[v[j - 1]] = DidItem(u) /\ j - 1 < i
            BY <2>1, <4>2, <5>2
          <6> QED BY <6>1
        <5> QED BY <5>1, <5>2
      <4> QED BY <1>3, <4>1, <4>2 DEF DidBefore
    <3> QED BY <1>4, <3>1 DEF Ordered, DidBefore, v
  <2>6. UserLast(a)
    <3>1. ASSUME NEW i \in DOMAIN v, objs[v[i]].id \in Users
          PROVE  i = Len(v)
      <4>1. i + 1 = Len(w)
        BY <1>1, <2>1, <3>1 DEF UserLast
      <4> QED BY <2>1, <2>2, <4>1
    <3> QED BY <1>4, <3>1 DEF UserLast, v
  <2> QED BY <1>1, <1>4, <1>7, <1>8, <1>9, <1>10, <2>4, <2>5, <2>6 DEF HandlerOK, a
<1>11. CASE a.pc = r.then /\ r.then # "flush" /\ Len(w) = 1 /\ a.session.pending = <<>>
  <2>1. Registering(a, l, st2)
    <3>1. ASSUME r.then = "did"
          PROVE  l.user \in Users /\ st2[l.user] # Absent
      <4>1. l.user \in Users
            /\ (store[l.user] # Absent \/ \E i \in DOMAIN w : objs[w[i]].id = l.user)
        BY <1>1, <3>1 DEF Registering
      <4>2. \A i \in DOMAIN w : i = 1
        BY <1>1, <1>11
      <4> QED BY <1>1, <1>3, <1>6, <4>1, <4>2
    <3> QED BY <1>11, <3>1 DEF Registering
  <2> QED BY <1>1, <1>4, <1>7, <1>8, <1>9, <1>11, <2>1 DEF HandlerOK, a
<1> QED BY <1>4, <1>10, <1>11

\* A handler that stores an object.
LEMMA WriteOK ==
  ASSUME Inv, NEW h \in Handlers, Write(h)
  PROVE  Inv'
<1> DEFINE r == req[h]
           o == NextObject(r)
           a == AfterWrite(r)
           l == local[h]
<1>1. /\ r.pc = "flush"
      /\ IF a.pc = "idle" THEN End(h) ELSE req' = [req EXCEPT ![h] = a] /\ UNCHANGED local
      /\ StoredBy(r, store, inserted, store', inserted')
      /\ UNCHANGED <<locks, otp, around>>
      /\ tokens' = {"access", "refresh"} \/ tokens' = tokens
  BY DEF Write, StoredBy, SignIn
<1>2. /\ StoreOK(store', inserted', locks) /\ inserted \subseteq inserted'
      /\ \A u \in Users : store[u] # Absent => store'[u] # Absent
  BY <1>1, WriteStore
<1>3. HandlerOK(a, l, store', inserted', locks)
  BY <1>1, WriteKeeps
<1>4. NoLocals \in Locals
  BY DEF NoLocals, Locals
<1>5. locks' = locks /\ locks <= locks' /\ locks' \in Nat /\ AroundOK' /\ StoreOK(store', inserted', locks')
  BY <1>1, <1>2, InvFacts DEF around, AroundOK
<1>6. CASE a.pc = "idle"
  <2>1. req' = [req EXCEPT ![h] = Idle] /\ local' = [local EXCEPT ![h] = NoLocals]
    BY <1>1, <1>6 DEF End
  <2>2. HandlerOK(Idle, NoLocals, store', inserted', locks')
    BY <1>4, IdleOK
  <2> QED BY <1>2, <1>5, <2>1, <2>2, Frame
<1>7. CASE a.pc # "idle"
  <2>1. req' = [req EXCEPT ![h] = a] /\ local' = [local EXCEPT ![h] = l]
    BY <1>1, <1>7, InvFacts
  <2>2. HandlerOK(a, l, store', inserted', locks')
    BY <1>3, <1>5
  <2> HIDE DEF a, l
  <2> QED BY <1>2, <1>5, <2>1, <2>2, Frame
<1> QED BY <1>6, <1>7

\* A handler that fails is forgotten.
LEMMA FailOK ==
  ASSUME Inv, NEW h \in Handlers, Fail(h)
  PROVE  Inv'
<1>1. /\ req' = [req EXCEPT ![h] = Idle] /\ local' = [local EXCEPT ![h] = NoLocals]
      /\ UNCHANGED <<store, inserted, locks>> /\ AroundOK'
  BY InvFacts DEF Fail, End, data, around, AroundOK
<1>2. NoLocals \in Locals
  BY DEF NoLocals, Locals
<1>3. HandlerOK(Idle, NoLocals, store, inserted, locks)
  BY <1>2, IdleOK
<1> QED BY <1>1, <1>3, QuietFrame

\* What the first layer says of a handler that is not storing.
LEMMA RestFacts ==
  ASSUME Inv, NEW h \in Handlers, req[h].pc # "flush", NEW r, r = req[h]
  PROVE  /\ r \in Requests(Names, Items) /\ local[h] \in Locals /\ r \in Shape(Names, Items) /\ Sound(r)
         /\ Owns(r, local[h], locks) /\ Simple(r.session) /\ r.session.pending = <<>>
         /\ \A m \in DOMAIN r.session.objs : \A e \in Events :
              Needs(r.session.objs[m], e) => <<"audit", e>> \in inserted
<1>1. HandlerOK(r, local[h], store, inserted, locks)
  BY InvFacts
<1> QED BY <1>1, RequestFacts DEF HandlerOK, Reviewed

\* A handler under another name is the same request.
LEMMA RenamedRequest ==
  ASSUME NEW r \in Requests(Names, Items), NEW op \in Names, NEW q, q = [r EXCEPT !.op = op]
  PROVE  /\ q \in Requests(Names, Items) /\ q.session = r.session /\ q.op = op /\ q.pc = r.pc
         /\ q.then = r.then /\ q.writing = r.writing
<1>1. r \in Shape(Names, Items) /\ Sound(r)
  BY RequestFacts
<1>2. q \in Shape(Names, Items) /\ q.session = r.session /\ q.op = op /\ q.pc = r.pc
      /\ q.then = r.then /\ q.writing = r.writing
  BY <1>1 DEF Shape
<1> QED BY <1>1, <1>2 DEF Requests, Sound

\* A handler that is not storing goes on to log an event that needs nothing.
LEMMA LoggingOK ==
  ASSUME Inv, NEW h \in Handlers, req[h].pc # "flush", NEW op \in Names,
         NEW q, q = req[h] \/ q = [req[h] EXCEPT !.op = op],
         NEW l \in Locals, l.user = local[h].user,
         NEW e \in Events, \A u \in Users : e # <<"register", u>>,
         NEW f, f = LogEvent(q, e, "idle")
  PROVE  HandlerOK(f, l, store, inserted, locks)
<1> DEFINE r == req[h]
           st == store
           ins == inserted
           n == locks
<1>1. /\ r \in Requests(Names, Items) /\ Owns(r, local[h], n) /\ Simple(r.session)
      /\ r.session.pending = <<>>
      /\ \A m \in DOMAIN r.session.objs : \A d \in Events :
              Needs(r.session.objs[m], d) => <<"audit", d>> \in ins
  BY RestFacts
<1>2. q \in Requests(Names, Items) /\ q.session = r.session
  BY <1>1, RenamedRequest
<1> HIDE DEF r, st, ins, n
<1>3. Owns(q, l, n)
  BY <1>1, <1>2 DEF Owns
<1>4. HandlerOK(f, l, st, ins, n)
  BY <1>1, <1>2, <1>3, LogOK
<1> QED BY <1>4 DEF st, ins, n

\* Reaching a place for challenges.
LEMMA ReachesOK ==
  ASSUME Inv, NEW h \in Handlers, NEW place, Reaches(h, place)
  PROVE  client' \in [Processes -> {"unknown", "redis", "memory"}]
BY InvFacts, NamesAssumption DEF Reaches, Reached, AroundOK

\* The events of the sign-ins and of the challenges.
LEMMA EventsOK ==
  /\ Routine \in Events /\ \A u \in Users : Routine # <<"register", u>>
  /\ \A t \in Challenges : <<"challenge", t>> \in Events /\ \A u \in Users : <<"challenge", t>> # <<"register", u>>
  /\ \A s \in Secrets : <<"enable", s>> \in Events /\ \A u \in Users : <<"enable", s>> # <<"register", u>>
  /\ \A k \in Nat : <<"lock", k>> \in Events /\ \A u \in Users : <<"lock", k>> # <<"register", u>>
BY DEF Events, Routine

\* A login without MFA.
LEMMA GrantOK ==
  ASSUME Inv, NEW h \in Handlers, Grant(h)
  PROVE  Inv'
<1> DEFINE f == LogEvent([req[h] EXCEPT !.op = "sign_in"], Routine, "idle")
           l == local[h]
<1>1. /\ req[h].pc # "flush" /\ req' = [req EXCEPT ![h] = f] /\ local' = [local EXCEPT ![h] = l]
      /\ UNCHANGED <<store, inserted, locks>> /\ AroundOK' /\ l \in Locals
  BY InvFacts DEF Grant, data, around, AroundOK
<1>2. "sign_in" \in Names
  BY DEF Names
<1>3. HandlerOK(f, l, store, inserted, locks)
  BY <1>1, <1>2, EventsOK, LoggingOK
<1> HIDE DEF f, l
<1> QED BY <1>1, <1>3, QuietFrame

\* A challenge for a login with MFA.
LEMMA IssueChallengeOK ==
  ASSUME Inv, NEW h \in Handlers, IssueChallenge(h)
  PROVE  Inv'
<1>1. PICK t \in Challenges, place \in {"redis"} \cup Processes :
        /\ Reaches(h, place) /\ otp' = [otp EXCEPT ![t] = place]
        /\ local' = [local EXCEPT ![h].challenge = t]
        /\ req' = [req EXCEPT ![h] = LogEvent(@, <<"challenge", t>>, "idle")]
  BY DEF IssueChallenge
<1> DEFINE e == <<"challenge", t>>
           f == LogEvent(req[h], e, "idle")
           l == [local[h] EXCEPT !.challenge = t]
<1>2. /\ req[h].pc # "flush" /\ req' = [req EXCEPT ![h] = f] /\ local' = [local EXCEPT ![h] = l]
      /\ UNCHANGED <<store, inserted, locks, over, tokens>>
  BY <1>1, InvFacts DEF IssueChallenge
<1>3. l \in Locals /\ l.user = local[h].user
  BY InvFacts DEF Locals
<1>4. AroundOK'
  <2>1. otp' \in [Challenges -> {Nowhere, "redis"} \cup Processes]
    BY <1>1, InvFacts DEF AroundOK
  <2> QED BY <1>1, <1>2, <2>1, ReachesOK, InvFacts DEF AroundOK
<1>5. e \in Events /\ \A u \in Users : e # <<"register", u>>
  BY EventsOK
<1>6. "idle" \in Names
  BY DEF Names, Basic
<1> HIDE DEF e, l
<1>7. HandlerOK(f, l, store, inserted, locks)
  BY <1>2, <1>3, <1>5, <1>6, LoggingOK
<1> HIDE DEF f
<1> QED BY <1>2, <1>4, <1>7, QuietFrame

\* A challenge is used.
LEMMA DeleteChallengeOK ==
  ASSUME Inv, NEW h \in Handlers, DeleteChallenge(h)
  PROVE  Inv'
<1> DEFINE t == local[h].challenge
           f == LogEvent([req[h] EXCEPT !.op = "sign_in"], Routine, "idle")
           l == local[h]
<1>1. PICK place \in {"redis"} \cup Processes : Reaches(h, place) /\ otp' = Forgotten(t, place)
  BY DEF DeleteChallenge
<1>2. /\ req[h].pc # "flush" /\ req' = [req EXCEPT ![h] = f] /\ local' = [local EXCEPT ![h] = l]
      /\ UNCHANGED <<store, inserted, locks, over, tokens>> /\ l \in Locals
  BY InvFacts DEF DeleteChallenge
<1>3. AroundOK'
  <2>1. otp' \in [Challenges -> {Nowhere, "redis"} \cup Processes]
    BY <1>1, InvFacts DEF AroundOK, Forgotten
  <2> QED BY <1>1, <1>2, <2>1, ReachesOK, InvFacts DEF AroundOK
<1>4. "sign_in" \in Names
  BY DEF Names
<1>5. HandlerOK(f, l, store, inserted, locks)
  BY <1>2, <1>4, EventsOK, LoggingOK
<1> HIDE DEF f, l
<1> QED BY <1>2, <1>3, <1>5, QuietFrame

\* The record of setup_mfa.
LEMMA LogSetupOK ==
  ASSUME Inv, NEW h \in Handlers, LogSetup(h)
  PROVE  Inv'
<1> DEFINE f == LogEvent(req[h], Routine, "idle")
           l == local[h]
<1>1. /\ req[h].pc # "flush" /\ req' = [req EXCEPT ![h] = f] /\ local' = [local EXCEPT ![h] = l]
      /\ UNCHANGED <<store, inserted, locks>> /\ AroundOK' /\ l \in Locals
  BY InvFacts DEF LogSetup, data, around, AroundOK
<1>2. "idle" \in Names
  BY DEF Names, Basic
<1>3. HandlerOK(f, l, store, inserted, locks)
  BY <1>1, <1>2, EventsOK, LoggingOK
<1> HIDE DEF f, l
<1> QED BY <1>1, <1>3, QuietFrame

\* A handler that has read a user holds nothing else.
LEMMA ReadHolds ==
  ASSUME NEW u \in Users, store[u] \in UserRecords, NEW v \in UserRecords, NEW n, Sane(v, n),
         NEW op \in Names, op # "flush", NEW l, l.user = u, NEW r, r = Read(u, op, v)
  PROVE  /\ r \in Requests(Names, Items) /\ r.op = op /\ r.pc = op
         /\ Owns(r, l, n) /\ Simple(r.session) /\ r.session.pending = <<>>
         /\ \A m \in DOMAIN r.session.objs : r.session.objs[m] = UserItem(u, v)
<1>1. /\ r \in Requests(Names, Items) /\ r.op = op /\ r.pc = op
      /\ \A m \in DOMAIN r.session.objs : m = 1 /\ r.session.objs[m] = UserItem(u, v)
      /\ r.session.pending = <<>> /\ Simple(r.session)
  BY ReadFacts
<1>2. Owns(r, l, n)
  BY <1>1 DEF Owns, UserItem
<1> QED BY <1>1, <1>2

\* Whose copy of a stored user needs nothing new may flush it.
LEMMA ReadFlushOK ==
  ASSUME Inv, NEW u \in Users, Stored(u), NEW v \in UserRecords, Sane(v, locks),
         v.locked \in {0, store[u].locked}, v.mfa => store[u].mfa /\ v.secret = store[u].secret,
         NEW op \in Names, op # "flush", NEW pc \in Names \ {"flush", "did"},
         NEW l \in Locals, l.user = u
  PROVE  HandlerOK(Flush(Read(u, op, v), pc), l, store, inserted, locks)
<1> DEFINE w == store[u]
           o == UserItem(u, v)
           r == Read(u, op, v)
           n == locks
           st == store
           ins == inserted
<1>1. w \in UserRecords /\ \A e \in Events : Needs(UserItem(u, w), e) => <<"audit", e>> \in ins
  BY InvFacts DEF Stored
<1>2. /\ r \in Requests(Names, Items) /\ Owns(r, l, n) /\ Simple(r.session) /\ r.session.pending = <<>>
      /\ \A m \in DOMAIN r.session.objs : r.session.objs[m] = o
  BY <1>1, ReadHolds
<1>3. ASSUME NEW e \in Events, Needs(o, e) PROVE <<"audit", e>> \in ins
  <2>1. Needs(UserItem(u, w), e)
    BY <1>3 DEF Needs, UserItem
  <2> QED BY <1>1, <2>1
<1> HIDE DEF r, o, n, st, ins
<1>4. \A m \in DOMAIN r.session.objs : \A d \in Events :
        Needs(r.session.objs[m], d) => <<"audit", d>> \in ins
  BY <1>2, <1>3
<1>5. HandlerOK(Flush(r, pc), l, st, ins, n)
  BY <1>2, <1>4, FlushOK
<1> QED BY <1>5 DEF r, n, st, ins

\* Whose copy of a stored user needs one new event logs that.
LEMMA ReadLogOK ==
  ASSUME Inv, NEW u \in Users, Stored(u), NEW v \in UserRecords, NEW n \in Nat, Sane(v, n),
         NEW op \in Names, op # "flush", NEW l \in Locals, l.user = u,
         NEW e \in Events, \A x \in Users : e # <<"register", x>>,
         v.locked = store[u].locked \/ e = <<"lock", v.locked>>,
         v.mfa => v.secret = store[u].secret /\ (store[u].mfa \/ e = <<"enable", v.secret>>)
  PROVE  HandlerOK(LogEvent(Read(u, op, v), e, "idle"), l, store, inserted, n)
<1> DEFINE w == store[u]
           o == UserItem(u, v)
           r == Read(u, op, v)
           st == store
           ins == inserted
<1>1. w \in UserRecords /\ \A d \in Events : Needs(UserItem(u, w), d) => <<"audit", d>> \in ins
  BY InvFacts DEF Stored
<1>2. /\ r \in Requests(Names, Items) /\ Owns(r, l, n) /\ Simple(r.session) /\ r.session.pending = <<>>
      /\ \A m \in DOMAIN r.session.objs : r.session.objs[m] = o
  BY <1>1, ReadHolds
<1>3. ASSUME NEW d \in Events, Needs(o, d) PROVE <<"audit", d>> \in ins \/ d = e
  <2>1. Needs(UserItem(u, w), d) \/ d = e
    BY <1>3 DEF Needs, UserItem
  <2> QED BY <1>1, <2>1
<1> HIDE DEF r, o, st, ins
<1>4. \A m \in DOMAIN r.session.objs : \A d \in Events :
        Needs(r.session.objs[m], d) => <<"audit", d>> \in ins \/ d = e
  BY <1>2, <1>3
<1>5. HandlerOK(LogEvent(r, e, "idle"), l, st, ins, n)
  BY <1>2, <1>4, LogOK
<1> QED BY <1>5 DEF r, st, ins

\* The local variables of a handler that begins.
LEMMA LocalsOK ==
  /\ \A u \in Users : [NoLocals EXCEPT !.user = u] \in Locals /\ [NoLocals EXCEPT !.user = u].user = u
  /\ \A t \in Challenges : [NoLocals EXCEPT !.challenge = t] \in Locals
BY DEF NoLocals, Locals

\* Whether a wrong password locks the account of w, and what it leaves of it.
Locking(w) == w.attempts + 1 >= MaxAttempts
Attempted(w, k) ==
  IF Locking(w) THEN [w EXCEPT !.attempts = @ + 1, !.locked = k] ELSE [w EXCEPT !.attempts = @ + 1]

\* It is a user still.
LEMMA AttemptedFacts ==
  ASSUME NEW w \in UserRecords, NEW n \in Nat, Sane(w, n), NEW v, v = Attempted(w, n + 1)
  PROVE  /\ v \in UserRecords /\ v.attempts = w.attempts + 1 /\ v.mfa = w.mfa /\ v.secret = w.secret
         /\ Locking(w) => v.locked = n + 1 /\ Sane(v, n + 1)
         /\ ~Locking(w) => v.locked = w.locked /\ Sane(v, n) /\ v.attempts < MaxAttempts
<1> DEFINE k == n + 1
           c == w.attempts + 1
           x == [w EXCEPT !.attempts = c, !.locked = k]
           y == [w EXCEPT !.attempts = c]
<1>1. w.attempts \in Nat /\ w.locked \in Nat /\ c \in Nat /\ k \in Nat
  BY DEF UserRecords
<1>2. (Locking(w) => v = x) /\ (~Locking(w) => v = y)
  BY DEF Attempted, UserRecords
<1> HIDE DEF k, c
<1>3. /\ x \in UserRecords /\ x.attempts = c /\ x.mfa = w.mfa /\ x.secret = w.secret /\ x.locked = k
      /\ y \in UserRecords /\ y.attempts = c /\ y.mfa = w.mfa /\ y.secret = w.secret /\ y.locked = w.locked
  BY <1>1 DEF UserRecords
<1> HIDE DEF x, y
<1>4. w.attempts < MaxAttempts + n /\ w.locked <= n /\ (w.mfa => w.secret \in Secrets)
  BY DEF Sane
<1>5. ASSUME Locking(w) PROVE Sane(v, k)
  <2>1. c < MaxAttempts + k /\ k <= k
    BY <1>1, <1>4, LockoutAssumption DEF c, k
  <2> QED BY <1>2, <1>3, <1>4, <1>5, <2>1 DEF Sane
<1>6. ASSUME ~Locking(w) PROVE Sane(v, n) /\ c < MaxAttempts
  <2>1. c < MaxAttempts /\ c < MaxAttempts + n
    BY <1>1, <1>6, LockoutAssumption DEF c, Locking
  <2> QED BY <1>2, <1>3, <1>4, <1>6, <2>1 DEF Sane
<1> QED BY <1>2, <1>3, <1>5, <1>6 DEF k, c

\* What WrongPassword does, in these words.
LEMMA WrongFacts ==
  ASSUME Inv, NEW h \in Handlers, NEW u \in Users, WrongPassword(h, u),
         NEW w, w = store[u], NEW n, n = locks, NEW v, v = Attempted(w, n + 1)
  PROVE  /\ w \in UserRecords /\ Stored(u) /\ w.locked <= over /\ n \in Nat
         /\ v \in UserRecords /\ v.attempts = w.attempts + 1 /\ v.mfa = w.mfa /\ v.secret = w.secret
         /\ Locking(w) =>
              /\ v.locked = n + 1 /\ Sane(v, n + 1) /\ n < MaxLocks /\ locks' = n + 1
              /\ Begin(h, LogEvent(Read(u, "fail", v), <<"lock", n + 1>>, "idle"), [NoLocals EXCEPT !.user = u])
         /\ ~Locking(w) =>
              /\ v.locked = w.locked /\ Sane(v, n) /\ v.attempts < MaxAttempts /\ locks' = n
              /\ Begin(h, Flush(Read(u, "fail", v), "idle"), [NoLocals EXCEPT !.user = u])
         /\ UNCHANGED <<store, inserted, otp, around, tokens, history>>
<1> DEFINE counted == [store[u] EXCEPT !.attempts = @ + 1]
           last == [counted EXCEPT !.locked = locks + 1]
<1>1. Stored(u) /\ ~Refused(store[u], FALSE)
  BY DEF WrongPassword
<1>2. w \in UserRecords /\ n \in Nat /\ Sane(w, n)
  BY <1>1, InvFacts DEF Stored
<1>3. w.attempts \in Nat /\ w.locked \in Nat
  BY <1>2 DEF UserRecords
<1>4. counted.attempts = w.attempts + 1
  BY <1>2 DEF UserRecords
<1>5. Locks(counted.attempts) <=> Locking(w)
  BY <1>4 DEF Locks, Locking
<1>6. (Locking(w) => v = last) /\ (~Locking(w) => v = counted)
  BY <1>2 DEF Attempted, UserRecords
<1> HIDE DEF counted, last
<1>7. ASSUME Locking(w)
      PROVE  /\ n < MaxLocks /\ locks' = n + 1
             /\ Begin(h, LogEvent(Read(u, "fail", v), <<"lock", n + 1>>, "idle"), [NoLocals EXCEPT !.user = u])
  BY <1>5, <1>6, <1>7 DEF WrongPassword, counted, last
<1>8. ASSUME ~Locking(w)
      PROVE  locks' = n /\ Begin(h, Flush(Read(u, "fail", v), "idle"), [NoLocals EXCEPT !.user = u])
  BY <1>5, <1>6, <1>8 DEF WrongPassword, counted, last
<1>9. w.locked <= over
  <2>1. over \in Nat
    BY InvFacts DEF AroundOK
  <2> QED BY <1>1, <1>3, <2>1 DEF Refused
<1>10. UNCHANGED <<store, inserted, otp, around, tokens, history>>
  BY DEF WrongPassword
<1>11. /\ v \in UserRecords /\ v.attempts = w.attempts + 1 /\ v.mfa = w.mfa /\ v.secret = w.secret
       /\ Locking(w) => v.locked = n + 1 /\ Sane(v, n + 1)
       /\ ~Locking(w) => v.locked = w.locked /\ Sane(v, n) /\ v.attempts < MaxAttempts
  BY <1>2, AttemptedFacts
<1> QED BY <1>1, <1>2, <1>7, <1>8, <1>9, <1>10, <1>11

\* The database is in order whatever locks have been set since.
LEMMA MoreLocks ==
  ASSUME NEW st, NEW ins, NEW n, NEW k \in 0..MaxLocks, StoreOK(st, ins, n), n <= k
  PROVE  StoreOK(st, ins, k)
<1>1. \A u \in Users : st[u] # Absent => Sane(st[u], k)
  <2>1. SUFFICES ASSUME NEW u \in Users, st[u] # Absent PROVE Sane(st[u], k)
    OBVIOUS
  <2>2. st[u] \in UserRecords /\ Sane(st[u], n) /\ n \in 0..MaxLocks
    BY <2>1 DEF StoreOK
  <2> DEFINE v == st[u]
  <2> HIDE DEF v
  <2>3. v.attempts \in Nat /\ v.locked \in Nat /\ Sane(v, n) /\ n \in Nat /\ k \in Nat
    BY <2>2, LockoutAssumption DEF v, UserRecords
  <2>4. Sane(v, k)
    BY <2>3, LockoutAssumption DEF Sane
  <2> QED BY <2>4 DEF v
<1> QED BY <1>1 DEF StoreOK

\* A login with a wrong password.
LEMMA WrongOK ==
  ASSUME Inv, NEW h \in Handlers, NEW u \in Users, WrongPassword(h, u)
  PROVE  Inv'
<1> DEFINE w == store[u]
           n == locks
           v == Attempted(w, n + 1)
           e == <<"lock", n + 1>>
           l == [NoLocals EXCEPT !.user = u]
           op == "fail"
           pc == "idle"
           f == LogEvent(Read(u, op, v), e, pc)
           g == Flush(Read(u, op, v), pc)
<1>1. /\ w \in UserRecords /\ Stored(u) /\ n \in Nat
      /\ v \in UserRecords /\ v.attempts = w.attempts + 1 /\ v.mfa = w.mfa /\ v.secret = w.secret
      /\ Locking(w) =>
           v.locked = n + 1 /\ Sane(v, n + 1) /\ n < MaxLocks /\ locks' = n + 1 /\ Begin(h, f, l)
      /\ ~Locking(w) =>
           v.locked = w.locked /\ Sane(v, n) /\ locks' = n /\ Begin(h, g, l)
      /\ UNCHANGED <<store, inserted, otp, around, tokens, history>>
  BY WrongFacts
<1>2. l \in Locals /\ l.user = u
  BY LocalsOK
<1>3. op \in Names /\ op # "flush" /\ pc \in Names \ {"flush", "did"}
  BY DEF Names, Basic
<1>4. /\ locks' \in 0..MaxLocks /\ locks <= locks' /\ locks' \in Nat
      /\ StoreOK(store', inserted', locks') /\ AroundOK'
  <2>1. n \in 0..MaxLocks /\ StoreOK(store, inserted, n) /\ n \in Nat /\ MaxLocks \in Nat
    BY InvFacts, LockoutAssumption
  <2>2. locks' \in 0..MaxLocks /\ n <= locks'
    <3>1. locks' = n \/ (locks' = n + 1 /\ n < MaxLocks)
      BY <1>1
    <3> QED BY <2>1, <3>1
  <2>3. StoreOK(store, inserted, locks')
    BY <2>1, <2>2, MoreLocks
  <2>4. AroundOK'
    <3>1. over' \in 0..locks'
      <4>1. over \in 0..n /\ over' = over
        BY <1>1, InvFacts DEF AroundOK, around
      <4> QED BY <2>1, <2>2, <4>1
    <3> QED BY <1>1, <3>1, InvFacts DEF AroundOK, around
  <2> QED BY <1>1, <2>1, <2>2, <2>3, <2>4
<1>5. inserted \subseteq inserted' /\ (\A x \in Users : store[x] # Absent => store'[x] # Absent)
      /\ store' = store /\ inserted' = inserted
  BY <1>1
<1> HIDE DEF v, l
<1>6. ASSUME Locking(w) PROVE Inv'
  <2>1. /\ req' = [req EXCEPT ![h] = f] /\ local' = [local EXCEPT ![h] = l]
        /\ Sane(v, n + 1) /\ v.locked = n + 1 /\ locks' = n + 1
    BY <1>1, <1>6 DEF Begin
  <2>2. e \in Events /\ n + 1 \in Nat /\ \A x \in Users : e # <<"register", x>>
    BY <1>1, EventsOK
  <2>3. e = <<"lock", v.locked>> /\ (v.mfa => v.secret = store[u].secret /\ store[u].mfa)
    BY <1>1, <2>1
  <2> DEFINE k == n + 1
  <2>4. k \in Nat /\ locks' = k /\ Sane(v, k)
    BY <2>1, <2>2
  <2> HIDE DEF op, k, e
  <2>5. HandlerOK(LogEvent(Read(u, op, v), e, "idle"), l, store, inserted, k)
    BY <1>1, <1>2, <1>3, <2>2, <2>3, <2>4, ReadLogOK
  <2>6. HandlerOK(f, l, store', inserted', locks')
    BY <1>5, <2>4, <2>5
  <2> HIDE DEF f
  <2> QED BY <1>4, <1>5, <2>1, <2>6, Frame
<1>7. ASSUME ~Locking(w) PROVE Inv'
  <2>1. /\ req' = [req EXCEPT ![h] = g] /\ local' = [local EXCEPT ![h] = l]
        /\ Sane(v, locks) /\ v.locked = w.locked /\ locks' = locks
    BY <1>1, <1>7 DEF Begin
  <2>2. v.locked \in {0, store[u].locked} /\ (v.mfa => store[u].mfa /\ v.secret = store[u].secret)
    BY <1>1, <2>1
  <2> HIDE DEF op, pc
  <2>3. HandlerOK(Flush(Read(u, op, v), pc), l, store, inserted, locks)
    BY <1>1, <1>2, <1>3, <2>1, <2>2, ReadFlushOK
  <2>4. HandlerOK(g, l, store', inserted', locks')
    BY <1>5, <2>1, <2>3
  <2> HIDE DEF g
  <2> QED BY <1>4, <1>5, <2>1, <2>4, Frame
<1> QED BY <1>6, <1>7

\* A handler that begins without setting a lock.
LEMMA BeginOK ==
  ASSUME Inv, NEW h \in Handlers, NEW r, NEW l, Begin(h, r, l),
         HandlerOK(r, l, store, inserted, locks), UNCHANGED <<store, inserted, locks>>, AroundOK'
  PROVE  Inv'
<1>1. req' = [req EXCEPT ![h] = r] /\ local' = [local EXCEPT ![h] = l]
  BY DEF Begin
<1> QED BY <1>1, QuietFrame

\* What a right password leaves of the account: no attempt and no lock.
LEMMA ClearedFacts ==
  ASSUME NEW w \in UserRecords, NEW n \in Nat, Sane(w, n), NEW v, v = [w EXCEPT !.attempts = 0, !.locked = 0]
  PROVE  /\ v \in UserRecords /\ v.attempts = 0 /\ v.locked = 0 /\ v.mfa = w.mfa /\ v.secret = w.secret
         /\ Sane(v, n)
<1>1. v \in UserRecords /\ v.attempts = 0 /\ v.locked = 0 /\ v.mfa = w.mfa /\ v.secret = w.secret
  BY DEF UserRecords
<1>2. Sane(v, n)
  BY <1>1, LockoutAssumption DEF Sane
<1> QED BY <1>1, <1>2

\* A login with a right password.
LEMMA RightOK ==
  ASSUME Inv, NEW h \in Handlers, NEW u \in Users, RightPassword(h, u)
  PROVE  Inv'
<1> DEFINE w == store[u]
           v == [w EXCEPT !.attempts = 0, !.locked = 0]
           l == [NoLocals EXCEPT !.user = u]
           op == "login"
           pc == "granted"
           f == Flush(Read(u, op, v), pc)
<1>1. Stored(u) /\ Begin(h, f, l) /\ UNCHANGED <<store, inserted, locks>> /\ AroundOK'
  BY InvFacts DEF RightPassword, data, around, AroundOK
<1>2. w \in UserRecords /\ Sane(w, locks) /\ locks \in Nat
  BY <1>1, InvFacts DEF Stored
<1>3. v \in UserRecords /\ v.locked = 0 /\ v.mfa = w.mfa /\ v.secret = w.secret /\ Sane(v, locks)
  <2>1. v = [w EXCEPT !.attempts = 0, !.locked = 0]
    OBVIOUS
  <2> HIDE DEF v, w
  <2> QED BY <1>2, <2>1, ClearedFacts
<1>4. op \in Names /\ op # "flush" /\ pc \in Names \ {"flush", "did"}
  BY DEF Names
<1>5. l \in Locals /\ l.user = u
  BY LocalsOK
<1> HIDE DEF v, l, op, pc
<1>6. HandlerOK(Flush(Read(u, op, v), pc), l, store, inserted, locks)
  BY <1>1, <1>3, <1>4, <1>5, ReadFlushOK
<1> HIDE DEF f
<1> QED BY <1>1, <1>6, BeginOK DEF f

\* setup_mfa.
LEMMA SetupOK ==
  ASSUME Inv, NEW h \in Handlers, NEW u \in Users, Setup(h, u)
  PROVE  Inv'
<1>1. PICK s \in Secrets :
        Begin(h, Flush(Read(u, "setup", [store[u] EXCEPT !.secret = s, !.mfa = FALSE]), "log"),
              [NoLocals EXCEPT !.user = u])
  BY DEF Setup
<1> DEFINE w == store[u]
           v == [w EXCEPT !.secret = s, !.mfa = FALSE]
           l == [NoLocals EXCEPT !.user = u]
           op == "setup"
           pc == "log"
           f == Flush(Read(u, op, v), pc)
<1>2. Stored(u) /\ Begin(h, f, l) /\ UNCHANGED <<store, inserted, locks>> /\ AroundOK'
  BY <1>1, InvFacts DEF Setup, Authenticated, data, around, AroundOK
<1>3. w \in UserRecords /\ Sane(w, locks) /\ locks \in Nat
  BY <1>2, InvFacts DEF Stored
<1>4. v \in UserRecords /\ v.locked = w.locked /\ ~v.mfa /\ Sane(v, locks)
  <2>1. v \in UserRecords /\ v.attempts = w.attempts /\ v.locked = w.locked /\ ~v.mfa
    BY <1>3 DEF UserRecords
  <2> HIDE DEF v
  <2> QED BY <1>3, <2>1 DEF Sane
<1>5. op \in Names /\ op # "flush" /\ pc \in Names \ {"flush", "did"}
  BY DEF Names
<1>6. l \in Locals /\ l.user = u
  BY LocalsOK
<1> HIDE DEF v, l, op, pc
<1>7. HandlerOK(Flush(Read(u, op, v), pc), l, store, inserted, locks)
  BY <1>2, <1>4, <1>5, <1>6, ReadFlushOK
<1> HIDE DEF f
<1> QED BY <1>2, <1>7, BeginOK DEF f

\* What enable_mfa leaves of an account whose secret the code was for.
LEMMA EnableFacts ==
  ASSUME NEW w \in UserRecords, NEW n \in Nat, Sane(w, n), w.secret \in Secrets,
         NEW v, v = [w EXCEPT !.mfa = TRUE]
  PROVE  /\ v \in UserRecords /\ v.attempts = w.attempts /\ v.locked = w.locked /\ v.mfa /\ v.secret = w.secret
         /\ Sane(v, n)
<1>1. v \in UserRecords /\ v.attempts = w.attempts /\ v.locked = w.locked /\ v.mfa /\ v.secret = w.secret
  BY DEF UserRecords
<1>2. Sane(v, n)
  BY <1>1 DEF Sane
<1> QED BY <1>1, <1>2

\* enable_mfa.
LEMMA EnableOK ==
  ASSUME Inv, NEW h \in Handlers, NEW u \in Users, Enable(h, u)
  PROVE  Inv'
<1>1. PICK code \in Secrets :
        /\ Accepted(store[u], code)
        /\ Begin(h, LogEvent(Read(u, "enable", [store[u] EXCEPT !.mfa = TRUE]), <<"enable", code>>, "idle"),
                 [NoLocals EXCEPT !.user = u])
  BY DEF Enable
<1> DEFINE w == store[u]
           v == [w EXCEPT !.mfa = TRUE]
           l == [NoLocals EXCEPT !.user = u]
           op == "enable"
           e == <<"enable", code>>
           n == locks
           f == LogEvent(Read(u, op, v), e, "idle")
<1>2. Stored(u) /\ Begin(h, f, l) /\ UNCHANGED <<store, inserted, locks>> /\ AroundOK'
  BY <1>1, InvFacts DEF Enable, Authenticated, data, around, AroundOK
<1>3. w \in UserRecords /\ Sane(w, n) /\ n \in Nat
  BY <1>2, InvFacts DEF Stored
<1>4. v \in UserRecords /\ v.locked = w.locked /\ v.secret = w.secret /\ Sane(v, n) /\ w.secret = code
  BY <1>1, <1>3, EnableFacts DEF Accepted
<1>5. op \in Names /\ op # "flush"
  BY DEF Names
<1>6. l \in Locals /\ l.user = u
  BY LocalsOK
<1>7. e \in Events /\ (\A x \in Users : e # <<"register", x>>) /\ e = <<"enable", v.secret>>
  BY <1>4, EventsOK
<1> HIDE DEF v, l, op, e
<1>8. v.mfa => v.secret = store[u].secret /\ (store[u].mfa \/ e = <<"enable", v.secret>>)
  BY <1>4, <1>7
<1>9. HandlerOK(LogEvent(Read(u, op, v), e, "idle"), l, store, inserted, n)
  BY <1>2, <1>3, <1>4, <1>5, <1>6, <1>7, <1>8, ReadLogOK
<1> HIDE DEF f
<1> QED BY <1>2, <1>9, BeginOK DEF f

\* A code is checked: the user is read.
LEMMA CheckOK ==
  ASSUME Inv, NEW h \in Handlers, NEW u \in Users, CheckCode(h, u)
  PROVE  Inv'
<1> DEFINE w == store[u]
           op == "otp"
           q == Read(u, op, w)
           r == [q EXCEPT !.pc = "delete"]
           l == [local[h] EXCEPT !.user = u]
           n == locks
           st == store
           ins == inserted
<1>1. /\ Stored(u) /\ req' = [req EXCEPT ![h] = r] /\ local' = [local EXCEPT ![h] = l]
      /\ UNCHANGED <<store, inserted, locks>> /\ AroundOK'
  BY InvFacts DEF CheckCode, data, around, AroundOK
<1>2. /\ w \in UserRecords /\ Sane(w, n)
      /\ \A e \in Events : Needs(UserItem(u, w), e) => <<"audit", e>> \in ins
  BY <1>1, InvFacts DEF Stored
<1>3. op \in Names /\ op # "flush"
  BY DEF Names
<1>4. l \in Locals /\ l.user = u
  BY InvFacts DEF Locals
<1> HIDE DEF l, op, n, ins
<1>5. /\ q \in Requests(Names, Items) /\ q.pc = op
      /\ Owns(q, l, n) /\ Simple(q.session) /\ q.session.pending = <<>>
      /\ \A m \in DOMAIN q.session.objs : q.session.objs[m] = UserItem(u, w)
  BY <1>2, <1>3, <1>4, ReadHolds
<1> HIDE DEF q
<1>6. r \in Requests(Names, Items) /\ r.session = q.session /\ r.pc = "delete"
  <2>1. q \in Shape(Names, Items) /\ Sound(q)
    BY <1>5, RequestFacts
  <2>2. r \in Shape(Names, Items) /\ r.session = q.session /\ r.pc = "delete" /\ r.writing = q.writing
    BY <2>1 DEF Shape, Names
  <2> QED BY <2>1, <2>2 DEF Requests, Sound
<1> HIDE DEF r
<1>7. Owns(r, l, n) /\ Reviewed(r, ins) /\ Registering(r, l, st)
  <2>1. Owns(r, l, n)
    BY <1>5, <1>6 DEF Owns
  <2>2. Reviewed(r, ins)
    BY <1>2, <1>5, <1>6 DEF Reviewed
  <2>3. Registering(r, l, st)
    BY <1>6 DEF Registering
  <2> QED BY <2>1, <2>2, <2>3
<1>8. HandlerOK(r, l, st, ins, n)
  BY <1>4, <1>5, <1>6, <1>7 DEF HandlerOK
<1>9. HandlerOK(r, l, store, inserted, locks)
  BY <1>8 DEF n, ins
<1> QED BY <1>1, <1>9, QuietFrame

\* A challenge is found.
LEMMA GetOK ==
  ASSUME Inv, NEW h \in Handlers, NEW t \in Challenges, GetChallenge(h, t)
  PROVE  Inv'
<1> DEFINE op == "otp"
           pc == "user"
           none == NoSession
           r == Start(op, none, pc)
           l == [NoLocals EXCEPT !.challenge = t]
<1>1. Begin(h, r, l) /\ UNCHANGED <<store, inserted, locks, otp, over, tokens>> /\ Reaches(h, otp[t])
  BY DEF GetChallenge, data
<1>2. l \in Locals
  BY LocalsOK
<1>3. none \in Sessions(Items) /\ DOMAIN none.objs = {} /\ DOMAIN none.tracked = {} /\ none.pending = <<>>
  BY NoSessionType DEF NoSession
<1>4. op \in Names /\ pc \in Names /\ pc # "flush" /\ pc # "did"
  BY DEF Names
<1> HIDE DEF op, pc, none, l
<1>5. r \in Requests(Names, Items) /\ r.session = none /\ r.pc = pc
  BY <1>3, <1>4, StartType, NamesBasic
<1> HIDE DEF r
<1>6. Owns(r, l, locks) /\ Simple(r.session) /\ Reviewed(r, inserted) /\ Registering(r, l, store)
  BY <1>3, <1>4, <1>5 DEF Owns, Simple, Reviewed, Registering
<1>7. HandlerOK(r, l, store, inserted, locks)
  BY <1>2, <1>3, <1>4, <1>5, <1>6 DEF HandlerOK
<1>8. AroundOK'
  BY <1>1, ReachesOK, InvFacts DEF AroundOK
<1> QED BY <1>1, <1>7, <1>8, BeginOK

\* Nothing of the handlers or the database changes.
LEMMA AroundStep ==
  ASSUME Inv, UNCHANGED <<store, inserted, locks, req, local>>, AroundOK'
  PROVE  Inv'
BY DEF Inv

\* Time, Redis and the refresh of the access token.
LEMMA OtherSteps ==
  ASSUME Inv,
         \/ Refresh \/ LockRunsOut \/ AccessExpires \/ RedisStops
         \/ \E t \in Challenges : ChallengeExpires(t)
  PROVE  Inv'
<1>1. /\ over \in 0..locks /\ otp \in [Challenges -> {Nowhere, "redis"} \cup Processes]
      /\ client \in [Processes -> {"unknown", "redis", "memory"}] /\ tokens \subseteq {"access", "refresh"}
      /\ locks \in Nat
  BY InvFacts DEF AroundOK
<1>2. CASE Refresh
  BY <1>1, <1>2, AroundStep DEF Refresh, AroundOK, data, around, handlers
<1>3. CASE LockRunsOut
  <2>1. over + 1 \in 0..locks
    BY <1>1, <1>3 DEF LockRunsOut
  <2> QED BY <1>1, <1>3, <2>1, AroundStep DEF LockRunsOut, AroundOK, data, handlers
<1>4. CASE AccessExpires
  BY <1>1, <1>4, AroundStep DEF AccessExpires, AroundOK, data, around, handlers
<1>5. CASE RedisStops
  BY <1>1, <1>5, AroundStep DEF RedisStops, AroundOK, data, handlers
<1>6. CASE \E t \in Challenges : ChallengeExpires(t)
  <2>1. PICK t \in Challenges : ChallengeExpires(t)
    BY <1>6
  <2>2. otp' \in [Challenges -> {Nowhere, "redis"} \cup Processes]
    BY <1>1, <2>1 DEF ChallengeExpires
  <2> QED BY <1>1, <2>1, <2>2, AroundStep DEF ChallengeExpires, AroundOK, around, handlers
<1> QED BY <1>2, <1>3, <1>4, <1>5, <1>6

\* The initial states.
LEMMA InitOK == ASSUME Init PROVE Inv
<1>1. /\ locks = 0 /\ over = 0 /\ otp = [t \in Challenges |-> Nowhere]
      /\ client = [p \in Processes |-> "unknown"] /\ tokens = {}
      /\ req = [h \in Handlers |-> Idle] /\ local = [h \in Handlers |-> NoLocals]
  BY DEF Init
<1>2. NoLocals \in Locals /\ Idle \in Requests(Names, Items)
  BY IdleType, NamesBasic DEF NoLocals, Locals
<1>3. \A h \in Handlers : HandlerOK(req[h], local[h], store, inserted, locks)
  BY <1>1, <1>2, IdleOK
<1>4. AroundOK
  BY <1>1 DEF AroundOK
<1>5. StoreOK(store, inserted, 0)
  <2>0. 0 \in 0..MaxLocks
    BY LockoutAssumption
  <2>1. CASE store = [u \in Users |-> Absent] /\ inserted = {}
    BY <2>0, <2>1 DEF StoreOK
  <2>2. CASE \E u \in Users, s \in Secrets, mfa \in BOOLEAN :
               /\ store = [v \in Users |-> IF v # u THEN Absent
                                           ELSE IF mfa THEN [NewUser EXCEPT !.secret = s, !.mfa = TRUE]
                                           ELSE NewUser]
               /\ inserted = {<<"did", u>>, <<"audit", <<"register", u>>>>, <<"audit", Routine>>}
                               \cup (IF mfa THEN {<<"audit", <<"enable", s>>>>} ELSE {})
    <3>1. PICK u \in Users, s \in Secrets :
            \/ /\ store = [v \in Users |-> IF v # u THEN Absent ELSE NewUser]
               /\ inserted = {<<"did", u>>, <<"audit", <<"register", u>>>>, <<"audit", Routine>>}
            \/ /\ store = [v \in Users |-> IF v # u THEN Absent ELSE [NewUser EXCEPT !.secret = s, !.mfa = TRUE]]
               /\ inserted = {<<"did", u>>, <<"audit", <<"register", u>>>>, <<"audit", Routine>>,
                              <<"audit", <<"enable", s>>>>}
      <4>1. PICK u \in Users, s \in Secrets, mfa \in BOOLEAN :
              /\ store = [v \in Users |-> IF v # u THEN Absent
                                         ELSE IF mfa THEN [NewUser EXCEPT !.secret = s, !.mfa = TRUE]
                                         ELSE NewUser]
              /\ inserted = {<<"did", u>>, <<"audit", <<"register", u>>>>, <<"audit", Routine>>}
                              \cup (IF mfa THEN {<<"audit", <<"enable", s>>>>} ELSE {})
        BY <2>2
      <4>2. CASE mfa
        <5>1. store = [v \in Users |-> IF v # u THEN Absent ELSE [NewUser EXCEPT !.secret = s, !.mfa = TRUE]]
          BY <4>1, <4>2
        <5>2. inserted = {<<"did", u>>, <<"audit", <<"register", u>>>>, <<"audit", Routine>>,
                          <<"audit", <<"enable", s>>>>}
          BY <4>1, <4>2
        <5> QED BY <5>1, <5>2
      <4>3. CASE ~mfa
        <5>1. store = [v \in Users |-> IF v # u THEN Absent ELSE NewUser]
          BY <4>1, <4>3
        <5>2. inserted = {<<"did", u>>, <<"audit", <<"register", u>>>>, <<"audit", Routine>>}
          BY <4>1, <4>3
        <5> QED BY <5>1, <5>2
      <4> QED BY <4>2, <4>3
    <3> DEFINE n1 == NewUser
               n2 == [NewUser EXCEPT !.secret = s, !.mfa = TRUE]
    <3>2. /\ n1 \in UserRecords /\ n1.locked = 0 /\ ~n1.mfa /\ Sane(n1, 0)
          /\ n2 \in UserRecords /\ n2.locked = 0 /\ n2.mfa /\ n2.secret = s /\ Sane(n2, 0)
      <4>1. /\ n1 \in UserRecords /\ n1.attempts = 0 /\ n1.locked = 0 /\ ~n1.mfa
        BY DEF NewUser, UserRecords
      <4>2. /\ n2 \in UserRecords /\ n2.attempts = 0 /\ n2.locked = 0 /\ n2.mfa /\ n2.secret = s
        BY DEF NewUser, UserRecords
      <4> HIDE DEF n1, n2
      <4> QED BY <4>1, <4>2, LockoutAssumption DEF Sane
    <3> HIDE DEF n1, n2
    <3>3. store \in [Users -> UserRecords \cup {Absent}]
      BY <3>1, <3>2 DEF n1, n2
    <3>4. /\ store[u] # Absent /\ \A v \in Users : v # u => store[v] = Absent
          /\ store[u] = n1 \/ (store[u] = n2 /\ <<"audit", <<"enable", s>>>> \in inserted)
      BY <3>1, <3>2, AbsentIsNone DEF n1, n2
    <3>5. \A v \in Users : store[v] # Absent =>
            /\ Sane(store[v], 0)
            /\ \A e \in Events : Needs(UserItem(v, store[v]), e) => <<"audit", e>> \in inserted
      BY <3>2, <3>4 DEF Needs, UserItem
    <3>6. inserted \subseteq ({"audit"} \X Events) \cup ({"did", "profile"} \X Users)
      <4>1. <<"register", u>> \in Events /\ Routine \in Events /\ <<"enable", s>> \in Events
        BY DEF Events
      <4> HIDE DEF Routine
      <4> QED BY <3>1, <4>1
    <3>7. \A v \in Users : <<"audit", <<"register", v>>>> \in inserted => v = u /\ <<"did", u>> \in inserted
      BY <3>1 DEF Routine
    <3> QED BY <2>0, <3>3, <3>4, <3>5, <3>6, <3>7 DEF StoreOK
  <2> QED BY <2>1, <2>2 DEF Init
<1> QED BY <1>1, <1>2, <1>3, <1>4, <1>5 DEF Inv

\* Every step preserves the first layer.
LEMMA NextOK ==
  ASSUME Inv, [Next]_vars
  PROVE  Inv'
<1>1. CASE UNCHANGED vars
  <2>1. UNCHANGED <<store, inserted, locks, req, local>> /\ UNCHANGED <<over, otp, client, tokens>>
    BY <1>1 DEF vars, data, around, handlers
  <2>2. AroundOK'
    BY <2>1, InvFacts DEF AroundOK
  <2> QED BY <2>1, <2>2, AroundStep
<1>2. ASSUME NEW h \in Handlers,
             \/ Register(h) \/ AddProfiles(h) \/ Grant(h) \/ IssueChallenge(h)
             \/ DeleteChallenge(h) \/ LogSetup(h) \/ Write(h) \/ Fail(h)
      PROVE  Inv'
  BY <1>2, RegisterOK, AddProfilesOK, GrantOK, IssueChallengeOK, DeleteChallengeOK, LogSetupOK, WriteOK, FailOK
<1>3. ASSUME NEW h \in Handlers, NEW u \in Users,
             WrongPassword(h, u) \/ RightPassword(h, u) \/ CheckCode(h, u) \/ Setup(h, u) \/ Enable(h, u)
      PROVE  Inv'
  BY <1>3, WrongOK, RightOK, CheckOK, SetupOK, EnableOK
<1>4. ASSUME NEW h \in Handlers, NEW t \in Challenges, GetChallenge(h, t) PROVE Inv'
  BY <1>4, GetOK
<1> QED BY <1>1, <1>2, <1>3, <1>4, OtherSteps DEF Next

\* The first layer is an invariant of the accounts.
THEOREM Invariance == Spec => []Inv
<1>1. Init => Inv
  BY InitOK
<1>2. Inv /\ [Next]_vars => Inv'
  BY NextOK
<1> QED BY <1>1, <1>2, PTL DEF Spec

\* The accounts, the times, the challenges, the processes and the tokens keep
\* their types; the failed attempts never pass the ones that lock by more than
\* the locks there are.
THEOREM TypeCorrect == Spec => []TypeOK
<1>1. ASSUME Inv PROVE TypeOK
  <2>1. ASSUME NEW u \in Users, Stored(u)
        PROVE  /\ store[u] \in [attempts : 0..(MaxAttempts + MaxLocks - 1), locked : 0..locks,
                                mfa : BOOLEAN, secret : Secrets \cup {NoSecret}]
               /\ store[u].mfa => store[u].secret # NoSecret
    <3> DEFINE w == store[u]
    <3>1. w \in UserRecords /\ Sane(w, locks) /\ locks \in 0..MaxLocks /\ locks \in Nat
      BY <1>1, <2>1, InvFacts DEF Stored
    <3> HIDE DEF w
    <3>2. w.attempts \in Nat /\ w.locked \in Nat /\ w.attempts < MaxAttempts + locks /\ w.locked <= locks
          /\ (w.mfa => w.secret \in Secrets)
      BY <3>1 DEF UserRecords, Sane
    <3>3. w.attempts \in 0..(MaxAttempts + MaxLocks - 1) /\ w.locked \in 0..locks
      BY <3>1, <3>2, LockoutAssumption
    <3>4. w \in [attempts : 0..(MaxAttempts + MaxLocks - 1), locked : 0..locks,
                 mfa : BOOLEAN, secret : Secrets \cup {NoSecret}]
      BY <3>1, <3>3 DEF UserRecords
    <3> QED BY <3>2, <3>4, NamesAssumption DEF NoSecret, w
  <2> QED BY <1>1, <2>1 DEF TypeOK, Inv, AroundOK
<1> QED BY <1>1, Invariance, PTL

\* logger.py, lines 2-4: the lock and the MFA of every stored account are on the
\* trail, the latter with its own secret; a registration on the trail is stored
\* with its DID profile.
THEOREM Trail == Spec => []TrailComplete
<1>1. ASSUME Inv PROVE TrailComplete
  <2>1. ASSUME NEW u \in Users, Stored(u)
        PROVE  /\ store[u].locked > 0 => Logged("lock", store[u].locked)
               /\ store[u].mfa => Logged("enable", store[u].secret)
    <3> DEFINE w == store[u]
               o == UserItem(u, w)
    <3>1. w \in UserRecords /\ Sane(w, locks)
          /\ \A e \in Events : Needs(o, e) => <<"audit", e>> \in inserted
      BY <1>1, <2>1, InvFacts DEF Stored
    <3>2. w.locked \in Nat /\ (w.mfa => w.secret \in Secrets)
      BY <3>1 DEF UserRecords, Sane
    <3>3. <<"lock", w.locked>> \in Events /\ (w.mfa => <<"enable", w.secret>> \in Events)
      BY <3>2, EventsOK
    <3>4. /\ w.locked > 0 => Needs(o, <<"lock", w.locked>>)
          /\ w.mfa => Needs(o, <<"enable", w.secret>>)
      BY DEF Needs, UserItem
    <3> QED BY <3>1, <3>3, <3>4 DEF Logged
  <2>2. \A u \in Users : Logged("register", u) => Stored(u) /\ <<"did", u>> \in inserted
    BY <1>1, InvFacts DEF StoreOK, Logged, Stored
  <2> QED BY <2>1, <2>2 DEF TrailComplete
<1> QED BY <1>1, Invariance, PTL

-----------------------------------------------------------------------------
(* The second layer: what a handler may still store of an account *)

\* What a copy v is to the stored account w, when op is the handler's request, g
\* wrong passwords are counted and the locks up to ov have run out.
Related(op, v, w, g, ov) ==
  /\ w.mfa => v.mfa
  /\ op = "fail" =>
       /\ v.attempts = w.attempts + 1 /\ w.locked <= ov
       /\ v.attempts < MaxAttempts => v.locked = w.locked
       /\ v.attempts >= MaxAttempts => v.locked > ov \/ g = 0
  /\ op = "login" => w.locked <= ov
  /\ op \notin {"fail", "login"} => v.attempts = w.attempts /\ v.locked = w.locked

\* The users that request r may store.
Holds(r) == {m \in ToStore(r) : m \in DOMAIN r.session.objs /\ r.session.objs[m].id \in Users}

\* Object o of a request op of handler h at place pc: a new account, when no other
\* had been stored before; or a copy that is related to what is stored, unless
\* that has changed since.
Current(h, op, pc, o, st, old, g, ov) ==
  LET u == o.id
  IN  /\ st[u] # Absent \/ (op = "register" /\ \A v \in Users : st[v] # Absent => <<h, v>> \in old)
      /\ st[u] # Absent => <<h, u>> \in old \/ Related(op, o.val, st[u], g[u], ov)
      /\ pc = "granted" => st[u] # Absent /\ (<<h, u>> \in old \/ o.val = st[u])
Fresh(h, r, st, old, g, ov) ==
  /\ \A m \in Holds(r) : Current(h, r.op, r.pc, r.session.objs[m], st, old, g, ov)
  /\ r.pc \in {"idle", "did"} => ToStore(r) = {}

\* Where a request is, or will be after its flush, and what it is there.
At(r) == IF r.pc = "flush" THEN r.then ELSE r.pc
Control(r, l) ==
  /\ At(r) \in {"idle", "did", "granted", "log", "user", "delete"}
  /\ At(r) \in {"user", "delete"} => r.op = "otp"
  /\ At(r) = "granted" => r.op = "login" /\ l.challenge = "none"
  /\ r.pc = "idle" => r.op \notin {"otp", "sign_in"}

\* The second layer of the invariant.
Second ==
  /\ guesses \in [Users -> Nat]
  /\ \A h \in Handlers : Fresh(h, req[h], store, stale, guesses, over) /\ Control(req[h], local[h])

\* A copy stays what it is while the account does, in a handler that goes on,
\* whatever more gets out of date and whichever lock runs out.
LEMMA CurrentFrame ==
  ASSUME NEW h, NEW op, NEW pc, NEW pc2, NEW o, NEW st, NEW old, NEW g, NEW ov \in Nat,
         Current(h, op, pc, o, st, old, g, ov), o.id \in Users,
         NEW old2, \A v \in Users : <<h, v>> \in old => <<h, v>> \in old2,
         pc2 = "granted" => pc = "granted",
         NEW g2, NEW ov2 \in Nat,
         st[o.id] # Absent => st[o.id].locked \in Nat,
         (g2[o.id] = g[o.id] /\ ov2 = ov) \/ (g2[o.id] = 0 /\ ov <= ov2)
  PROVE  Current(h, op, pc2, o, st, old2, g2, ov2)
<1> DEFINE u == o.id
           w == st[u]
           x == g[u]
           x2 == g2[u]
<1>1. ASSUME w # Absent, Related(op, o.val, w, x, ov)
      PROVE  Related(op, o.val, w, x2, ov2)
  <2>1. w.locked \in Nat
    BY <1>1
  <2> HIDE DEF w, x, x2
  <2>2. w.locked <= ov => w.locked <= ov2
    <3>1. CASE ov2 = ov
      BY <3>1
    <3>2. CASE ov <= ov2
      BY <2>1, <3>2
    <3> QED BY <3>1, <3>2 DEF x, x2
  <2>3. (o.val.locked > ov \/ x = 0) => (o.val.locked > ov2 \/ x2 = 0)
    BY DEF x, x2
  <2> QED BY <1>1, <2>2, <2>3 DEF Related
<1> HIDE DEF u, w, x, x2
<1> QED BY <1>1 DEF Current, u, w, x, x2

\* A request that may store no other users than r, and these as they are.
Less(f, r) ==
  \A m \in Holds(f) : m \in Holds(r) /\ f.session.objs[m] = r.session.objs[m]

\* If it is the same request, what it may store is current.
LEMMA LessFresh ==
  ASSUME NEW h, NEW r, NEW f, NEW st, NEW old, NEW g, NEW ov \in Nat, Fresh(h, r, st, old, g, ov), Less(f, r),
         f.op = r.op, f.pc = "granted" => r.pc = "granted", f.pc \in {"idle", "did"} => ToStore(f) = {},
         st \in [Users -> UserRecords \cup {Absent}]
  PROVE  Fresh(h, f, st, old, g, ov)
<1>1. SUFFICES ASSUME NEW m \in Holds(f)
               PROVE  Current(h, f.op, f.pc, f.session.objs[m], st, old, g, ov)
  BY DEF Fresh
<1>2. m \in Holds(r) /\ f.session.objs[m] = r.session.objs[m]
  BY <1>1 DEF Less
<1>3. Current(h, r.op, r.pc, r.session.objs[m], st, old, g, ov)
  BY <1>2 DEF Fresh
<1> DEFINE o == r.session.objs[m]
<1>4. o.id \in Users
  BY <1>2 DEF Holds
<1>5. st[o.id] # Absent => st[o.id].locked \in Nat
  BY <1>4 DEF UserRecords
<1> HIDE DEF o
<1>6. Current(h, f.op, f.pc, o, st, old, g, ov)
  BY <1>3, <1>4, <1>5, CurrentFrame DEF o
<1> QED BY <1>2, <1>6 DEF o

\* A step of handler h, to request r, that stores nothing.
LEMMA FreshFrame ==
  ASSUME Inv, Second, NEW h \in Handlers, NEW r, req' = [req EXCEPT ![h] = r],
         NEW l, local' = [local EXCEPT ![h] = l], Control(r, l),
         UNCHANGED <<store, guesses, over>>,
         \A g \in Handlers \ {h} : \A v \in Users : <<g, v>> \in stale => <<g, v>> \in stale',
         Fresh(h, r, store, stale', guesses, over)
  PROVE  Second'
<1>0. over \in Nat /\ store \in [Users -> UserRecords \cup {Absent}]
  BY InvFacts DEF AroundOK, StoreOK
<1>1. SUFFICES ASSUME NEW g \in Handlers
               PROVE  Fresh(g, req'[g], store, stale', guesses, over) /\ Control(req'[g], local'[g])
  BY DEF Second
<1>2. CASE g = h
  BY <1>2, InvFacts
<1>3. CASE g # h
  <2>0. Control(req'[g], local'[g])
    BY <1>3, InvFacts DEF Second
  <2>1. req'[g] = req[g] /\ Fresh(g, req[g], store, stale, guesses, over)
    BY <1>3, InvFacts DEF Second
  <2>2. ASSUME NEW m \in Holds(req[g])
        PROVE  Current(g, req[g].op, req[g].pc, req[g].session.objs[m], store, stale', guesses, over)
    <3> DEFINE o == req[g].session.objs[m]
               op == req[g].op
               pc == req[g].pc
    <3>1. o.id \in Users /\ Current(g, op, pc, o, store, stale, guesses, over)
      BY <2>1 DEF Holds, Fresh
    <3>2. store[o.id] # Absent => store[o.id].locked \in Nat
      BY <1>0, <3>1 DEF UserRecords
    <3>3. \A v \in Users : <<g, v>> \in stale => <<g, v>> \in stale'
      BY <1>3
    <3> HIDE DEF o, op, pc
    <3> DEFINE s2 == stale'
               st == store
               old == stale
               gs == guesses
    <3>4. /\ o.id \in Users /\ Current(g, op, pc, o, st, old, gs, over) /\ over \in Nat
          /\ (st[o.id] # Absent => st[o.id].locked \in Nat)
          /\ \A v \in Users : <<g, v>> \in old => <<g, v>> \in s2
      BY <1>0, <3>1, <3>2, <3>3
    <3> HIDE DEF s2, st, old, gs
    <3>5. Current(g, op, pc, o, st, s2, gs, over)
      BY <3>4, CurrentFrame
    <3> QED BY <3>5 DEF o, op, pc, s2, st, gs
  <2> QED BY <2>0, <2>1, <2>2 DEF Fresh
<1> QED BY <1>2, <1>3

\* A handler with nothing to store.
LEMMA NothingFresh ==
  ASSUME NEW h, NEW r, Holds(r) = {}, r.pc \in {"idle", "did"} => ToStore(r) = {},
         NEW st, NEW old, NEW g, NEW ov
  PROVE  Fresh(h, r, st, old, g, ov)
BY DEF Fresh

\* A handler that holds one copy v of a stored user, and may store that.
LEMMA CopyFresh ==
  ASSUME NEW h, NEW r, NEW u \in Users, NEW v, NEW st, NEW old, NEW g, NEW ov, st[u] # Absent,
         \A m \in DOMAIN r.session.objs : r.session.objs[m].id \in Users => r.session.objs[m] = UserItem(u, v),
         Related(r.op, v, st[u], g[u], ov), r.pc = "granted" => v = st[u],
         r.pc \in {"idle", "did"} => ToStore(r) = {}
  PROVE  Fresh(h, r, st, old, g, ov)
<1>1. SUFFICES ASSUME NEW m \in Holds(r)
               PROVE  Current(h, r.op, r.pc, r.session.objs[m], st, old, g, ov)
  BY DEF Fresh
<1>2. r.session.objs[m] = UserItem(u, v) /\ UserItem(u, v).id = u /\ UserItem(u, v).val = v
  BY <1>1 DEF Holds, UserItem
<1>3. Current(h, r.op, r.pc, UserItem(u, v), st, old, g, ov)
  BY <1>1, <1>2 DEF Current
<1> QED BY <1>2, <1>3

\* A handler that logs an event without changing what it holds stores nothing
\* else.
LEMMA LogTaken ==
  ASSUME Inv, NEW h \in Handlers, req[h].pc # "flush", NEW op \in Names,
         NEW q, q = req[h] \/ q = [req[h] EXCEPT !.op = op],
         NEW e \in Events, NEW f, f = LogEvent(q, e, "idle")
  PROVE  /\ f.op = q.op /\ f.pc = "flush" /\ f.then = "idle" /\ At(f) = "idle"
         /\ Less(f, req[h])
<1> DEFINE r == req[h]
           objs == r.session.objs
           k == Len(objs) + 1
           o == AuditItem(e)
           t == r.session.tracked
<1>1. /\ r \in Requests(Names, Items) /\ Simple(r.session) /\ r.session.pending = <<>>
      /\ r.session \in Sessions(Items) /\ objs \in Seq(Items) /\ r.pc # "flush"
  BY RestFacts, RequestFacts
<1>2. q \in Requests(Names, Items) /\ q.session = r.session
  BY <1>1, RenamedRequest
<1> HIDE DEF r
<1>3. LogForm(q, e, f)
  BY <1>1, <1>2, LogIs
<1>4. \A i \in DOMAIN f.writing :
         \/ i = 1 /\ f.writing[i] = k
         \/ i = Len(f.writing) /\ f.writing[i] = 1 /\ 1 \in DOMAIN t
  BY <1>1, <1>2, <1>3, LogIsNext
<1>5. f.op = q.op /\ f.pc = "flush" /\ f.then = "idle" /\ f.session.objs = Append(objs, o)
  BY <1>2, <1>3 DEF LogForm
<1>6. \A m \in DOMAIN objs : f.session.objs[m] = objs[m]
  <2>1. objs \in Seq(Items) /\ o \in Items
    BY <1>1, ItemsHeld
  <2> HIDE DEF objs, o
  <2> QED BY <1>5, <2>1, AppendFacts
<1>7. f.session.objs[k].id \notin Users
  <2>1. objs \in Seq(Items) /\ o \in Items /\ o.id \notin Users
    BY <1>1, ItemsHeld, RecordsAreNoUsers DEF AuditItem
  <2> HIDE DEF objs, o
  <2>2. f.session.objs[k] = o
    BY <1>5, <2>1
  <2> QED BY <2>1, <2>2
<1>8. 1 \in DOMAIN t => 1 \in ToStore(r) /\ 1 \in DOMAIN objs
  <2>1. \A i \in DOMAIN t : t[i].obj = 1 /\ t[i].obj \in DOMAIN objs
    BY <1>1 DEF Simple, Sessions
  <2> QED BY <1>1, <2>1 DEF ToStore, Writable
<1>9. Less(f, r)
  <2>1. SUFFICES ASSUME NEW m \in Holds(f) PROVE m \in Holds(r) /\ f.session.objs[m] = objs[m]
    BY DEF Less
  <2>2. PICK i \in DOMAIN f.writing : m = f.writing[i]
    BY <1>5, <2>1 DEF Holds, ToStore
  <2>3. f.session.objs[m].id \in Users
    BY <2>1 DEF Holds
  <2>4. m = 1 /\ 1 \in DOMAIN t
    BY <1>4, <1>7, <2>2, <2>3
  <2> HIDE DEF objs, t
  <2>5. m \in ToStore(r) /\ m \in DOMAIN objs /\ objs[m].id \in Users
    BY <1>6, <1>8, <2>3, <2>4
  <2> QED BY <1>6, <2>5 DEF Holds, objs
<1> QED BY <1>5, <1>9 DEF At, r

\* A handler that has read a user and logs an event.
LEMMA ReadLogTaken ==
  ASSUME NEW u \in Users, store[u] \in UserRecords, NEW v \in UserRecords,
         NEW op \in Names, op # "flush", NEW e \in Events,
         NEW f, f = LogEvent(Read(u, op, v), e, "idle")
  PROVE  /\ f.op = op /\ f.pc = "flush" /\ f.then = "idle" /\ At(f) = "idle"
         /\ \A m \in DOMAIN f.session.objs :
              f.session.objs[m].id \in Users => f.session.objs[m] = UserItem(u, v)
<1> DEFINE r == Read(u, op, v)
           objs == r.session.objs
           o == AuditItem(e)
<1>1. /\ r \in Requests(Names, Items) /\ r.op = op
      /\ \A m \in DOMAIN r.session.objs : r.session.objs[m] = UserItem(u, v)
      /\ Simple(r.session)
  BY ReadFacts
<1> HIDE DEF r
<1>2. LogForm(r, e, f)
  BY <1>1, LogIs DEF r
<1>3. f.op = op /\ f.pc = "flush" /\ f.then = "idle" /\ f.session.objs = Append(objs, o)
  BY <1>1, <1>2 DEF LogForm
<1>4. objs \in Seq(Items) /\ o \in Items /\ o.id \notin Users
  BY <1>1, RequestFacts, ItemsHeld, RecordsAreNoUsers DEF AuditItem
<1> HIDE DEF o
<1>5. \A m \in DOMAIN f.session.objs :
        (m \in DOMAIN objs /\ f.session.objs[m] = objs[m]) \/ f.session.objs[m] = o
  <2> HIDE DEF objs
  <2>1. DOMAIN f.session.objs = DOMAIN objs \cup {Len(f.session.objs)} /\ f.session.objs[Len(f.session.objs)] = o
        /\ \A m \in DOMAIN objs : f.session.objs[m] = objs[m]
    BY <1>3, <1>4, AppendFacts
  <2> QED BY <2>1
<1> QED BY <1>1, <1>3, <1>4, <1>5 DEF At

\* A handler that has read a user and flushes it: it goes on at once only if it
\* has changed nothing.
LEMMA ReadFlushTaken ==
  ASSUME NEW u \in Users, store[u] \in UserRecords, NEW v \in UserRecords,
         NEW op \in Names, op # "flush", NEW pc \in Names, pc # "flush",
         NEW f, f = Flush(Read(u, op, v), pc)
  PROVE  /\ f.op = op /\ At(f) = pc
         /\ f.pc = "flush" \/ (f.pc = pc /\ v = store[u])
         /\ \A m \in DOMAIN f.session.objs :
              f.session.objs[m].id \in Users => f.session.objs[m] = UserItem(u, v)
<1> DEFINE r == Read(u, op, v)
           s == r.session
           w == store[u]
<1>1. /\ r \in Requests(Names, Items) /\ r.op = op
      /\ \A m \in DOMAIN s.objs : s.objs[m] = UserItem(u, v)
      /\ Simple(s) /\ 1 \in DOMAIN s.objs
      /\ 1 \in DOMAIN s.tracked /\ s.tracked[1].snapshot = w
  BY ReadFacts
<1> HIDE DEF r
<1>2. /\ f.session = s /\ f.op = r.op
      /\ \/ f.pc = pc /\ Writes(s) = <<>>
         \/ f.pc = "flush" /\ f.then = pc
  BY <1>1, FlushWrites DEF r
<1>3. ASSUME Writes(s) = <<>> PROVE v = w
  <2>1. s \in Sessions(Items)
    BY <1>1, RequestFacts
  <2>2. DOMAIN Writes(s) = {}
    BY <1>3
  <2>3. Dirty(s) = {}
    BY <2>1, <2>2, WritesExactly
  <2>4. ValOf(s, s.tracked[1].obj) = w
    BY <1>1, <2>3 DEF Dirty
  <2>5. s.tracked[1].obj = 1
    BY <1>1 DEF Simple
  <2>6. ValOf(s, 1) = v
    BY <1>1 DEF ValOf, UserItem
  <2> QED BY <2>4, <2>5, <2>6
<1> QED BY <1>1, <1>2, <1>3 DEF At

\* register finds no account.
LEMMA RegisterFresh ==
  ASSUME Inv, Second, NEW h \in Handlers, Register(h)
  PROVE  Second'
<1>1. PICK f, l :
        /\ req' = [req EXCEPT ![h] = f] /\ local' = [local EXCEPT ![h] = l]
        /\ f.op = "register" /\ f.pc = "flush" /\ f.then = "did"
  BY RegisterForm
<1>2. /\ \A u \in Users : store[u] = Absent
      /\ UNCHANGED <<store, guesses, over, stale>>
  BY DEF Register, Free, Stored, Begin, data, around, history
<1>3. Fresh(h, f, store, stale', guesses, over)
  <2>1. SUFFICES ASSUME NEW m \in Holds(f)
                 PROVE  Current(h, f.op, f.pc, f.session.objs[m], store, stale', guesses, over)
    BY <1>1 DEF Fresh
  <2>2. f.session.objs[m].id \in Users
    BY <2>1 DEF Holds
  <2> QED BY <1>1, <1>2, <2>2 DEF Current
<1>4. Control(f, l)
  BY <1>1 DEF Control, At
<1> QED BY <1>1, <1>2, <1>3, <1>4, FreshFrame

\* AddProfiles has stored its user and tracks nothing.
LEMMA AddProfilesFresh ==
  ASSUME Inv, Second, NEW h \in Handlers, AddProfiles(h)
  PROVE  Second'
<1> DEFINE r == req[h]
           f == req'[h]
           l == local[h]
<1>1. /\ f.op = r.op /\ f.pc = "flush" /\ f.then = "idle"
      /\ \A i \in DOMAIN f.writing :
           f.session.objs[f.writing[i]].id \in Users => 1 \in DOMAIN r.session.tracked
  BY AddProfilesForm
<1>2. /\ r.pc = "did" /\ req' = [req EXCEPT ![h] = f] /\ local' = [local EXCEPT ![h] = l]
      /\ UNCHANGED <<store, guesses, over, stale>>
  BY InvFacts DEF AddProfiles, data, around, history
<1>3. ToStore(r) = {}
  BY <1>2 DEF Second, Fresh
<1>4. DOMAIN r.session.tracked = {}
  <2>1. ToStore(r) = Writable(r.session)
    BY <1>2 DEF ToStore
  <2>2. \A i \in DOMAIN r.session.tracked : r.session.tracked[i].obj \in Writable(r.session)
    BY DEF Writable
  <2> HIDE DEF r
  <2> QED BY <1>3, <2>1, <2>2
<1> HIDE DEF f, r, l
<1>5. Holds(f) = {}
  BY <1>1, <1>4 DEF Holds, ToStore
<1>6. Fresh(h, f, store, stale', guesses, over)
  BY <1>1, <1>5, NothingFresh
<1>7. Control(f, l)
  BY <1>1 DEF Control, At
<1> QED BY <1>2, <1>6, <1>7, FreshFrame

\* A handler that only logs.
LEMMA LogFresh ==
  ASSUME Inv, Second, NEW h \in Handlers, req[h].pc # "flush", NEW op \in Names,
         NEW q, q = req[h] \/ q = [req[h] EXCEPT !.op = op],
         NEW e \in Events, NEW f, f = LogEvent(q, e, "idle"),
         req' = [req EXCEPT ![h] = f], NEW l, local' = [local EXCEPT ![h] = l],
         UNCHANGED <<store, guesses, over>>, stale \subseteq stale',
         \A m \in Holds(req[h]) :
           Current(h, q.op, "flush", req[h].session.objs[m], store, stale, guesses, over)
  PROVE  Second'
<1> DEFINE r == req[h]
           st == store
           old == stale
           new == stale'
           g == guesses
           ov == over
<1>1. f.op = q.op /\ f.pc = "flush" /\ f.then = "idle" /\ Less(f, r)
  BY LogTaken
<1>2. /\ r.op = req[h].op
      /\ \A m \in Holds(r) : Current(h, q.op, "flush", r.session.objs[m], st, old, g, ov)
      /\ old \subseteq new /\ ov \in Nat /\ st \in [Users -> UserRecords \cup {Absent}]
  BY InvFacts DEF AroundOK, StoreOK
<1>3. Fresh(h, f, store, stale', guesses, over)
  <2> HIDE DEF r, st, old, new, g, ov
  <2>1. SUFFICES ASSUME NEW m \in Holds(f)
                 PROVE  Current(h, f.op, f.pc, f.session.objs[m], st, new, g, ov)
    BY <1>1 DEF Fresh, st, new, g, ov
  <2>2. m \in Holds(r) /\ f.session.objs[m] = r.session.objs[m]
    BY <1>1, <2>1 DEF Less
  <2> DEFINE o == r.session.objs[m]
  <2>3. Current(h, q.op, "flush", o, st, old, g, ov) /\ o.id \in Users
    BY <1>2, <2>2 DEF Holds
  <2>4. st[o.id] # Absent => st[o.id].locked \in Nat
    BY <1>2, <2>3 DEF UserRecords
  <2> HIDE DEF o
  <2>5. Current(h, q.op, "flush", o, st, new, g, ov)
    BY <1>2, <2>3, <2>4, CurrentFrame
  <2> QED BY <1>1, <2>2, <2>5 DEF o
<1>4. Control(f, l)
  BY <1>1 DEF Control, At
<1>5. \A x \in Handlers \ {h} : \A v \in Users : <<x, v>> \in stale => <<x, v>> \in stale'
  OBVIOUS
<1> QED BY <1>3, <1>4, <1>5, FreshFrame

\* The events and names of those handlers.
LEMMA LogNames == "sign_in" \in Names /\ "idle" \in Names /\ Routine \in Events
BY EventsOK DEF Names, Basic

\* What is current in a handler is current in its flush.
LEMMA StillCurrent ==
  ASSUME Inv, Second, NEW h \in Handlers, NEW m \in Holds(req[h]), NEW o, o = req[h].session.objs[m]
  PROVE  /\ o.id \in Users
         /\ Current(h, req[h].op, req[h].pc, o, store, stale, guesses, over)
         /\ Current(h, req[h].op, "flush", o, store, stale, guesses, over)
<1>1. o.id \in Users /\ Current(h, req[h].op, req[h].pc, o, store, stale, guesses, over)
  BY DEF Second, Fresh, Holds
<1>2. Current(h, req[h].op, "flush", o, store, stale, guesses, over)
  BY <1>1 DEF Current
<1> QED BY <1>1, <1>2

\* After a login that changed nothing the copy is what is stored.
LEMMA GrantFresh ==
  ASSUME Inv, Second, NEW h \in Handlers, Grant(h)
  PROVE  Second'
<1> DEFINE q == [req[h] EXCEPT !.op = "sign_in"]
           f == LogEvent(q, Routine, "idle")
           l == local[h]
<1>1. /\ req[h].pc = "granted" /\ req' = [req EXCEPT ![h] = f] /\ local' = [local EXCEPT ![h] = l]
      /\ UNCHANGED <<store, guesses, over, stale>>
  BY InvFacts DEF Grant, data, around, history
<1>2. q.op = "sign_in"
  BY LogNames, InvFacts, RenamedRequest
<1>3. req[h].op = "login"
  <2>1. Control(req[h], local[h])
    BY DEF Second
  <2> QED BY <1>1, <2>1 DEF Control, At
<1>4. ASSUME NEW m \in Holds(req[h])
      PROVE  Current(h, q.op, "flush", req[h].session.objs[m], store, stale, guesses, over)
  <2> DEFINE o == req[h].session.objs[m]
  <2>1. o.id \in Users /\ Current(h, "login", "granted", o, store, stale, guesses, over)
    BY <1>1, <1>3, <1>4, StillCurrent
  <2> HIDE DEF o, q
  <2>2. Related("sign_in", store[o.id], store[o.id], guesses[o.id], over)
    BY DEF Related
  <2>3. Current(h, "sign_in", "flush", o, store, stale, guesses, over)
    BY <2>1, <2>2 DEF Current
  <2> QED BY <1>2, <2>3 DEF o
<1>5. req[h].pc # "flush" /\ stale \subseteq stale'
  BY <1>1
<1>6. q = req[h] \/ q = [req[h] EXCEPT !.op = "sign_in"]
  OBVIOUS
<1> HIDE DEF q, l
<1> QED BY <1>1, <1>4, <1>5, <1>6, LogNames, LogFresh

\* So is the copy that a code was checked with.
LEMMA DeleteFresh ==
  ASSUME Inv, Second, NEW h \in Handlers, DeleteChallenge(h)
  PROVE  Second'
<1> DEFINE q == [req[h] EXCEPT !.op = "sign_in"]
           f == LogEvent(q, Routine, "idle")
           l == local[h]
<1>1. /\ req[h].pc = "delete" /\ req' = [req EXCEPT ![h] = f] /\ local' = [local EXCEPT ![h] = l]
      /\ UNCHANGED <<store, guesses, over>> /\ stale \subseteq stale'
  BY InvFacts DEF DeleteChallenge, Outdate, history
<1>2. q.op = "sign_in"
  BY LogNames, InvFacts, RenamedRequest
<1>3. req[h].op = "otp"
  <2>1. Control(req[h], local[h])
    BY DEF Second
  <2> QED BY <1>1, <2>1 DEF Control, At
<1>4. ASSUME NEW m \in Holds(req[h])
      PROVE  Current(h, q.op, "flush", req[h].session.objs[m], store, stale, guesses, over)
  <2> DEFINE o == req[h].session.objs[m]
  <2>1. o.id \in Users /\ Current(h, "otp", "flush", o, store, stale, guesses, over)
    BY <1>1, <1>3, <1>4, StillCurrent
  <2> HIDE DEF o, q
  <2>2. \A w : Related("otp", o.val, w, guesses[o.id], over) => Related("sign_in", o.val, w, guesses[o.id], over)
    BY DEF Related
  <2>3. Current(h, "sign_in", "flush", o, store, stale, guesses, over)
    BY <2>1, <2>2 DEF Current
  <2> QED BY <1>2, <2>3 DEF o
<1>5. req[h].pc # "flush" /\ stale \subseteq stale'
  BY <1>1
<1>6. q = req[h] \/ q = [req[h] EXCEPT !.op = "sign_in"]
  OBVIOUS
<1> HIDE DEF q, l
<1> QED BY <1>1, <1>4, <1>5, <1>6, LogNames, LogFresh

\* A challenge is logged by the login it is for.
LEMMA IssueFresh ==
  ASSUME Inv, Second, NEW h \in Handlers, IssueChallenge(h)
  PROVE  Second'
<1>1. PICK t \in Challenges :
        /\ local' = [local EXCEPT ![h].challenge = t]
        /\ req' = [req EXCEPT ![h] = LogEvent(@, <<"challenge", t>>, "idle")]
  BY DEF IssueChallenge
<1> DEFINE e == <<"challenge", t>>
           q == req[h]
           f == LogEvent(q, e, "idle")
           l == [local[h] EXCEPT !.challenge = t]
<1>2. /\ q.pc = "granted" /\ req' = [req EXCEPT ![h] = f] /\ local' = [local EXCEPT ![h] = l]
      /\ UNCHANGED <<store, guesses, over, stale>>
  BY <1>1, InvFacts DEF IssueChallenge, history
<1>3. \A m \in Holds(q) : Current(h, q.op, "flush", q.session.objs[m], store, stale, guesses, over)
  BY StillCurrent
<1>4. e \in Events
  BY EventsOK
<1>5. q.pc # "flush" /\ stale \subseteq stale' /\ q = req[h]
  BY <1>2
<1> HIDE DEF e, l
<1> QED BY <1>2, <1>3, <1>4, <1>5, LogNames, LogFresh

\* setup_mfa logs.
LEMMA LogSetupFresh ==
  ASSUME Inv, Second, NEW h \in Handlers, LogSetup(h)
  PROVE  Second'
<1> DEFINE q == req[h]
           f == LogEvent(q, Routine, "idle")
           l == local[h]
<1>1. /\ q.pc = "log" /\ req' = [req EXCEPT ![h] = f] /\ local' = [local EXCEPT ![h] = l]
      /\ UNCHANGED <<store, guesses, over, stale>>
  BY InvFacts DEF LogSetup, data, around, history
<1>2. \A m \in Holds(q) : Current(h, q.op, "flush", q.session.objs[m], store, stale, guesses, over)
  BY StillCurrent
<1>3. q.pc # "flush" /\ stale \subseteq stale' /\ q = req[h]
  BY <1>1
<1> HIDE DEF l
<1> QED BY <1>1, <1>2, <1>3, LogNames, LogFresh

\* A handler that has read a user and left its copy with value v.
LEMMA ReadFresh ==
  ASSUME Inv, Second, NEW h \in Handlers, NEW u \in Users, Stored(u), NEW v, NEW f,
         \A m \in DOMAIN f.session.objs : f.session.objs[m].id \in Users => f.session.objs[m] = UserItem(u, v),
         Related(f.op, v, store[u], guesses[u], over), f.pc = "granted" => v = store[u],
         f.pc \notin {"idle", "did"}, req' = [req EXCEPT ![h] = f],
         NEW l, local' = [local EXCEPT ![h] = l], Control(f, l),
         UNCHANGED <<store, guesses, over, stale>>
  PROVE  Second'
<1> DEFINE st == store
           old == stale
           gs == guesses
           ov == over
<1>1. st[u] # Absent /\ Related(f.op, v, st[u], gs[u], ov) /\ (f.pc = "granted" => v = st[u])
  BY DEF Stored
<1> HIDE DEF st, old, gs, ov
<1>2. Fresh(h, f, st, old, gs, ov)
  BY <1>1, CopyFresh
<1>3. Fresh(h, f, store, stale', guesses, over)
  BY <1>2 DEF st, old, gs, ov
<1>4. \A x \in Handlers \ {h} : \A y \in Users : <<x, y>> \in stale => <<x, y>> \in stale'
  OBVIOUS
<1> QED BY <1>3, <1>4, FreshFrame

\* A wrong password is counted in a copy of the account.
LEMMA WrongFresh ==
  ASSUME Inv, Second, NEW h \in Handlers, NEW u \in Users, WrongPassword(h, u)
  PROVE  Second'
<1> DEFINE w == store[u]
           n == locks
           v == Attempted(w, n + 1)
           e == <<"lock", n + 1>>
           l == [NoLocals EXCEPT !.user = u]
           op == "fail"
           pc == "idle"
           f == LogEvent(Read(u, op, v), e, pc)
           k == Flush(Read(u, op, v), pc)
<1>1. /\ w \in UserRecords /\ Stored(u) /\ w.locked <= over /\ n \in Nat
      /\ v \in UserRecords /\ v.attempts = w.attempts + 1 /\ v.mfa = w.mfa
      /\ Locking(w) => v.locked = n + 1 /\ Begin(h, f, l)
      /\ ~Locking(w) => v.locked = w.locked /\ v.attempts < MaxAttempts /\ Begin(h, k, l)
      /\ UNCHANGED <<store, around, history>>
  BY WrongFacts
<1>2. Locking(w) => v.attempts >= MaxAttempts /\ v.locked > over
  <2>1. over \in 0..n
    BY InvFacts DEF AroundOK
  <2> QED BY <1>1, <2>1 DEF Locking
<1>3. op \in Names /\ op # "flush" /\ pc \in Names /\ pc # "flush" /\ e \in Events
  <2>1. n + 1 \in Nat
    BY <1>1
  <2> QED BY <2>1, EventsOK DEF Names, Basic
<1>4. w.attempts \in Nat /\ w.locked \in Nat /\ v.attempts \in Nat
  BY <1>1 DEF UserRecords
<1>5. Related("fail", v, w, guesses[u], over)
  <2>1. v.attempts < MaxAttempts => v.locked = w.locked
    BY <1>1, <1>2, <1>4, LockoutAssumption
  <2>2. v.attempts >= MaxAttempts => v.locked > over
    BY <1>1, <1>2, <1>4, LockoutAssumption
  <2> HIDE DEF v, w
  <2> QED BY <1>1, <2>1, <2>2 DEF Related
<1>6. UNCHANGED <<store, guesses, over>>
  BY <1>1 DEF around, history
<1> HIDE DEF v, l, e
<1>7. ASSUME Locking(w) PROVE Second'
  <2>1. req' = [req EXCEPT ![h] = f] /\ local' = [local EXCEPT ![h] = l] /\ UNCHANGED stale
    BY <1>1, <1>7 DEF Begin
  <2>2. /\ f.op = op /\ f.pc = "flush" /\ At(f) = "idle"
        /\ \A m \in DOMAIN f.session.objs : f.session.objs[m].id \in Users => f.session.objs[m] = UserItem(u, v)
    BY <1>1, <1>3, ReadLogTaken
  <2> HIDE DEF f
  <2>3. Control(f, l)
    BY <2>2 DEF Control
  <2>4. Related(f.op, v, store[u], guesses[u], over)
    BY <1>5, <2>2
  <2> QED BY <1>1, <1>6, <2>1, <2>2, <2>3, <2>4, ReadFresh
<1>8. ASSUME ~Locking(w) PROVE Second'
  <2>1. req' = [req EXCEPT ![h] = k] /\ local' = [local EXCEPT ![h] = l] /\ UNCHANGED stale
    BY <1>1, <1>8 DEF Begin
  <2>2. /\ k.op = op /\ At(k) = "idle" /\ (k.pc = "flush" \/ v = store[u])
        /\ \A m \in DOMAIN k.session.objs : k.session.objs[m].id \in Users => k.session.objs[m] = UserItem(u, v)
    BY <1>1, <1>3, ReadFlushTaken
  <2>3. v # store[u]
    BY <1>1, <1>4
  <2> HIDE DEF k
  <2>4. Control(k, l)
    BY <2>2, <2>3 DEF Control
  <2>5. Related(k.op, v, store[u], guesses[u], over)
    BY <1>5, <2>2
  <2> QED BY <1>1, <1>6, <2>1, <2>2, <2>3, <2>4, <2>5, ReadFresh
<1> QED BY <1>7, <1>8

\* A right password clears the copy.
LEMMA RightFresh ==
  ASSUME Inv, Second, NEW h \in Handlers, NEW u \in Users, RightPassword(h, u)
  PROVE  Second'
<1> DEFINE w == store[u]
           v == [w EXCEPT !.attempts = 0, !.locked = 0]
           l == [NoLocals EXCEPT !.user = u]
           op == "login"
           pc == "granted"
           f == Flush(Read(u, op, v), pc)
<1>1. Stored(u) /\ Begin(h, f, l) /\ UNCHANGED <<store, guesses, over>> /\ ~(w.locked > over)
  BY DEF RightPassword, Refused, data, around, history
<1>2. w \in UserRecords /\ Sane(w, locks) /\ locks \in Nat /\ over \in Nat
  BY <1>1, InvFacts DEF Stored, AroundOK
<1>3. v \in UserRecords /\ v.mfa = w.mfa
  BY <1>2 DEF UserRecords
<1>4. op \in Names /\ op # "flush" /\ pc \in Names /\ pc # "flush"
  BY DEF Names
<1>5. l.challenge = "none"
  BY DEF NoLocals
<1>6. w.locked <= over
  <2>1. w.locked \in Nat
    BY <1>2 DEF UserRecords
  <2> QED BY <1>1, <1>2, <2>1
<1> HIDE DEF v, l
<1>7. /\ f.op = op /\ At(f) = pc
      /\ f.pc = "flush" \/ (f.pc = pc /\ v = store[u])
      /\ \A m \in DOMAIN f.session.objs : f.session.objs[m].id \in Users => f.session.objs[m] = UserItem(u, v)
  BY <1>2, <1>3, <1>4, ReadFlushTaken
<1>8. req' = [req EXCEPT ![h] = f] /\ local' = [local EXCEPT ![h] = l] /\ UNCHANGED stale
  BY <1>1 DEF Begin
<1> HIDE DEF f
<1>9. Related(f.op, v, store[u], guesses[u], over)
  BY <1>3, <1>6, <1>7 DEF Related
<1>10. Control(f, l)
  BY <1>5, <1>7 DEF Control
<1> QED BY <1>1, <1>7, <1>8, <1>9, <1>10, ReadFresh

\* setup_mfa gives the copy a new secret.
LEMMA SetupFresh ==
  ASSUME Inv, Second, NEW h \in Handlers, NEW u \in Users, Setup(h, u)
  PROVE  Second'
<1>1. PICK s \in Secrets \ {store[u].secret} :
        Begin(h, Flush(Read(u, "setup", [store[u] EXCEPT !.secret = s, !.mfa = FALSE]), "log"),
              [NoLocals EXCEPT !.user = u])
  BY DEF Setup
<1> DEFINE w == store[u]
           v == [w EXCEPT !.secret = s, !.mfa = FALSE]
           l == [NoLocals EXCEPT !.user = u]
           op == "setup"
           pc == "log"
           f == Flush(Read(u, op, v), pc)
<1>2. Stored(u) /\ Begin(h, f, l) /\ UNCHANGED <<store, guesses, over>> /\ ~w.mfa
  BY <1>1 DEF Setup, Authenticated, data, around, history
<1>3. w \in UserRecords
  BY <1>2, InvFacts DEF Stored
<1>4. v \in UserRecords /\ v.attempts = w.attempts /\ v.locked = w.locked
  BY <1>3 DEF UserRecords
<1>5. op \in Names /\ op # "flush" /\ pc \in Names /\ pc # "flush"
  BY DEF Names
<1> HIDE DEF v, l
<1>6. /\ f.op = op /\ At(f) = pc
      /\ f.pc = "flush" \/ f.pc = pc
      /\ \A m \in DOMAIN f.session.objs : f.session.objs[m].id \in Users => f.session.objs[m] = UserItem(u, v)
  BY <1>3, <1>4, <1>5, ReadFlushTaken
<1>7. req' = [req EXCEPT ![h] = f] /\ local' = [local EXCEPT ![h] = l] /\ UNCHANGED stale
  BY <1>2 DEF Begin
<1> HIDE DEF f
<1>8. Related(f.op, v, store[u], guesses[u], over)
  BY <1>2, <1>4, <1>6 DEF Related
<1>9. Control(f, l)
  BY <1>6 DEF Control
<1> QED BY <1>2, <1>6, <1>7, <1>8, <1>9, ReadFresh

\* enable_mfa turns MFA on in the copy.
LEMMA EnableFresh ==
  ASSUME Inv, Second, NEW h \in Handlers, NEW u \in Users, Enable(h, u)
  PROVE  Second'
<1>1. PICK code \in Secrets :
        /\ Accepted(store[u], code)
        /\ Begin(h, LogEvent(Read(u, "enable", [store[u] EXCEPT !.mfa = TRUE]), <<"enable", code>>, "idle"),
                 [NoLocals EXCEPT !.user = u])
  BY DEF Enable
<1> DEFINE w == store[u]
           v == [w EXCEPT !.mfa = TRUE]
           l == [NoLocals EXCEPT !.user = u]
           op == "enable"
           e == <<"enable", code>>
           n == locks
           f == LogEvent(Read(u, op, v), e, "idle")
<1>2. Stored(u) /\ Begin(h, f, l) /\ UNCHANGED <<store, guesses, over>>
  BY <1>1 DEF Enable, Authenticated, data, around, history
<1>3. w \in UserRecords /\ Sane(w, n) /\ n \in Nat
  BY <1>2, InvFacts DEF Stored
<1>4. v \in UserRecords /\ v.attempts = w.attempts /\ v.locked = w.locked /\ v.mfa
  BY <1>1, <1>3, EnableFacts DEF Accepted
<1>5. op \in Names /\ op # "flush" /\ e \in Events
  BY EventsOK DEF Names
<1> HIDE DEF v, l, e
<1>6. /\ f.op = op /\ f.pc = "flush" /\ At(f) = "idle"
      /\ \A m \in DOMAIN f.session.objs : f.session.objs[m].id \in Users => f.session.objs[m] = UserItem(u, v)
  BY <1>3, <1>4, <1>5, ReadLogTaken
<1>7. req' = [req EXCEPT ![h] = f] /\ local' = [local EXCEPT ![h] = l] /\ UNCHANGED stale
  BY <1>2 DEF Begin
<1> HIDE DEF f
<1>8. Related(f.op, v, store[u], guesses[u], over)
  BY <1>4, <1>6 DEF Related
<1>9. Control(f, l)
  BY <1>6 DEF Control
<1> QED BY <1>2, <1>6, <1>7, <1>8, <1>9, ReadFresh

\* A code is checked with a copy that nothing changes.
LEMMA CheckFresh ==
  ASSUME Inv, Second, NEW h \in Handlers, NEW u \in Users, CheckCode(h, u)
  PROVE  Second'
<1> DEFINE w == store[u]
           op == "otp"
           q == Read(u, op, w)
           r == [q EXCEPT !.pc = "delete"]
           l == [local[h] EXCEPT !.user = u]
<1>1. /\ Stored(u) /\ req' = [req EXCEPT ![h] = r] /\ local' = [local EXCEPT ![h] = l]
      /\ UNCHANGED <<store, guesses, over, stale>>
  BY DEF CheckCode, data, around, history
<1>2. w \in UserRecords
  BY <1>1, InvFacts DEF Stored
<1>3. op \in Names /\ op # "flush"
  BY DEF Names
<1>4. /\ q \in Requests(Names, Items) /\ q.op = op
      /\ \A m \in DOMAIN q.session.objs : q.session.objs[m] = UserItem(u, w)
  BY <1>2, <1>3, ReadFacts
<1> HIDE DEF q, l
<1>5. r.op = op /\ r.pc = "delete" /\ r.session = q.session
  <2>1. q \in Shape(Names, Items)
    BY <1>4, RequestFacts
  <2> HIDE DEF op
  <2> QED BY <1>4, <2>1 DEF Shape
<1> HIDE DEF r
<1>6. Related(r.op, w, store[u], guesses[u], over)
  BY <1>5 DEF Related
<1>7. Control(r, l)
  BY <1>5 DEF Control, At
<1>8. /\ \A m \in DOMAIN r.session.objs : r.session.objs[m].id \in Users => r.session.objs[m] = UserItem(u, w)
      /\ r.pc \notin {"idle", "did"} /\ (r.pc = "granted" => w = store[u])
  BY <1>4, <1>5
<1> HIDE DEF w
<1> QED BY <1>1, <1>6, <1>7, <1>8, ReadFresh DEF w

\* A handler that looks for a challenge holds nothing.
LEMMA GetFresh ==
  ASSUME Inv, Second, NEW h \in Handlers, NEW t \in Challenges, GetChallenge(h, t)
  PROVE  Second'
<1> DEFINE op == "otp"
           pc == "user"
           none == NoSession
           r == Start(op, none, pc)
           l == [NoLocals EXCEPT !.challenge = t]
<1>1. /\ req' = [req EXCEPT ![h] = r] /\ local' = [local EXCEPT ![h] = l]
      /\ UNCHANGED <<store, guesses, over, stale>>
  BY DEF GetChallenge, Begin, data, history
<1>2. none \in Sessions(Items) /\ DOMAIN none.objs = {}
  BY NoSessionType DEF NoSession
<1>3. op \in Names /\ pc \in Names /\ pc # "flush" /\ pc # "did" /\ pc # "idle"
  BY DEF Names
<1> HIDE DEF op, pc, none, l
<1>4. r.session = none /\ r.pc = pc /\ r.op = op
  BY <1>2, <1>3, StartType, NamesBasic
<1> HIDE DEF r
<1>5. Holds(r) = {}
  BY <1>2, <1>4 DEF Holds
<1>6. Control(r, l)
  BY <1>4 DEF Control, At, op, pc
<1>7. Fresh(h, r, store, stale', guesses, over)
  BY <1>3, <1>4, <1>5, NothingFresh
<1> QED BY <1>1, <1>6, <1>7, FreshFrame

\* An idle handler stores nothing.
LEMMA IdleFresh ==
  /\ \A h, st, old, g, ov : Fresh(h, Idle, st, old, g, ov)
  /\ \A l : Control(Idle, l)
  /\ Idle.pc = "idle" /\ Idle.op = "none" /\ Holds(Idle) = {}
<1>1. Idle.pc = "idle" /\ Idle.op = "none" /\ Idle.then = "idle"
  BY DEF Idle
<1>2. ToStore(Idle) = {} /\ Holds(Idle) = {}
  BY IdleStores DEF Holds
<1>3. \A l : Control(Idle, l)
  BY <1>1 DEF Control, At
<1>4. \A h, st, old, g, ov : Fresh(h, Idle, st, old, g, ov)
  BY <1>1, <1>2 DEF Fresh
<1> QED BY <1>1, <1>2, <1>3, <1>4

\* A handler fails.
LEMMA FailFresh ==
  ASSUME Inv, Second, NEW h \in Handlers, Fail(h)
  PROVE  Second'
<1> DEFINE r == Idle
           l == NoLocals
<1>1. /\ req' = [req EXCEPT ![h] = r] /\ local' = [local EXCEPT ![h] = l]
      /\ UNCHANGED <<store, guesses, over>> /\ stale' = {s \in stale : s[1] # h}
  BY DEF Fail, End, data, around, history
<1>2. \A x \in Handlers \ {h} : \A y \in Users : <<x, y>> \in stale => <<x, y>> \in stale'
  BY <1>1
<1>3. Control(r, l) /\ Fresh(h, r, store, stale', guesses, over)
  BY IdleFresh
<1> HIDE DEF r, l
<1> QED BY <1>1, <1>2, <1>3, FreshFrame

\* A lock runs out: the copies of the handlers stay current.
LEMMA LockFresh ==
  ASSUME Inv, Second, LockRunsOut
  PROVE  Second'
<1> DEFINE st == store
           old == stale
           g == guesses
           ov == over
           g2 == guesses'
           ov2 == over'
<1>1. /\ UNCHANGED <<req, local, store, stale>> /\ ov2 = ov + 1 /\ g2 = NoGuesses
      /\ ov \in Nat /\ st \in [Users -> UserRecords \cup {Absent}]
  BY InvFacts DEF LockRunsOut, data, handlers, AroundOK, StoreOK
<1>2. g2 \in [Users -> Nat] /\ ov2 \in Nat /\ ov <= ov2 /\ \A u \in Users : g2[u] = 0
  BY <1>1 DEF NoGuesses
<1> HIDE DEF st, old, g, ov, g2, ov2
<1>3. ASSUME NEW h \in Handlers
      PROVE  Fresh(h, req[h], st, old, g2, ov2) /\ Control(req[h], local[h])
  <2>1. Fresh(h, req[h], st, old, g, ov) /\ Control(req[h], local[h])
    BY DEF Second, st, old, g, ov
  <2>2. ASSUME NEW m \in Holds(req[h])
        PROVE  Current(h, req[h].op, req[h].pc, req[h].session.objs[m], st, old, g2, ov2)
    <3> DEFINE o == req[h].session.objs[m]
               op == req[h].op
               pc == req[h].pc
    <3>1. o.id \in Users /\ Current(h, op, pc, o, st, old, g, ov)
      BY <2>1 DEF Holds, Fresh
    <3>2. st[o.id] # Absent => st[o.id].locked \in Nat
      BY <1>1, <3>1 DEF UserRecords
    <3> HIDE DEF o, op, pc
    <3>3. g2[o.id] = 0
      BY <1>2, <3>1
    <3>4. Current(h, op, pc, o, st, old, g2, ov2)
      BY <1>1, <1>2, <3>1, <3>2, <3>3, CurrentFrame
    <3> QED BY <3>4 DEF o, op, pc
  <2> QED BY <2>1, <2>2 DEF Fresh
<1> QED BY <1>1, <1>2, <1>3 DEF Second, st, old, g2, ov2

\* Other steps, and those of the environment, leave this layer as it is.
LEMMA RestFresh ==
  ASSUME Second,
         \/ Refresh \/ AccessExpires \/ RedisStops \/ UNCHANGED vars
         \/ \E t \in Challenges : ChallengeExpires(t)
  PROVE  Second'
<1>1. UNCHANGED <<req, local, store, stale, guesses, over>>
  BY DEF Refresh, AccessExpires, RedisStops, vars, ChallengeExpires, data, around, handlers, history
<1> QED BY <1>1 DEF Second

\* What a handler stores, and what becomes of the others' copies of it.
LEMMA WriteFacts ==
  ASSUME Inv, NEW h \in Handlers, Write(h), NEW r, r = req[h], NEW o, o = NextObject(r),
         NEW a, a = AfterWrite(r)
  PROVE  /\ r.pc = "flush" /\ o \in Items /\ r.writing[1] \in ToStore(r)
         /\ r.writing[1] \in DOMAIN r.session.objs /\ o = r.session.objs[r.writing[1]]
         /\ o.id \in Users =>
              /\ store' = [store EXCEPT ![o.id] = o.val] /\ o.val \in UserRecords /\ Tally(h, o.id)
              /\ \A g \in Handlers \ {h} : ~Idles(g) => <<g, o.id>> \in stale'
              /\ a.pc # "flush" /\ r.writing[1] \in Holds(r)
         /\ o.id \notin Users => UNCHANGED <<store, guesses, lapped>>
         /\ \A g \in Handlers \ {h} : \A x : <<g, x>> \in stale => <<g, x>> \in stale'
         /\ a.pc = "idle" => req' = [req EXCEPT ![h] = Idle] /\ local' = [local EXCEPT ![h] = NoLocals]
         /\ a.pc # "idle" => req' = [req EXCEPT ![h] = a] /\ UNCHANGED local /\ stale \subseteq stale'
         /\ UNCHANGED <<over, otp, client>>
<1>1. /\ r.pc = "flush"
      /\ IF a.pc = "idle" THEN End(h) ELSE req' = [req EXCEPT ![h] = a] /\ UNCHANGED local
      /\ IF o.id \in Users
         THEN store' = [store EXCEPT ![o.id] = o.val] /\ UNCHANGED inserted /\ Tally(h, o.id)
         ELSE inserted' = inserted \cup {<<o.id, o.val>>} /\ UNCHANGED <<store, guesses, lapped>>
      /\ stale' = {s \in (IF o.id \in Users THEN Outdate(h, o.id) ELSE stale) : a.pc = "idle" => s[1] # h}
      /\ UNCHANGED <<over, otp, client>>
  BY DEF Write, around
<1>2. /\ r \in Requests(Names, Items) /\ o \in Items
      /\ r.writing[1] \in DOMAIN r.session.objs /\ o = r.session.objs[r.writing[1]]
      /\ o.id \in Users => Len(r.writing) = 1 /\ o.val \in UserRecords
  BY <1>1, FlushFacts
<1>3. r.writing[1] \in ToStore(r)
  BY <1>1, <1>2, WriteStores, NamesBasic
<1>4. o.id \in Users => a.pc # "flush" /\ r.writing[1] \in Holds(r)
  <2>1. SUFFICES ASSUME o.id \in Users PROVE a.pc # "flush" /\ r.writing[1] \in Holds(r)
    OBVIOUS
  <2> DEFINE n == Len(r.writing)
  <2>0. r \in Requests(Names, Items) /\ r.pc = "flush"
    BY <1>1, <1>2
  <2>2. n > 1 \/ (a.pc = r.then /\ r.then # "flush")
    BY <2>0, AfterWriteType, NamesBasic
  <2>3. ~(n > 1)
    <3>1. n = 1
      BY <1>2, <2>1
    <3> HIDE DEF n
    <3> QED BY <3>1
  <2> QED BY <1>2, <1>3, <2>1, <2>2, <2>3 DEF Holds
<1>5. /\ \A g \in Handlers \ {h} : \A x : <<g, x>> \in stale => <<g, x>> \in stale'
      /\ o.id \in Users => \A g \in Handlers \ {h} : ~Idles(g) => <<g, o.id>> \in stale'
      /\ a.pc # "idle" => stale \subseteq stale'
  BY <1>1 DEF Outdate
<1>6. a.pc = "idle" => req' = [req EXCEPT ![h] = Idle] /\ local' = [local EXCEPT ![h] = NoLocals]
  BY <1>1 DEF End
<1> QED BY <1>1, <1>2, <1>3, <1>4, <1>5, <1>6

\* Whoever has something to store is not idle.
LEMMA HoldsNotIdle ==
  ASSUME Second, NEW h \in Handlers, Holds(req[h]) # {}
  PROVE  ~Idles(h)
BY DEF Second, Fresh, Holds, Idles

\* A write by another handler: the copies of what it stores are stale from now on.
LEMMA OthersCurrent ==
  ASSUME Inv, Second, NEW h \in Handlers, Write(h), NEW g \in Handlers, g # h
  PROVE  Fresh(g, req[g], store', stale', guesses', over')
<1> DEFINE r == req[h]
           o == NextObject(r)
           a == AfterWrite(r)
           q == req[g]
           st == store
           old == stale
           gs == guesses
           ov == over
           st2 == store'
           old2 == stale'
           gs2 == guesses'
           ov2 == over'
<1>1. /\ o \in Items
      /\ o.id \in Users =>
           /\ st2 = [st EXCEPT ![o.id] = o.val] /\ o.val \in UserRecords /\ Tally(h, o.id)
           /\ ~Idles(g) => <<g, o.id>> \in old2
      /\ o.id \notin Users => st2 = st /\ gs2 = gs
      /\ \A x : <<g, x>> \in old => <<g, x>> \in old2
      /\ ov2 = ov
  BY WriteFacts
<1>2. Fresh(g, q, st, old, gs, ov) /\ guesses \in [Users -> Nat]
  BY DEF Second
<1>3. st \in [Users -> UserRecords \cup {Absent}] /\ ov \in Nat
  BY InvFacts DEF StoreOK, AroundOK
<1>4. \A u \in Users : u # o.id => st2[u] = st[u] /\ gs2[u] = gs[u]
  <2>1. CASE o.id \in Users
    <3>1. \A u \in Users : u # o.id => gs2[u] = gs[u]
      BY <1>1, <1>2, <2>1 DEF Tally
    <3> HIDE DEF o
    <3> QED BY <1>1, <1>3, <2>1, <3>1
  <2>2. CASE o.id \notin Users
    BY <1>1, <2>2
  <2> QED BY <2>1, <2>2
<1>5. \A u \in Users : st[u] # Absent => st2[u] # Absent
  <2> HIDE DEF o
  <2> QED BY <1>1, <1>3, <1>4, AbsentIsNone
<1>6. Holds(q) # {} => ~Idles(g)
  BY HoldsNotIdle
<1> HIDE DEF r, a, q, st, old, gs, ov, st2, old2, gs2, ov2
<1>7. ASSUME NEW m \in Holds(q)
      PROVE  Current(g, q.op, q.pc, q.session.objs[m], st2, old2, gs2, ov2)
  <2> DEFINE p == q.session.objs[m]
             op == q.op
             pc == q.pc
  <2>1. p.id \in Users /\ Current(g, op, pc, p, st, old, gs, ov)
    BY <1>2 DEF Holds, Fresh
  <2>2. o.id \in Users => <<g, o.id>> \in old2
    BY <1>1, <1>6, <1>7
  <2> HIDE DEF p, op, pc, o
  <2> DEFINE u == p.id
  <2>3. st2[u] # Absent \/ (op = "register" /\ \A v \in Users : st2[v] # Absent => <<g, v>> \in old2)
    <3>1. st[u] # Absent \/ (op = "register" /\ \A v \in Users : st[v] # Absent => <<g, v>> \in old)
      BY <2>1 DEF Current
    <3>2. \A v \in Users : st2[v] # Absent => st[v] # Absent \/ v = o.id
      BY <1>4
    <3> QED BY <1>1, <1>5, <2>1, <2>2, <3>1, <3>2
  <2>4. <<g, u>> \in old2 \/ (u # o.id /\ <<g, u>> \notin old)
    BY <1>1, <2>1, <2>2
  <2>5. ASSUME <<g, u>> \in old2 PROVE Current(g, op, pc, p, st2, old2, gs2, ov2)
    <3>1. pc = "granted" => st2[u] # Absent
      BY <1>5, <2>1 DEF Current
    <3> QED BY <2>3, <2>5, <3>1 DEF Current
  <2>6. ASSUME u # o.id, <<g, u>> \notin old PROVE Current(g, op, pc, p, st2, old2, gs2, ov2)
    <3>1. st2[u] = st[u] /\ gs2[u] = gs[u]
      BY <1>4, <2>1, <2>6
    <3>2. /\ st[u] # Absent => Related(op, p.val, st[u], gs[u], ov)
          /\ pc = "granted" => st[u] # Absent /\ p.val = st[u]
      BY <2>1, <2>6 DEF Current
    <3>3. /\ st2[u] # Absent => Related(op, p.val, st2[u], gs2[u], ov2)
          /\ pc = "granted" => st2[u] # Absent /\ p.val = st2[u]
      <4>1. ov2 = ov
        BY <1>1
      <4> QED BY <3>1, <3>2, <4>1
    <3> HIDE DEF u
    <3> QED BY <2>3, <3>3 DEF Current, u
  <2>7. Current(g, op, pc, p, st2, old2, gs2, ov2)
    BY <2>4, <2>5, <2>6
  <2> QED BY <2>7 DEF p, op, pc
<1>8. q.pc \in {"idle", "did"} => ToStore(q) = {}
  BY <1>2 DEF Fresh
<1>9. Fresh(g, q, st2, old2, gs2, ov2)
  BY <1>7, <1>8 DEF Fresh
<1> QED BY <1>9 DEF q, st2, old2, gs2, ov2

\* The handler itself goes on with what it had, or with nothing.
LEMMA WriterCurrent ==
  ASSUME Inv, Second, NEW h \in Handlers, Write(h), NEW a, a = AfterWrite(req[h]), a.pc # "idle"
  PROVE  Fresh(h, a, store', stale', guesses', over') /\ Control(a, local[h])
<1> DEFINE r == req[h]
           o == NextObject(r)
           l == local[h]
           st == store
           old == stale
           gs == guesses
           ov == over
           st2 == store'
           old2 == stale'
           gs2 == guesses'
           ov2 == over'
<1>1. /\ r.pc = "flush"
      /\ o.id \in Users => a.pc # "flush"
      /\ o.id \notin Users => st2 = st /\ gs2 = gs
      /\ old \subseteq old2 /\ ov2 = ov
  BY WriteFacts
<1>2. Fresh(h, r, st, old, gs, ov) /\ Control(r, l)
  BY DEF Second
<1>3. st \in [Users -> UserRecords \cup {Absent}] /\ ov \in Nat /\ r \in Requests(Names, Items)
  BY InvFacts DEF StoreOK, AroundOK
<1>4. /\ a.session.objs = r.session.objs /\ a.op = r.op
      /\ \/ a.pc = "flush" /\ a.then = r.then
         \/ a.pc = r.then /\ r.then # "flush"
  BY <1>1, <1>3, AfterWriteType, NamesBasic
<1>5. ToStore(a) \subseteq ToStore(r) /\ (a.pc = "flush" \/ ToStore(a) = {})
  BY <1>1, <1>3, WriteStores, NamesBasic
<1> HIDE DEF r, o, l, st, old, gs, ov, st2, old2, gs2, ov2
<1>6. Control(a, l)
  BY <1>1, <1>2, <1>4 DEF Control, At
<1>7. CASE ToStore(a) = {}
  <2>1. Holds(a) = {}
    BY <1>7 DEF Holds
  <2>2. Fresh(h, a, st2, old2, gs2, ov2)
    BY <1>7, <2>1, NothingFresh
  <2> QED BY <1>6, <2>2 DEF l, st2, old2, gs2, ov2
<1>8. CASE a.pc = "flush"
  <2>1. st2 = st /\ gs2 = gs
    BY <1>1, <1>8
  <2>2. ASSUME NEW m \in Holds(a)
        PROVE  Current(h, a.op, a.pc, a.session.objs[m], st, old2, gs, ov)
    <3> DEFINE p == r.session.objs[m]
               op == r.op
               pc == r.pc
    <3>1. m \in Holds(r) /\ a.session.objs[m] = p
      BY <1>4, <1>5 DEF Holds
    <3>2. p.id \in Users /\ Current(h, op, pc, p, st, old, gs, ov)
      BY <1>2, <3>1 DEF Holds, Fresh
    <3>3. st[p.id] # Absent => st[p.id].locked \in Nat
      BY <1>3, <3>2 DEF UserRecords
    <3>4. a.pc = "granted" => pc = "granted"
      BY <1>8
    <3> HIDE DEF p, op, pc
    <3>5. Current(h, op, a.pc, p, st, old2, gs, ov)
      BY <1>1, <1>3, <3>2, <3>3, <3>4, CurrentFrame
    <3> QED BY <1>4, <3>1, <3>5 DEF op
  <2>3. Fresh(h, a, st2, old2, gs2, ov2)
    BY <1>1, <1>8, <2>1, <2>2 DEF Fresh
  <2> QED BY <1>6, <2>3 DEF l, st2, old2, gs2, ov2
<1> QED BY <1>5, <1>7, <1>8

\* A handler stores an object.
LEMMA WriteFresh ==
  ASSUME Inv, Second, NEW h \in Handlers, Write(h)
  PROVE  Second'
<1> DEFINE o == NextObject(req[h])
           a == AfterWrite(req[h])
           l == local[h]
<1>1. /\ o.id \in Users => Tally(h, o.id)
      /\ o.id \notin Users => guesses' = guesses
      /\ a.pc = "idle" => req' = [req EXCEPT ![h] = Idle] /\ local' = [local EXCEPT ![h] = NoLocals]
      /\ a.pc # "idle" => req' = [req EXCEPT ![h] = a] /\ UNCHANGED local
  BY WriteFacts
<1>2. guesses' \in [Users -> Nat]
  <2>1. guesses \in [Users -> Nat]
    BY DEF Second
  <2> HIDE DEF o
  <2>2. CASE o.id \in Users
    <3>1. \/ guesses' = [guesses EXCEPT ![o.id] = @ + 1]
          \/ guesses' = [guesses EXCEPT ![o.id] = 0]
          \/ guesses' = guesses
      BY <1>1, <2>2 DEF Tally
    <3> QED BY <2>1, <2>2, <3>1
  <2> QED BY <1>1, <2>1, <2>2
<1>3. ASSUME NEW g \in Handlers
      PROVE  Fresh(g, req'[g], store', stale', guesses', over') /\ Control(req'[g], local'[g])
  <2>1. CASE g # h
    <3>1. req'[g] = req[g] /\ local'[g] = local[g] /\ Control(req[g], local[g])
      <4> HIDE DEF a
      <4> QED BY <1>1, <2>1, InvFacts DEF Second
    <3>2. Fresh(g, req[g], store', stale', guesses', over')
      BY <2>1, OthersCurrent
    <3> QED BY <3>1, <3>2
  <2>2. CASE g = h /\ a.pc = "idle"
    <3>1. req'[g] = Idle
      BY <1>1, <2>2, InvFacts
    <3> QED BY <3>1, IdleFresh
  <2>3. CASE g = h /\ a.pc # "idle"
    <3>1. Fresh(h, a, store', stale', guesses', over') /\ Control(a, l)
      BY <2>3, WriterCurrent
    <3>2. req'[h] = a /\ local'[h] = l
      <4> HIDE DEF a
      <4> QED BY <1>1, <2>3, InvFacts
    <3> QED BY <2>3, <3>1, <3>2
  <2> QED BY <2>1, <2>2, <2>3
<1> QED BY <1>2, <1>3 DEF Second

\* Every step preserves the second layer.
LEMMA NextFresh ==
  ASSUME Inv, Second, [Next]_vars
  PROVE  Second'
<1>1. ASSUME NEW h \in Handlers,
             \/ Register(h) \/ AddProfiles(h) \/ Grant(h) \/ IssueChallenge(h)
             \/ DeleteChallenge(h) \/ LogSetup(h) \/ Write(h) \/ Fail(h)
      PROVE  Second'
  BY <1>1, RegisterFresh, AddProfilesFresh, GrantFresh, IssueFresh, DeleteFresh, LogSetupFresh,
     WriteFresh, FailFresh
<1>2. ASSUME NEW h \in Handlers, NEW u \in Users,
             WrongPassword(h, u) \/ RightPassword(h, u) \/ CheckCode(h, u) \/ Setup(h, u) \/ Enable(h, u)
      PROVE  Second'
  BY <1>2, WrongFresh, RightFresh, CheckFresh, SetupFresh, EnableFresh
<1>3. ASSUME NEW h \in Handlers, NEW t \in Challenges, GetChallenge(h, t) PROVE Second'
  BY <1>3, GetFresh
<1> QED BY <1>1, <1>2, <1>3, LockFresh, RestFresh DEF Next

\* The initial states.
LEMMA InitFresh == ASSUME Init PROVE Second
<1>1. guesses = NoGuesses /\ req = [h \in Handlers |-> Idle]
  BY DEF Init
<1>2. guesses \in [Users -> Nat]
  BY <1>1 DEF NoGuesses
<1>3. \A h \in Handlers : Fresh(h, req[h], store, stale, guesses, over) /\ Control(req[h], local[h])
  BY <1>1, IdleFresh
<1> QED BY <1>2, <1>3 DEF Second

\* Accounts change when a handler stores one, and only then.
LEMMA OnlyWritesStore ==
  ASSUME [Next]_vars, store' # store
  PROVE  \E h \in Handlers : Write(h)
<1>1. CASE UNCHANGED vars
  BY <1>1 DEF vars, data
<1>2. ASSUME NEW h \in Handlers,
             \/ Register(h) \/ AddProfiles(h) \/ Grant(h) \/ IssueChallenge(h)
             \/ DeleteChallenge(h) \/ LogSetup(h) \/ Fail(h)
      PROVE  store' = store
  BY <1>2 DEF Register, AddProfiles, Grant, IssueChallenge, DeleteChallenge, LogSetup, Fail, data
<1>3. ASSUME NEW h \in Handlers, NEW u \in Users,
             WrongPassword(h, u) \/ RightPassword(h, u) \/ CheckCode(h, u) \/ Setup(h, u) \/ Enable(h, u)
      PROVE  store' = store
  BY <1>3 DEF WrongPassword, RightPassword, CheckCode, Setup, Enable, data
<1>4. ASSUME NEW h \in Handlers, NEW t \in Challenges, GetChallenge(h, t) PROVE store' = store
  BY <1>4 DEF GetChallenge, data
<1>5. ASSUME \/ Refresh \/ LockRunsOut \/ AccessExpires \/ RedisStops
             \/ \E t \in Challenges : ChallengeExpires(t)
      PROVE  store' = store
  BY <1>5 DEF Refresh, LockRunsOut, AccessExpires, RedisStops, ChallengeExpires, data
<1> QED BY <1>1, <1>2, <1>3, <1>4, <1>5 DEF Next

\* What is stored of user u, unless the handler's copy of u is stale.
LEMMA StoredCurrent ==
  ASSUME Inv, Second, [Next]_vars, NEW u \in Users, store'[u] # store[u]
  PROVE  \E h \in Handlers :
           /\ req[h].pc = "flush" /\ over' = over
           /\ store[u] = Absent =>
                req[h].op = "register" /\ \A v \in Users : store[v] # Absent => <<h, v>> \in stale
           /\ store[u] # Absent =>
                <<h, u>> \in stale \/ Related(req[h].op, store'[u], store[u], guesses[u], over)
<1>1. PICK h \in Handlers : Write(h)
  BY OnlyWritesStore
<1> DEFINE r == req[h]
           o == NextObject(r)
           m == r.writing[1]
<1>2. /\ r.pc = "flush" /\ o = r.session.objs[m] /\ over' = over
      /\ o.id \in Users => store' = [store EXCEPT ![o.id] = o.val] /\ m \in Holds(r)
      /\ o.id \notin Users => store' = store
  BY <1>1, WriteFacts
<1>3. store \in [Users -> UserRecords \cup {Absent}]
  BY InvFacts DEF StoreOK
<1>4. Fresh(h, r, store, stale, guesses, over)
  BY DEF Second
<1> HIDE DEF o, m
<1>5. o.id \in Users /\ m \in Holds(r) /\ store' = [store EXCEPT ![o.id] = o.val]
  BY <1>2
<1>6. o.id = u /\ store'[u] = o.val
  BY <1>3, <1>5
<1>7. Current(h, r.op, r.pc, o, store, stale, guesses, over)
  BY <1>2, <1>4, <1>5 DEF Fresh
<1> HIDE DEF r
<1>8. /\ store[u] = Absent =>
           r.op = "register" /\ \A v \in Users : store[v] # Absent => <<h, v>> \in stale
      /\ store[u] # Absent =>
           <<h, u>> \in stale \/ Related(r.op, store'[u], store[u], guesses[u], over)
  BY <1>6, <1>7 DEF Current
<1> QED BY <1>2, <1>8 DEF r

\* The two layers are an invariant.
THEOREM Currency == Spec => [](Inv /\ Second)
<1>1. Init => Inv /\ Second
  BY InitOK, InitFresh
<1>2. Inv /\ Second /\ [Next]_vars => (Inv /\ Second)'
  BY NextOK, NextFresh
<1> QED BY <1>1, <1>2, PTL DEF Spec

\* login's lockout and enable_mfa (auth.py, lines 136-140 and 268): a lock in
\* force and MFA disappear only by a handler whose copy is out of date, whatever
\* the handlers, the limits and the locks.
THEOREM Protections == Spec => ProtectionLostOnlyByOverlap
<1> DEFINE A == \A u \in Users :
                  Stored(u) /\ (\/ store[u].locked > over' /\ store'[u].locked <= over'
                                \/ store[u].mfa /\ ~store'[u].mfa)
                    => \E h \in Handlers : req[h].pc = "flush" /\ <<h, u>> \in stale
<1>1. ASSUME Inv, Second, [Next]_vars PROVE A
  <2>1. SUFFICES ASSUME NEW u \in Users, Stored(u),
                        \/ store[u].locked > over' /\ store'[u].locked <= over'
                        \/ store[u].mfa /\ ~store'[u].mfa
                 PROVE  \E h \in Handlers : req[h].pc = "flush" /\ <<h, u>> \in stale
    OBVIOUS
  <2> DEFINE w == store[u]
             v == store'[u]
             n == over'
  <2>2. w \in UserRecords
    BY <1>1, <2>1, InvFacts DEF Stored
  <2>3. over \in Nat /\ over' \in Nat /\ v \in UserRecords \cup {Absent}
    <3>1. Inv'
      BY <1>1, NextOK
    <3>2. over \in Nat
      BY <1>1, InvFacts DEF AroundOK
    <3>3. over' \in 0..locks' /\ store' \in [Users -> UserRecords \cup {Absent}]
      BY <3>1 DEF Inv, AroundOK, StoreOK
    <3> QED BY <3>2, <3>3
  <2>4. v # w
    <3> HIDE DEF v, n
    <3>1. w.locked \in Nat /\ n \in Nat
      BY <2>2, <2>3 DEF UserRecords, n
    <3>2. (w.locked > n /\ v.locked <= n) \/ (w.mfa /\ ~v.mfa)
      BY <2>1 DEF v, n
    <3> HIDE DEF w
    <3> QED BY <3>1, <3>2
  <2>5. PICK h \in Handlers :
          /\ req[h].pc = "flush" /\ over' = over
          /\ <<h, u>> \in stale \/ Related(req[h].op, v, w, guesses[u], over)
    BY <1>1, <2>1, <2>4, StoredCurrent DEF Stored
  <2>6. ASSUME Related(req[h].op, v, w, guesses[u], over) PROVE FALSE
    <3> DEFINE op == req[h].op
               g == guesses[u]
    <3>1. w.locked \in Nat /\ over' = over /\ over \in Nat
      BY <2>2, <2>3, <2>5 DEF UserRecords
    <3>2. (w.locked > over /\ v.locked <= over) \/ (w.mfa /\ ~v.mfa)
      BY <2>1, <3>1
    <3> HIDE DEF v, w, op, g
    <3>3. /\ w.mfa => v.mfa
          /\ w.locked <= over \/ v.locked = w.locked
      BY <2>6 DEF Related, op, g
    <3> QED BY <3>1, <3>2, <3>3
  <2> QED BY <2>5, <2>6
<1>2. Inv /\ Second /\ [Next]_vars => [A]_vars
  BY <1>1
<1> QED BY <1>2, Currency, PTL DEF Spec, ProtectionLostOnlyByOverlap

\* register (auth.py, lines 71-73): a second account for the email is stored only
\* by a handler that had looked before the first one was.
THEOREM OneAccount == Spec => OneAccountPerEmail
<1> DEFINE A == \A u, v \in Users :
                  Stored(v) /\ ~Stored(u) /\ store'[u] # Absent
                    => \E h \in Handlers : req[h].pc = "flush" /\ <<h, v>> \in stale
<1>1. ASSUME Inv, Second, [Next]_vars PROVE A
  <2>1. SUFFICES ASSUME NEW u \in Users, NEW v \in Users, Stored(v), ~Stored(u), store'[u] # Absent
                 PROVE  \E h \in Handlers : req[h].pc = "flush" /\ <<h, v>> \in stale
    OBVIOUS
  <2>2. store[u] = Absent /\ store[v] # Absent /\ store'[u] # store[u]
    BY <2>1 DEF Stored
  <2>3. PICK h \in Handlers :
          req[h].pc = "flush" /\ \A x \in Users : store[x] # Absent => <<h, x>> \in stale
    BY <1>1, <2>2, StoredCurrent
  <2> QED BY <2>2, <2>3
<1>2. Inv /\ Second /\ [Next]_vars => [A]_vars
  BY <1>1
<1> QED BY <1>2, Currency, PTL DEF Spec, OneAccountPerEmail

-----------------------------------------------------------------------------
(* The third layer: who uses a challenge *)

\* Handler h checks or has checked a code of challenge t; it has deleted t.
Using(h, t) == req[h].op \in {"otp", "sign_in"} /\ local[h].challenge = t
SigningIn(h, t) == req[h].op = "sign_in" /\ local[h].challenge = t

\* Where process p looks for challenges.
Place(p) == IF client[p] = "redis" THEN "redis" ELSE p

\* A challenge that was used, or is about to be, is gone for good; and whoever
\* uses it looks for it where it is kept, and is the first one to use it unless
\* what it found is out of date.
ChallengeOK(t) ==
  /\ spent[t] > 0 \/ (\E h \in Handlers : SigningIn(h, t)) => otp[t] = Nowhere /\ Logged("challenge", t)
  /\ \A h \in Handlers : Using(h, t) =>
       /\ Logged("challenge", t) /\ client[ProcessOf[h]] # "unknown"
       /\ otp[t] \in {Nowhere, Place(ProcessOf[h])}
       /\ <<h, t>> \in stale \/ (spent[t] = 0 /\ \A g \in Handlers \ {h} : ~SigningIn(g, t))

\* The third layer of the invariant.
Third ==
  /\ spent \in [Challenges -> Nat]
  /\ \A t \in Challenges : ChallengeOK(t)

\* A process that has chosen its place keeps it.
LEMMA ReachesFacts ==
  ASSUME Inv, NEW h \in Handlers, NEW place, Reaches(h, place), NEW p, p = ProcessOf[h]
  PROVE  /\ p \in Processes /\ place = Place(p)' /\ place # Nowhere /\ client'[p] # "unknown"
         /\ \A q \in Processes : client[q] # "unknown" => client'[q] = client[q]
<1>1. p \in Processes /\ p # Nowhere /\ client \in [Processes -> {"unknown", "redis", "memory"}]
  BY InvFacts, NamesAssumption DEF AroundOK, Nowhere
<1>2. /\ IF Reached(p) = "redis" THEN redisUp /\ place = "redis" ELSE place = p
      /\ client' = [client EXCEPT ![p] = Reached(p)]
  BY DEF Reaches
<1>3. /\ Reached(p) \in {"redis", "memory"}
      /\ client[p] # "unknown" => Reached(p) = client[p]
  BY <1>1 DEF Reached
<1>4. client'[p] = Reached(p) /\ \A q \in Processes : q # p => client'[q] = client[q]
  BY <1>1, <1>2
<1> QED BY <1>1, <1>2, <1>3, <1>4 DEF Place, Nowhere

\* A step of handler h, or of none, that does not make h use challenge t.
LEMMA ChallengeStep ==
  ASSUME NEW t \in Challenges, ChallengeOK(t), NEW h, inserted \subseteq inserted',
         spent'[t] = spent[t], otp'[t] \in {otp[t], Nowhere},
         \A p \in Processes : client[p] # "unknown" => client'[p] = client[p],
         \A g \in Handlers \ {h} :
           req'[g] = req[g] /\ local'[g] = local[g] /\ (<<g, t>> \in stale => <<g, t>> \in stale'),
         Using(h, t)' => Using(h, t) /\ (<<h, t>> \in stale => <<h, t>> \in stale'),
         SigningIn(h, t)' => SigningIn(h, t)
  PROVE  ChallengeOK(t)'
<1>1. \A g \in Handlers : SigningIn(g, t)' => SigningIn(g, t)
  BY DEF SigningIn
<1>2. \A g \in Handlers : Using(g, t)' => Using(g, t) /\ (<<g, t>> \in stale => <<g, t>> \in stale')
  BY DEF Using
<1>3. Logged("challenge", t) => Logged("challenge", t)'
  BY DEF Logged
<1>4. \A g \in Handlers : ProcessOf[g] \in Processes
  BY NamesAssumption
<1>5. ASSUME spent'[t] > 0 \/ (\E g \in Handlers : SigningIn(g, t)')
      PROVE  otp'[t] = Nowhere /\ Logged("challenge", t)'
  BY <1>1, <1>3, <1>5 DEF ChallengeOK
<1>6. ASSUME NEW g \in Handlers, Using(g, t)'
      PROVE  /\ Logged("challenge", t)' /\ client'[ProcessOf[g]] # "unknown"
             /\ otp'[t] \in {Nowhere, Place(ProcessOf[g])'}
             /\ <<g, t>> \in stale' \/ (spent'[t] = 0 /\ \A x \in Handlers \ {g} : ~SigningIn(x, t)')
  <2>1. /\ Logged("challenge", t) /\ client[ProcessOf[g]] # "unknown"
        /\ otp[t] \in {Nowhere, Place(ProcessOf[g])}
        /\ <<g, t>> \in stale \/ (spent[t] = 0 /\ \A x \in Handlers \ {g} : ~SigningIn(x, t))
    BY <1>2, <1>6 DEF ChallengeOK
  <2>2. client'[ProcessOf[g]] = client[ProcessOf[g]]
    BY <1>4, <2>1
  <2>3. Place(ProcessOf[g])' = Place(ProcessOf[g])
    BY <2>2 DEF Place
  <2> QED BY <1>1, <1>2, <1>3, <1>6, <2>1, <2>2, <2>3
<1> QED BY <1>5, <1>6 DEF ChallengeOK

\* A step of handler h that uses no challenge, or the one it has as before.
LEMMA ThirdFrame ==
  ASSUME Inv, Third, NEW h \in Handlers, NEW r, req' = [req EXCEPT ![h] = r],
         NEW l, local' = [local EXCEPT ![h] = l],
         UNCHANGED <<otp, client, spent>>, inserted \subseteq inserted',
         \A g \in Handlers \ {h} : \A x : <<g, x>> \in stale => <<g, x>> \in stale',
         \/ l.challenge = "none"
         \/ l.challenge = local[h].challenge /\ r.op = req[h].op /\ stale \subseteq stale'
  PROVE  Third'
<1>1. /\ req'[h] = r /\ local'[h] = l
      /\ \A g \in Handlers \ {h} : req'[g] = req[g] /\ local'[g] = local[g]
  BY InvFacts
<1>2. ASSUME NEW t \in Challenges PROVE ChallengeOK(t)'
  <2>1. ChallengeOK(t) /\ t # "none"
    BY NamesAssumption DEF Third
  <2>2. Using(h, t)' => Using(h, t) /\ (<<h, t>> \in stale => <<h, t>> \in stale')
    BY <1>1, <2>1 DEF Using
  <2>3. SigningIn(h, t)' => SigningIn(h, t)
    BY <1>1, <2>1 DEF SigningIn
  <2>4. \A g \in Handlers \ {h} :
          req'[g] = req[g] /\ local'[g] = local[g] /\ (<<g, t>> \in stale => <<g, t>> \in stale')
    BY <1>1
  <2>5. /\ \A p \in Processes : client[p] # "unknown" => client'[p] = client[p]
        /\ spent'[t] = spent[t] /\ otp'[t] \in {otp[t], Nowhere}
    OBVIOUS
  <2> QED BY <2>1, <2>2, <2>3, <2>4, <2>5, ChallengeStep
<1> QED BY <1>2 DEF Third

\* A step of no handler, that loses challenges at most.
LEMMA ThirdAround ==
  ASSUME Third, UNCHANGED <<req, local, stale, inserted, client, spent>>,
         \A t \in Challenges : otp'[t] \in {otp[t], Nowhere}
  PROVE  Third'
<1>1. ASSUME NEW t \in Challenges PROVE ChallengeOK(t)'
  <2> DEFINE h == "none"
  <2>1. ChallengeOK(t)
    BY DEF Third
  <2>2. Using(h, t)' => Using(h, t) /\ (<<h, t>> \in stale => <<h, t>> \in stale')
    BY DEF Using
  <2>3. SigningIn(h, t)' => SigningIn(h, t)
    BY DEF SigningIn
  <2> HIDE DEF h
  <2>4. \A g \in Handlers \ {h} :
          req'[g] = req[g] /\ local'[g] = local[g] /\ (<<g, t>> \in stale => <<g, t>> \in stale')
    OBVIOUS
  <2>5. /\ \A p \in Processes : client[p] # "unknown" => client'[p] = client[p]
        /\ spent'[t] = spent[t] /\ inserted \subseteq inserted'
    OBVIOUS
  <2> QED BY <2>1, <2>2, <2>3, <2>4, <2>5, ChallengeStep
<1> QED BY <1>1 DEF Third

\* A handler that begins another request than verify_otp.
LEMMA BeginThird ==
  ASSUME Inv, Third, NEW h \in Handlers, NEW r, NEW u \in Users, Begin(h, r, [NoLocals EXCEPT !.user = u]),
         UNCHANGED <<inserted, otp, client, spent>>
  PROVE  Third'
<1> DEFINE l == [NoLocals EXCEPT !.user = u]
<1>1. req' = [req EXCEPT ![h] = r] /\ local' = [local EXCEPT ![h] = l] /\ UNCHANGED stale
  BY DEF Begin
<1>2. l.challenge = "none"
  BY DEF NoLocals
<1> HIDE DEF l
<1> QED BY <1>1, <1>2, ThirdFrame

\* So it is with these steps.
LEMMA QuietThird ==
  ASSUME Inv, Second, Third, NEW h \in Handlers,
         \/ Register(h) \/ AddProfiles(h) \/ Grant(h) \/ LogSetup(h) \/ Fail(h)
         \/ \E u \in Users : WrongPassword(h, u) \/ RightPassword(h, u) \/ CheckCode(h, u)
                               \/ Setup(h, u) \/ Enable(h, u)
  PROVE  Third'
<1>1. CASE Register(h)
  <2>1. PICK u \in Users :
          Begin(h, Flush(Start("register", AddNew(NoSession, u, NewUser), "did"), "did"),
                [NoLocals EXCEPT !.user = u])
    BY <1>1 DEF Register
  <2>2. UNCHANGED <<inserted, otp, client, spent>>
    BY <1>1 DEF Register, data, around, history
  <2> QED BY <2>1, <2>2, BeginThird
<1>2. CASE AddProfiles(h)
  <2> DEFINE f == req'[h]
             l == local[h]
  <2>1. f.op = req[h].op
    BY <1>2, AddProfilesForm
  <2>2. /\ req' = [req EXCEPT ![h] = f] /\ local' = [local EXCEPT ![h] = l]
        /\ UNCHANGED <<otp, client, spent>> /\ UNCHANGED inserted /\ UNCHANGED stale
    BY <1>2, InvFacts DEF AddProfiles, data, around, history
  <2>3. l.challenge = local[h].challenge
    OBVIOUS
  <2> HIDE DEF f, l
  <2> QED BY <2>1, <2>2, <2>3, ThirdFrame
<1>3. CASE Grant(h)
  <2> DEFINE f == LogEvent([req[h] EXCEPT !.op = "sign_in"], Routine, "idle")
             l == local[h]
  <2>1. l.challenge = "none"
    <3>1. req[h].pc = "granted" /\ Control(req[h], local[h])
      BY <1>3 DEF Grant, Second
    <3> QED BY <3>1 DEF Control, At
  <2>2. /\ req' = [req EXCEPT ![h] = f] /\ local' = [local EXCEPT ![h] = l]
        /\ UNCHANGED <<otp, client, spent>> /\ UNCHANGED inserted /\ UNCHANGED stale
    BY <1>3, InvFacts DEF Grant, data, around, history
  <2> HIDE DEF f, l
  <2> QED BY <2>1, <2>2, ThirdFrame
<1>4. CASE LogSetup(h)
  <2> DEFINE q == req[h]
             f == LogEvent(q, Routine, "idle")
             l == local[h]
  <2>1. /\ q.pc = "log" /\ req' = [req EXCEPT ![h] = f] /\ local' = [local EXCEPT ![h] = l]
        /\ UNCHANGED <<otp, client, spent>> /\ UNCHANGED inserted /\ UNCHANGED stale
    BY <1>4, InvFacts DEF LogSetup, data, around, history
  <2>2. f.op = q.op
    <3>1. q.pc # "flush" /\ q = req[h]
      BY <2>1
    <3> QED BY <3>1, LogNames, LogTaken
  <2>3. l.challenge = local[h].challenge /\ f.op = req[h].op
    BY <2>2
  <2> HIDE DEF f, l, q
  <2> QED BY <2>1, <2>3, ThirdFrame
<1>5. CASE Fail(h)
  <2> DEFINE r == Idle
             l == NoLocals
  <2>1. /\ req' = [req EXCEPT ![h] = r] /\ local' = [local EXCEPT ![h] = l]
        /\ UNCHANGED <<otp, client, spent>> /\ UNCHANGED inserted /\ stale' = {s \in stale : s[1] # h}
    BY <1>5 DEF Fail, End, data, around, history
  <2>2. \A g \in Handlers \ {h} : \A x : <<g, x>> \in stale => <<g, x>> \in stale'
    BY <2>1
  <2>3. l.challenge = "none"
    BY DEF NoLocals
  <2> HIDE DEF r, l
  <2> QED BY <2>1, <2>2, <2>3, ThirdFrame
<1>6. ASSUME NEW u \in Users, WrongPassword(h, u) PROVE Third'
  <2>1. \E r : Begin(h, r, [NoLocals EXCEPT !.user = u])
    BY <1>6 DEF WrongPassword
  <2>2. UNCHANGED <<inserted, otp, client, spent>>
    BY <1>6 DEF WrongPassword, around, history
  <2> QED BY <2>1, <2>2, BeginThird
<1>7. ASSUME NEW u \in Users, RightPassword(h, u) PROVE Third'
  <2>1. \E r : Begin(h, r, [NoLocals EXCEPT !.user = u])
    BY <1>7 DEF RightPassword
  <2>2. UNCHANGED <<inserted, otp, client, spent>>
    BY <1>7 DEF RightPassword, data, around, history
  <2> QED BY <2>1, <2>2, BeginThird
<1>8. ASSUME NEW u \in Users, Setup(h, u) PROVE Third'
  <2>1. \E r : Begin(h, r, [NoLocals EXCEPT !.user = u])
    BY <1>8 DEF Setup
  <2>2. UNCHANGED <<inserted, otp, client, spent>>
    BY <1>8 DEF Setup, data, around, history
  <2> QED BY <2>1, <2>2, BeginThird
<1>9. ASSUME NEW u \in Users, Enable(h, u) PROVE Third'
  <2>1. \E r : Begin(h, r, [NoLocals EXCEPT !.user = u])
    BY <1>9 DEF Enable
  <2>2. UNCHANGED <<inserted, otp, client, spent>>
    BY <1>9 DEF Enable, data, around, history
  <2> QED BY <2>1, <2>2, BeginThird
<1>10. ASSUME NEW u \in Users, CheckCode(h, u) PROVE Third'
  <2> DEFINE q == Read(u, "otp", store[u])
             r == [q EXCEPT !.pc = "delete"]
             l == [local[h] EXCEPT !.user = u]
  <2>1. /\ Stored(u) /\ req[h].pc = "user"
        /\ req' = [req EXCEPT ![h] = r] /\ local' = [local EXCEPT ![h] = l]
        /\ UNCHANGED <<otp, client, spent>> /\ UNCHANGED inserted /\ UNCHANGED stale
    BY <1>10 DEF CheckCode, data, around, history
  <2>2. l.challenge = local[h].challenge
    BY InvFacts DEF Locals
  <2>3. req[h].op = "otp"
    <3>1. Control(req[h], local[h])
      BY DEF Second
    <3> QED BY <2>1, <3>1 DEF Control, At
  <2>4. r.op = "otp"
    <3>1. store[u] \in UserRecords /\ "otp" \in Names
      BY <2>1, InvFacts DEF Stored, Names
    <3>2. q \in Requests(Names, Items) /\ q.op = "otp"
      BY <3>1, ReadFacts
    <3> HIDE DEF q
    <3>3. q \in Shape(Names, Items)
      BY <3>2, RequestFacts
    <3> QED BY <3>2, <3>3 DEF Shape
  <2>5. r.op = req[h].op /\ stale \subseteq stale'
    BY <2>1, <2>3, <2>4
  <2> HIDE DEF r, l
  <2> QED BY <2>1, <2>2, <2>5, ThirdFrame
<1> QED BY <1>1, <1>2, <1>3, <1>4, <1>5, <1>6, <1>7, <1>8, <1>9, <1>10

\* A challenge is issued: nobody uses it yet.
LEMMA IssueThird ==
  ASSUME Inv, Second, Third, NEW h \in Handlers, IssueChallenge(h)
  PROVE  Third'
<1>1. PICK t \in Challenges, place \in {"redis"} \cup Processes :
        /\ ~Logged("challenge", t) /\ \A g \in Handlers : local[g].challenge # t
        /\ Reaches(h, place) /\ otp' = [otp EXCEPT ![t] = place]
        /\ local' = [local EXCEPT ![h].challenge = t]
        /\ req' = [req EXCEPT ![h] = LogEvent(@, <<"challenge", t>>, "idle")]
  BY DEF IssueChallenge
<1> DEFINE q == req[h]
           e == <<"challenge", t>>
           f == LogEvent(q, e, "idle")
<1>2. req[h].pc = "granted" /\ UNCHANGED <<inserted, spent, stale>>
  BY DEF IssueChallenge, history
<1>3. f.op = "login"
  <2>1. e \in Events /\ q.pc # "flush" /\ q = req[h]
    BY <1>2, EventsOK
  <2> HIDE DEF e
  <2>2. f.op = q.op
    BY <2>1, LogNames, LogTaken
  <2>3. Control(req[h], local[h])
    BY DEF Second
  <2> QED BY <1>2, <2>2, <2>3 DEF Control, At
<1>4. /\ req'[h] = f
      /\ \A g \in Handlers \ {h} : req'[g] = req[g] /\ local'[g] = local[g]
  BY <1>1, InvFacts
<1> HIDE DEF f
<1>5. \A p \in Processes : client[p] # "unknown" => client'[p] = client[p]
  BY <1>1, ReachesFacts
<1>6. \A x \in Challenges : ~Using(h, x)' /\ ~SigningIn(h, x)'
  BY <1>3, <1>4 DEF Using, SigningIn
<1>7. \A x \in Challenges : x # t => otp'[x] = otp[x]
  BY <1>1, InvFacts DEF AroundOK
<1>8. ASSUME NEW x \in Challenges PROVE ChallengeOK(x)'
  <2>1. ChallengeOK(x)
    BY DEF Third
  <2>2. CASE x = t
    <3>1. ~(spent[t] > 0)
      BY <1>1, <2>1, <2>2 DEF ChallengeOK
    <3>2. \A g \in Handlers : ~Using(g, t)' /\ ~SigningIn(g, t)'
      BY <1>1, <1>4, <1>6 DEF Using, SigningIn
    <3> QED BY <1>2, <2>2, <3>1, <3>2 DEF ChallengeOK
  <2>3. CASE x # t
    <3>1. otp'[x] \in {otp[x], Nowhere} /\ spent'[x] = spent[x] /\ inserted \subseteq inserted'
      BY <1>2, <1>7, <2>3
    <3>2. \A g \in Handlers \ {h} :
            req'[g] = req[g] /\ local'[g] = local[g] /\ (<<g, x>> \in stale => <<g, x>> \in stale')
      BY <1>2, <1>4
    <3>3. Using(h, x)' => Using(h, x) /\ (<<h, x>> \in stale => <<h, x>> \in stale')
      BY <1>6
    <3>4. SigningIn(h, x)' => SigningIn(h, x)
      BY <1>6
    <3> QED BY <1>5, <2>1, <3>1, <3>2, <3>3, <3>4, ChallengeStep
  <2> QED BY <2>2, <2>3
<1>9. spent' \in [Challenges -> Nat]
  BY <1>2 DEF Third
<1> QED BY <1>8, <1>9 DEF Third

\* A challenge is found: nobody has signed in with it yet.
LEMMA GetThird ==
  ASSUME Inv, Second, Third, NEW h \in Handlers, NEW t \in Challenges, GetChallenge(h, t)
  PROVE  Third'
<1> DEFINE op == "otp"
           pc == "user"
           none == NoSession
           r == Start(op, none, pc)
           l == [NoLocals EXCEPT !.challenge = t]
           place == otp[t]
           p == ProcessOf[h]
<1>1. /\ Logged("challenge", t) /\ Reaches(h, place)
      /\ req' = [req EXCEPT ![h] = r] /\ local' = [local EXCEPT ![h] = l]
      /\ UNCHANGED <<inserted, otp, spent, stale>>
  BY DEF GetChallenge, Begin, data, history
<1>2. /\ place # Nowhere /\ place = Place(p)' /\ client'[p] # "unknown"
      /\ \A q \in Processes : client[q] # "unknown" => client'[q] = client[q]
  BY <1>1, ReachesFacts
<1>3. r.op = "otp" /\ l.challenge = t
  <2>1. none \in Sessions(Items) /\ op \in Names /\ pc \in Names /\ pc # "flush"
    BY NoSessionType DEF Names
  <2> HIDE DEF none, op, pc
  <2>2. r.op = op
    BY <2>1, StartType, NamesBasic
  <2> QED BY <2>2 DEF op, NoLocals
<1> HIDE DEF r, l
<1>4. /\ req'[h] = r /\ local'[h] = l
      /\ \A g \in Handlers \ {h} : req'[g] = req[g] /\ local'[g] = local[g]
  BY <1>1, InvFacts
<1>5. \A x \in Challenges : ~SigningIn(h, x)' /\ (x # t => ~Using(h, x)')
  BY <1>3, <1>4 DEF Using, SigningIn
<1>6. ASSUME NEW x \in Challenges PROVE ChallengeOK(x)'
  <2>1. ChallengeOK(x)
    BY DEF Third
  <2>2. CASE x = t
    <3>1. ~(spent[t] > 0) /\ \A g \in Handlers : ~SigningIn(g, t)
      BY <1>2, <2>1, <2>2 DEF ChallengeOK
    <3>2. spent'[t] = 0 /\ \A g \in Handlers : ~SigningIn(g, t)'
      <4>1. spent[t] \in Nat
        BY DEF Third
      <4>2. \A g \in Handlers : ~SigningIn(g, t)'
        BY <1>4, <1>5, <3>1 DEF SigningIn
      <4> QED BY <1>1, <3>1, <4>1, <4>2
    <3>3. Logged("challenge", t)'
      BY <1>1 DEF Logged
    <3>4. ASSUME NEW g \in Handlers, Using(g, t)'
          PROVE  /\ client'[ProcessOf[g]] # "unknown"
                 /\ otp'[t] \in {Nowhere, Place(ProcessOf[g])'}
      <4>1. CASE g = h
        BY <1>1, <1>2, <4>1
      <4>2. CASE g # h
        <5>1. Using(g, t)
          BY <1>4, <3>4, <4>2 DEF Using
        <5>2. client[ProcessOf[g]] # "unknown" /\ otp[t] \in {Nowhere, Place(ProcessOf[g])}
          BY <2>1, <2>2, <5>1 DEF ChallengeOK
        <5>3. client'[ProcessOf[g]] = client[ProcessOf[g]]
          BY <1>2, <5>2, NamesAssumption
        <5> QED BY <1>1, <5>2, <5>3 DEF Place
      <4> QED BY <4>1, <4>2
    <3>5. ~(spent'[t] > 0)
      BY <3>2
    <3> QED BY <2>2, <3>2, <3>3, <3>4, <3>5 DEF ChallengeOK
  <2>3. CASE x # t
    <3>1. otp'[x] \in {otp[x], Nowhere} /\ spent'[x] = spent[x] /\ inserted \subseteq inserted'
      BY <1>1
    <3>2. \A g \in Handlers \ {h} :
            req'[g] = req[g] /\ local'[g] = local[g] /\ (<<g, x>> \in stale => <<g, x>> \in stale')
      BY <1>1, <1>4
    <3>3. Using(h, x)' => Using(h, x) /\ (<<h, x>> \in stale => <<h, x>> \in stale')
      BY <1>5, <2>3
    <3>4. SigningIn(h, x)' => SigningIn(h, x)
      BY <1>5
    <3>5. \A q \in Processes : client[q] # "unknown" => client'[q] = client[q]
      BY <1>2
    <3> QED BY <2>1, <3>1, <3>2, <3>3, <3>4, <3>5, ChallengeStep
  <2> QED BY <2>2, <2>3
<1>7. spent' \in [Challenges -> Nat]
  BY <1>1 DEF Third
<1> QED BY <1>6, <1>7 DEF Third

\* A challenge is deleted, where it is kept.
LEMMA DeleteThird ==
  ASSUME Inv, Second, Third, NEW h \in Handlers, DeleteChallenge(h)
  PROVE  Third'
<1> DEFINE q == [req[h] EXCEPT !.op = "sign_in"]
           f == LogEvent(q, Routine, "idle")
           p == ProcessOf[h]
<1>0. PICK t : t = local[h].challenge
  OBVIOUS
<1>1. PICK place : Reaches(h, place) /\ otp' = Forgotten(t, place)
  BY <1>0 DEF DeleteChallenge
<1>2. /\ req[h].pc = "delete" /\ req' = [req EXCEPT ![h] = f] /\ UNCHANGED <<local, inserted, spent>>
      /\ stale \subseteq stale' /\ \A g \in Handlers \ {h} : ~Idles(g) => <<g, t>> \in stale'
  BY <1>0 DEF DeleteChallenge, Outdate, history
<1>3. req[h].op = "otp"
  <2>1. Control(req[h], local[h])
    BY DEF Second
  <2> QED BY <1>2, <2>1 DEF Control, At
<1>4. place = Place(p)' /\ \A x \in Processes : client[x] # "unknown" => client'[x] = client[x]
  BY <1>1, ReachesFacts
<1>5. req'[h] = f /\ \A g \in Handlers \ {h} : req'[g] = req[g]
  BY <1>2, InvFacts
<1>6. p \in Processes /\ otp \in [Challenges -> {Nowhere, "redis"} \cup Processes]
  BY InvFacts, NamesAssumption DEF AroundOK
<1>7. \A g \in Handlers, x \in Challenges : Using(g, x) => ~Idles(g)
  BY DEF Second, Control, Using, Idles
<1> HIDE DEF f, p
<1>8. ASSUME NEW x \in Challenges PROVE ChallengeOK(x)'
  <2>1. ChallengeOK(x)
    BY DEF Third
  <2>2. CASE x = t
    <3>1. Using(h, t)
      BY <1>0, <1>3 DEF Using
    <3>2. /\ Logged("challenge", t) /\ client[p] # "unknown" /\ otp[t] \in {Nowhere, Place(p)}
          /\ <<h, t>> \in stale \/ (spent[t] = 0 /\ \A g \in Handlers \ {h} : ~SigningIn(g, t))
      BY <2>1, <2>2, <3>1 DEF ChallengeOK, p
    <3>3. client'[p] = client[p] /\ place = Place(p)
      <4>1. client'[p] = client[p]
        BY <1>4, <1>6, <3>2
      <4> QED BY <1>4, <4>1 DEF Place
    <3>4. otp'[t] = Nowhere
      BY <1>1, <1>6, <2>2, <3>2, <3>3 DEF Forgotten
    <3>5. Logged("challenge", t)' /\ spent'[t] = spent[t]
      BY <1>2, <3>2 DEF Logged
    <3>6. \A g \in Handlers \ {h} : (SigningIn(g, t)' <=> SigningIn(g, t)) /\ (Using(g, t)' <=> Using(g, t))
      BY <1>2, <1>5 DEF SigningIn, Using
    <3>7. ASSUME NEW g \in Handlers, Using(g, t)'
          PROVE  /\ client'[ProcessOf[g]] # "unknown"
                 /\ <<g, t>> \in stale' \/ (spent'[t] = 0 /\ \A y \in Handlers \ {g} : ~SigningIn(y, t)')
      <4>1. CASE g = h
        BY <1>2, <3>2, <3>3, <3>5, <3>6, <4>1 DEF p
      <4>2. CASE g # h
        <5>1. Using(g, t)
          BY <3>6, <3>7, <4>2
        <5>2. client[ProcessOf[g]] # "unknown"
          BY <2>1, <2>2, <5>1 DEF ChallengeOK
        <5>3. client'[ProcessOf[g]] = client[ProcessOf[g]]
          BY <1>4, <5>2, NamesAssumption
        <5>4. <<g, t>> \in stale'
          BY <1>2, <1>7, <2>2, <4>2, <5>1
        <5> QED BY <5>2, <5>3, <5>4
      <4> QED BY <4>1, <4>2
    <3> QED BY <2>2, <3>4, <3>5, <3>7 DEF ChallengeOK
  <2>3. CASE x # t
    <3>1. otp'[x] \in {otp[x], Nowhere} /\ spent'[x] = spent[x] /\ inserted \subseteq inserted'
      BY <1>1, <1>2, <1>6, <2>3 DEF Forgotten
    <3>2. \A g \in Handlers \ {h} :
            req'[g] = req[g] /\ local'[g] = local[g] /\ (<<g, x>> \in stale => <<g, x>> \in stale')
      BY <1>2, <1>5
    <3>3. ~Using(h, x)' /\ ~SigningIn(h, x)'
      BY <1>0, <1>2, <2>3 DEF Using, SigningIn
    <3>4. \A y \in Processes : client[y] # "unknown" => client'[y] = client[y]
      BY <1>4
    <3> QED BY <2>1, <3>1, <3>2, <3>3, <3>4, ChallengeStep
  <2> QED BY <2>2, <2>3
<1>9. spent' \in [Challenges -> Nat]
  BY <1>2 DEF Third
<1> QED BY <1>8, <1>9 DEF Third

\* What a write does to the history of the challenges.
LEMMA WriteSpends ==
  ASSUME Third, NEW h \in Handlers, Write(h), NEW a, a = AfterWrite(req[h]), NEW t, t = local[h].challenge
  PROVE  /\ inserted \subseteq inserted'
         /\ (a.pc = "idle" /\ req[h].op = "sign_in" /\ t \in Challenges) \/ spent' = spent
         /\ a.pc = "idle" /\ req[h].op = "sign_in" =>
              spent' = [x \in Challenges |-> IF x = t THEN spent[x] + 1 ELSE spent[x]]
<1>1. spent \in [Challenges -> Nat]
  BY DEF Third
<1>2. /\ a.pc = "idle" /\ req[h].op = "sign_in" => SignIn(h)
      /\ ~(a.pc = "idle" /\ req[h].op = "sign_in") => spent' = spent
      /\ inserted \subseteq inserted'
  BY DEF Write
<1>3. SignIn(h) => spent' = [x \in Challenges |-> IF x = t THEN spent[x] + 1 ELSE spent[x]]
  BY DEF SignIn
<1>4. SignIn(h) /\ t \notin Challenges => spent' = spent
  BY <1>1, <1>3
<1> QED BY <1>2, <1>3, <1>4

\* A handler stores an object; with the last one it may have signed in.
LEMMA WriteThird ==
  ASSUME Inv, Third, NEW h \in Handlers, Write(h)
  PROVE  Third'
<1> DEFINE r == req[h]
           a == AfterWrite(r)
           l == local[h]
<1>0. PICK t : t = local[h].challenge
  OBVIOUS
<1>1. /\ r.pc = "flush"
      /\ \A g \in Handlers \ {h} : \A x : <<g, x>> \in stale => <<g, x>> \in stale'
      /\ a.pc = "idle" => req' = [req EXCEPT ![h] = Idle] /\ local' = [local EXCEPT ![h] = NoLocals]
      /\ a.pc # "idle" => req' = [req EXCEPT ![h] = a] /\ UNCHANGED local /\ stale \subseteq stale'
      /\ UNCHANGED <<otp, client>>
  BY WriteFacts
<1>2. /\ inserted \subseteq inserted'
      /\ (a.pc = "idle" /\ r.op = "sign_in" /\ t \in Challenges) \/ spent' = spent
      /\ a.pc = "idle" /\ r.op = "sign_in" =>
           spent' = [x \in Challenges |-> IF x = t THEN spent[x] + 1 ELSE spent[x]]
  BY <1>0, WriteSpends
<1>3. a.op = r.op
  <2>1. r \in Requests(Names, Items) /\ r.pc = "flush"
    BY <1>1, InvFacts
  <2> HIDE DEF r
  <2> QED BY <2>1, AfterWriteType, NamesBasic
<1> HIDE DEF a
<1>4. ASSUME a.pc = "idle", r.op = "sign_in", t \in Challenges PROVE Third'
  <2>1. /\ req'[h] = Idle /\ local'[h] = NoLocals
        /\ \A g \in Handlers \ {h} : req'[g] = req[g] /\ local'[g] = local[g]
    BY <1>1, <1>4, InvFacts
  <2>2. spent' = [x \in Challenges |-> IF x = t THEN spent[x] + 1 ELSE spent[x]]
    BY <1>2, <1>4
  <2>3. spent' \in [Challenges -> Nat]
    <3>1. spent \in [Challenges -> Nat]
      BY DEF Third
    <3> QED BY <2>2, <3>1
  <2>4. \A x \in Challenges : ~Using(h, x)' /\ ~SigningIn(h, x)'
    BY <2>1, NamesAssumption DEF Using, SigningIn, NoLocals
  <2>5. SigningIn(h, t)
    BY <1>0, <1>4 DEF SigningIn
  <2> HIDE DEF r
  <2>6. ASSUME NEW x \in Challenges PROVE ChallengeOK(x)'
    <3>1. ChallengeOK(x)
      BY DEF Third
    <3>2. CASE x = t
      <4>1. otp'[t] = Nowhere /\ Logged("challenge", t)'
        BY <1>1, <1>2, <2>5, <3>1, <3>2 DEF ChallengeOK, Logged
      <4>2. ASSUME NEW g \in Handlers, Using(g, t)'
            PROVE  client'[ProcessOf[g]] # "unknown" /\ <<g, t>> \in stale'
        <5>1. g # h
          BY <2>4, <3>2, <4>2
        <5>2. Using(g, t)
          BY <2>1, <4>2, <5>1 DEF Using
        <5> QED BY <1>1, <2>5, <3>1, <3>2, <5>1, <5>2 DEF ChallengeOK
      <4> QED BY <3>2, <4>1, <4>2 DEF ChallengeOK
    <3>3. CASE x # t
      <4>1. otp'[x] \in {otp[x], Nowhere} /\ spent'[x] = spent[x]
        BY <1>1, <2>2, <3>3
      <4>2. \A g \in Handlers \ {h} :
              req'[g] = req[g] /\ local'[g] = local[g] /\ (<<g, x>> \in stale => <<g, x>> \in stale')
        BY <1>1, <2>1
      <4>3. ~Using(h, x)' /\ ~SigningIn(h, x)'
        BY <2>4
      <4>4. \A y \in Processes : client[y] # "unknown" => client'[y] = client[y]
        BY <1>1
      <4>5. inserted \subseteq inserted'
        BY <1>2
      <4> QED BY <3>1, <4>1, <4>2, <4>3, <4>4, <4>5, ChallengeStep
    <3> QED BY <3>2, <3>3
  <2> QED BY <2>3, <2>6 DEF Third
<1>5. ASSUME a.pc = "idle", spent' = spent PROVE Third'
  <2> DEFINE i == Idle
             n == NoLocals
  <2>1. req' = [req EXCEPT ![h] = i] /\ local' = [local EXCEPT ![h] = n]
    BY <1>1, <1>5
  <2>2. n.challenge = "none"
    BY DEF NoLocals
  <2> HIDE DEF i, n
  <2> QED BY <1>1, <1>2, <1>5, <2>1, <2>2, ThirdFrame
<1>6. ASSUME a.pc # "idle" PROVE Third'
  <2>1. req' = [req EXCEPT ![h] = a] /\ local' = [local EXCEPT ![h] = l] /\ spent' = spent
    BY <1>1, <1>2, <1>6, InvFacts
  <2>2. l.challenge = local[h].challenge /\ a.op = req[h].op /\ stale \subseteq stale'
    BY <1>1, <1>3, <1>6
  <2> HIDE DEF l
  <2> QED BY <1>1, <1>2, <2>1, <2>2, ThirdFrame
<1> QED BY <1>2, <1>4, <1>5, <1>6

\* Every step preserves the third layer.
LEMMA NextThird ==
  ASSUME Inv, Second, Third, [Next]_vars
  PROVE  Third'
<1>1. ASSUME NEW h \in Handlers,
             \/ Register(h) \/ AddProfiles(h) \/ Grant(h) \/ IssueChallenge(h)
             \/ DeleteChallenge(h) \/ LogSetup(h) \/ Write(h) \/ Fail(h)
      PROVE  Third'
  BY <1>1, QuietThird, IssueThird, DeleteThird, WriteThird
<1>2. ASSUME NEW h \in Handlers, NEW u \in Users,
             WrongPassword(h, u) \/ RightPassword(h, u) \/ CheckCode(h, u) \/ Setup(h, u) \/ Enable(h, u)
      PROVE  Third'
  BY <1>2, QuietThird
<1>3. ASSUME NEW h \in Handlers, NEW t \in Challenges, GetChallenge(h, t) PROVE Third'
  BY <1>3, GetThird
<1>4. ASSUME Refresh \/ LockRunsOut \/ AccessExpires \/ RedisStops \/ UNCHANGED vars PROVE Third'
  <2>1. UNCHANGED <<req, local, stale, inserted, client, spent, otp>>
    BY <1>4 DEF Refresh, LockRunsOut, AccessExpires, RedisStops, vars, data, around, handlers, history
  <2> QED BY <2>1, ThirdAround
<1>5. ASSUME NEW t \in Challenges, ChallengeExpires(t) PROVE Third'
  <2>1. UNCHANGED <<req, local, stale, inserted, client, spent>> /\ otp' = [otp EXCEPT ![t] = Nowhere]
    BY <1>5 DEF ChallengeExpires, around, handlers, history
  <2>2. \A x \in Challenges : otp'[x] \in {otp[x], Nowhere}
    BY <2>1, InvFacts DEF AroundOK
  <2> QED BY <2>1, <2>2, ThirdAround
<1> QED BY <1>1, <1>2, <1>3, <1>4, <1>5 DEF Next

\* The initial states.
LEMMA InitThird == ASSUME Init PROVE Third
<1>1. /\ req = [h \in Handlers |-> Idle] /\ local = [h \in Handlers |-> NoLocals]
      /\ spent = [t \in Challenges |-> 0]
  BY DEF Init
<1>2. \A h \in Handlers, t \in Challenges : ~Using(h, t) /\ ~SigningIn(h, t)
  BY <1>1, NamesAssumption DEF Using, SigningIn, NoLocals
<1>3. \A t \in Challenges : spent[t] = 0 /\ ~(spent[t] > 0)
  BY <1>1
<1>4. spent \in [Challenges -> Nat]
  BY <1>1
<1> QED BY <1>2, <1>3, <1>4 DEF Third, ChallengeOK

\* The three layers are an invariant.
THEOREM Layers == Spec => [](Inv /\ Second /\ Third)
<1>1. Init => Inv /\ Second /\ Third
  BY InitOK, InitFresh, InitThird
<1>2. Inv /\ Second /\ Third /\ [Next]_vars => (Inv /\ Second /\ Third)'
  BY NextOK, NextFresh, NextThird
<1> QED BY <1>1, <1>2, PTL DEF Spec

\* Sign-ins are counted by the write that ends one, and only then.
LEMMA OnlyWritesSpend ==
  ASSUME [Next]_vars, spent' # spent
  PROVE  \E h \in Handlers : Write(h)
<1>1. CASE UNCHANGED vars
  BY <1>1 DEF vars, history
<1>2. ASSUME NEW h \in Handlers,
             \/ Register(h) \/ AddProfiles(h) \/ Grant(h) \/ IssueChallenge(h)
             \/ DeleteChallenge(h) \/ LogSetup(h) \/ Fail(h)
      PROVE  spent' = spent
  BY <1>2 DEF Register, AddProfiles, Grant, IssueChallenge, DeleteChallenge, LogSetup, Fail, history
<1>3. ASSUME NEW h \in Handlers, NEW u \in Users,
             WrongPassword(h, u) \/ RightPassword(h, u) \/ CheckCode(h, u) \/ Setup(h, u) \/ Enable(h, u)
      PROVE  spent' = spent
  BY <1>3 DEF WrongPassword, RightPassword, CheckCode, Setup, Enable, history
<1>4. ASSUME NEW h \in Handlers, NEW t \in Challenges, GetChallenge(h, t) PROVE spent' = spent
  BY <1>4 DEF GetChallenge, history
<1>5. ASSUME \/ Refresh \/ LockRunsOut \/ AccessExpires \/ RedisStops
             \/ \E t \in Challenges : ChallengeExpires(t)
      PROVE  spent' = spent
  BY <1>5 DEF Refresh, LockRunsOut, AccessExpires, RedisStops, ChallengeExpires, history
<1> QED BY <1>1, <1>2, <1>3, <1>4, <1>5 DEF Next

\* verify_otp (auth.py, lines 190-202): a challenge signs in twice only by a
\* handler that had found it before it was deleted, whichever processes the
\* handlers run in and wherever these keep the challenges.
THEOREM OneSignIn == Spec => OneSignInPerChallenge
<1> DEFINE A == \A t \in Challenges :
                  spent[t] > 0 /\ spent'[t] > spent[t]
                    => \E h \in Handlers : req[h].pc = "flush" /\ <<h, t>> \in stale
<1>1. ASSUME Inv, Third, [Next]_vars PROVE A
  <2>1. SUFFICES ASSUME NEW t \in Challenges, spent[t] > 0, spent'[t] > spent[t]
                 PROVE  \E h \in Handlers : req[h].pc = "flush" /\ <<h, t>> \in stale
    OBVIOUS
  <2>2. spent[t] \in Nat /\ spent'[t] # spent[t] /\ spent[t] # 0 /\ ChallengeOK(t)
    <3>1. spent[t] \in Nat /\ ChallengeOK(t)
      BY <1>1 DEF Third
    <3>2. spent'[t] # spent[t] /\ spent[t] # 0
      BY <2>1, <3>1
    <3> QED BY <3>1, <3>2
  <2>3. PICK h \in Handlers : Write(h)
    BY <1>1, <2>2, OnlyWritesSpend
  <2> DEFINE a == AfterWrite(req[h])
             c == local[h].challenge
  <2>4. a.pc = "idle" /\ req[h].op = "sign_in" /\ c = t
    <3>1. /\ (a.pc = "idle" /\ req[h].op = "sign_in" /\ c \in Challenges) \/ spent' = spent
          /\ a.pc = "idle" /\ req[h].op = "sign_in" =>
               spent' = [x \in Challenges |-> IF x = c THEN spent[x] + 1 ELSE spent[x]]
      BY <1>1, <2>3, WriteSpends
    <3> HIDE DEF a, c
    <3>2. a.pc = "idle" /\ req[h].op = "sign_in"
      BY <2>2, <3>1
    <3>3. spent'[t] = IF t = c THEN spent[t] + 1 ELSE spent[t]
      BY <3>1, <3>2
    <3> QED BY <2>2, <3>2, <3>3
  <2>5. Using(h, t)
    BY <2>4 DEF Using
  <2>6. <<h, t>> \in stale
    BY <2>2, <2>5 DEF ChallengeOK
  <2>7. req[h].pc = "flush"
    BY <2>3 DEF Write
  <2> QED BY <2>6, <2>7
<1>2. Inv /\ Third /\ [Next]_vars => [A]_vars
  BY <1>1
<1> QED BY <1>2, Layers, PTL DEF Spec, OneSignInPerChallenge

-----------------------------------------------------------------------------
(* The wrong passwords that are tried *)

\* The wrong passwords counted against user u, while no stale copy of it has been
\* stored, are in its counter, and the last of them that are allowed set a lock
\* that is still in force; a lock may run out before it is stored, which leaves
\* one of them.
CountOK(u) ==
  u \notin lapped /\ guesses[u] > 0 =>
    /\ Stored(u) /\ guesses[u] <= store[u].attempts /\ guesses[u] <= MaxAttempts
    /\ store[u].locked > over \/ store[u].attempts < MaxAttempts \/ guesses[u] = 1
Count == \A u \in Users : CountOK(u)

\* What is counted changes with a write or with the end of a lock.
LEMMA OnlyWritesCount ==
  ASSUME [Next]_vars
  PROVE  \/ \E h \in Handlers : Write(h)
         \/ LockRunsOut
         \/ UNCHANGED <<store, guesses, lapped, over>>
<1>1. CASE UNCHANGED vars
  BY <1>1 DEF vars, data, around, history
<1>2. ASSUME NEW h \in Handlers,
             \/ Register(h) \/ AddProfiles(h) \/ Grant(h) \/ IssueChallenge(h)
             \/ DeleteChallenge(h) \/ LogSetup(h) \/ Fail(h)
      PROVE  UNCHANGED <<store, guesses, lapped, over>>
  BY <1>2 DEF Register, AddProfiles, Grant, IssueChallenge, DeleteChallenge, LogSetup, Fail, data, around, history
<1>3. ASSUME NEW h \in Handlers, NEW u \in Users,
             WrongPassword(h, u) \/ RightPassword(h, u) \/ CheckCode(h, u) \/ Setup(h, u) \/ Enable(h, u)
      PROVE  UNCHANGED <<store, guesses, lapped, over>>
  BY <1>3 DEF WrongPassword, RightPassword, CheckCode, Setup, Enable, data, around, history
<1>4. ASSUME NEW h \in Handlers, NEW t \in Challenges, GetChallenge(h, t)
      PROVE  UNCHANGED <<store, guesses, lapped, over>>
  BY <1>4 DEF GetChallenge, data, history
<1>5. ASSUME \/ Refresh \/ AccessExpires \/ RedisStops
             \/ \E t \in Challenges : ChallengeExpires(t)
      PROVE  UNCHANGED <<store, guesses, lapped, over>>
  BY <1>5 DEF Refresh, AccessExpires, RedisStops, ChallengeExpires, data, around, history
<1> QED BY <1>1, <1>2, <1>3, <1>4, <1>5 DEF Next

\* A wrong password more, counted in a copy v of w.
LEMMA OneMore ==
  ASSUME MaxAttempts > 1, NEW w \in UserRecords, NEW v \in UserRecords, NEW g \in Nat, NEW ov \in Nat,
         Related("fail", v, w, g, ov),
         g > 0 => /\ g <= w.attempts /\ g <= MaxAttempts
                  /\ w.locked > ov \/ w.attempts < MaxAttempts \/ g = 1
  PROVE  /\ g + 1 <= v.attempts /\ g + 1 <= MaxAttempts
         /\ v.locked > ov \/ v.attempts < MaxAttempts \/ g + 1 = 1
<1>1. /\ v.attempts = w.attempts + 1 /\ w.locked <= ov
      /\ v.attempts >= MaxAttempts => v.locked > ov \/ g = 0
  BY DEF Related
<1>2. w.attempts \in Nat /\ w.locked \in Nat /\ v.attempts \in Nat /\ v.locked \in Nat /\ MaxAttempts \in Nat
  BY LockoutAssumption DEF UserRecords
<1> DEFINE wa == w.attempts
           wl == w.locked
           va == v.attempts
           vl == v.locked
<1> HIDE DEF wa, wl, va, vl
<1>3. /\ wa \in Nat /\ wl \in Nat /\ va \in Nat /\ vl \in Nat /\ va = wa + 1 /\ wl <= ov
      /\ va >= MaxAttempts => vl > ov \/ g = 0
      /\ g > 0 => g <= wa /\ g <= MaxAttempts /\ (wl > ov \/ wa < MaxAttempts \/ g = 1)
  BY <1>1, <1>2 DEF wa, wl, va, vl
<1>4. g + 1 <= va /\ g + 1 <= MaxAttempts /\ (vl > ov \/ va < MaxAttempts \/ g + 1 = 1)
  BY <1>2, <1>3
<1> QED BY <1>4 DEF va, vl

\* A write counts right.
LEMMA WriteCounts ==
  ASSUME MaxAttempts > 1, Inv, Second, Count, NEW h \in Handlers, Write(h), NEW u \in Users
  PROVE  CountOK(u)'
<1> DEFINE r == req[h]
           o == NextObject(r)
           m == r.writing[1]
           w == store[u]
           v == o.val
           g == guesses[u]
<1>1. /\ o = r.session.objs[m] /\ UNCHANGED over
      /\ o.id \in Users =>
           /\ store' = [store EXCEPT ![o.id] = v] /\ v \in UserRecords /\ Tally(h, o.id) /\ m \in Holds(r)
      /\ o.id \notin Users => UNCHANGED <<store, guesses, lapped>>
  BY WriteFacts
<1>2. /\ store \in [Users -> UserRecords \cup {Absent}] /\ over \in Nat
      /\ guesses \in [Users -> Nat] /\ CountOK(u)
  BY InvFacts DEF StoreOK, AroundOK, Second, Count
<1>3. Fresh(h, r, store, stale, guesses, over)
  BY DEF Second
<1> HIDE DEF o, m
<1>4. CASE o.id \notin Users
  BY <1>1, <1>2, <1>4 DEF CountOK, Stored
<1>5. CASE o.id \in Users /\ o.id # u
  <2>1. store'[u] = store[u] /\ guesses'[u] = guesses[u] /\ over' = over
    BY <1>1, <1>2, <1>5 DEF Tally
  <2>2. u \notin lapped' => u \notin lapped
    BY <1>1, <1>5 DEF Tally
  <2> QED BY <1>2, <2>1, <2>2 DEF CountOK, Stored
<1>6. CASE o.id = u
  <2>1. Current(h, r.op, r.pc, o, store, stale, guesses, over)
    BY <1>1, <1>3, <1>6 DEF Fresh
  <2>2. store'[u] = v /\ v \in UserRecords /\ v # Absent /\ over' = over /\ Tally(h, u)
    BY <1>1, <1>2, <1>6, AbsentIsNone
  <2>3. CASE r.op = "login"
    <3>1. guesses'[u] = 0
      BY <1>2, <2>2, <2>3 DEF Tally
    <3> QED BY <3>1 DEF CountOK
  <2>4. CASE r.op # "login" /\ u \notin lapped'
    <3>1. u \notin lapped /\ <<h, u>> \notin stale
      BY <2>2, <2>4 DEF Tally
    <3>2. w # Absent \/ r.op = "register"
      BY <1>6, <2>1 DEF Current
    <3>3. w # Absent => w \in UserRecords /\ Related(r.op, v, w, g, over)
      BY <1>2, <1>6, <2>1, <3>1 DEF Current
    <3>4. g > 0 => /\ w # Absent /\ g <= w.attempts /\ g <= MaxAttempts
                   /\ w.locked > over \/ w.attempts < MaxAttempts \/ g = 1
      BY <1>2, <3>1 DEF CountOK, Stored
    <3>5. g \in Nat /\ over \in Nat
      BY <1>2
    <3>6. CASE r.op = "fail"
      <4>1. guesses'[u] = g + 1
        BY <1>2, <2>2, <3>6 DEF Tally
      <4>2. w \in UserRecords /\ Related("fail", v, w, g, over)
        BY <3>2, <3>3, <3>6
      <4> HIDE DEF v, w, g
      <4>3. /\ g + 1 <= v.attempts /\ g + 1 <= MaxAttempts
            /\ v.locked > over \/ v.attempts < MaxAttempts \/ g + 1 = 1
        BY <2>2, <3>4, <3>5, <4>2, OneMore
      <4> QED BY <2>2, <4>1, <4>3 DEF CountOK, Stored
    <3>7. CASE r.op # "fail"
      <4>1. guesses'[u] = g
        BY <2>2, <2>4, <3>7 DEF Tally
      <4>2. w # Absent => v.attempts = w.attempts /\ v.locked = w.locked
        <5> HIDE DEF v, w, g, r
        <5> QED BY <2>4, <3>3, <3>7 DEF Related
      <4> HIDE DEF v, w, g
      <4> QED BY <2>2, <3>4, <4>1, <4>2 DEF CountOK, Stored
    <3> QED BY <3>6, <3>7
  <2> QED BY <2>3, <2>4 DEF CountOK
<1> QED BY <1>4, <1>5, <1>6

\* MAX_FAILED_ATTEMPTS (auth.py, line 43): no more than MaxAttempts wrong passwords
\* are tried between a right one, or the end of a lock, and the next, unless a
\* stale copy of the account was stored. (With a limit of one, the first wrong
\* password sets a lock, which may run out while the account with it is being
\* stored: a second one is tried after that.)
THEOREM Guesses == ASSUME MaxAttempts > 1 PROVE Spec => []GuessesBounded
<1>1. Init => Count
  <2>1. SUFFICES ASSUME Init PROVE Count
    OBVIOUS
  <2>2. guesses = NoGuesses
    BY <2>1 DEF Init
  <2>3. \A u \in Users : ~(guesses[u] > 0)
    BY <2>2 DEF NoGuesses
  <2> QED BY <2>3 DEF Count, CountOK
<1>2. Inv /\ Second /\ Count /\ [Next]_vars => Count'
  <2>1. SUFFICES ASSUME Inv, Second, Count, [Next]_vars, NEW u \in Users PROVE CountOK(u)'
    BY DEF Count
  <2>2. CASE \E h \in Handlers : Write(h)
    BY <2>1, <2>2, WriteCounts
  <2>3. CASE LockRunsOut
    <3>1. guesses'[u] = 0
      BY <2>3 DEF LockRunsOut, NoGuesses
    <3> QED BY <3>1 DEF CountOK
  <2>4. CASE UNCHANGED <<store, guesses, lapped, over>>
    BY <2>1, <2>4 DEF Count, CountOK, Stored
  <2> QED BY <2>1, <2>2, <2>3, <2>4, OnlyWritesCount
<1>3. Second /\ Count => GuessesBounded
  <2>1. SUFFICES ASSUME Second, Count, NEW u \in Users \ lapped PROVE guesses[u] <= MaxAttempts
    BY DEF GuessesBounded
  <2>2. CountOK(u) /\ guesses[u] \in Nat
    BY <2>1 DEF Count, Second
  <2>3. CASE guesses[u] > 0
    BY <2>1, <2>2, <2>3 DEF CountOK
  <2>4. CASE ~(guesses[u] > 0)
    BY <2>2, <2>4, LockoutAssumption
  <2> QED BY <2>3, <2>4
<1> QED BY <1>1, <1>2, <1>3, Currency, PTL DEF Spec
===============================================================================
