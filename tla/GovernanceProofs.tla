--------------------------- MODULE GovernanceProofs ---------------------------
(***************************************************************************)
(* What holds of IssuerGovernance for any number of handlers, keys and     *)
(* credentials.  The invariant has three layers, each proved from those    *)
(* before it.                                                              *)
(*                                                                         *)
(* Inv says of every handler that each object it holds may be stored when  *)
(* its turn comes: a block or a revocation only if its record is stored    *)
(* already or is the very next thing this handler stores, and the record   *)
(* of an issue only after the credential and its claims.  What a handler   *)
(* may store never becomes wrong by what others do (Monotone), so each     *)
(* action is proved for its own handler alone and Frame puts the handlers  *)
(* together.                                                               *)
(*                                                                         *)
(* Current says that what a handler may still store undoes no block and no *)
(* revocation, unless the handler read the document before that, and that  *)
(* it leaves the approval of the issuer as it is.                          *)
(*                                                                         *)
(* Undisturbed follows the key of a handler that runs by itself: from its  *)
(* first ensure_issuer_public_key on, the profile and what it signs carry  *)
(* the key of the file, or will after its flush.                           *)
(***************************************************************************)
EXTENDS IssuerGovernance, RequestProofs, FiniteSetTheorems

\* The events, the places of a handler, the objects it can hold and its local
\* variables.
Ops == {"approve", "block", "issue", "revoke"}
Names == Basic \cup Ops \cup {"resync", "load", "generate", "save", "ensure", "sign", "resign",
                              "log", "answer"}
Events == Ops \X (Credentials \cup {Absent})
Items == [id : {Profile}, val : Profiles] \cup [id : Credentials, val : Documents]
           \cup [id : {"audit"}, val : Events] \cup [id : {"claims"}, val : Credentials]
Locals == [key : Keys \cup {NoKey}, stage : 0..3, cred : Credentials \cup {Absent}]

\* Where a request is, or will be after its flush.
At(r) == IF r.pc = "flush" THEN r.then ELSE r.pc

\* What the local variables l of request r hold there.
Control(r, l) ==
  /\ At(r) \in {"load", "generate", "save"} =>
       /\ r.op \in {"approve", "issue", "resync"}
       /\ r.op = "issue" => l.stage \in 0..2
       /\ r.op = "resync" => l.stage \in 0..1
       /\ r.op = "approve" => l.stage = 0
  /\ At(r) = "ensure" =>
       /\ r.op \in {"approve", "issue", "resync"}
       /\ l.stage \in 1..2 /\ (r.op # "issue" => l.stage = 1)
  /\ At(r) \in {"save", "ensure", "sign", "resign"} => l.key \in Keys
  /\ At(r) = "sign" => r.op = "issue"
  /\ At(r) = "resign" => r.op = "resync"
  /\ At(r) = "log" => r.op \in Ops /\ (r.op = "issue" => l.cred \in Credentials)
  /\ r.op = "approve" => l.cred = Absent

\* The claims of a credential, as an object.
ClaimsItem(c) == [id |-> "claims", val |-> c]

\* The event e that must be on the trail before o is stored: a block, a
\* revocation.
Needs(o, e) ==
  \/ o.id = Profile /\ o.val.blocked /\ e = <<"block", Absent>>
  \/ o.id \in Credentials /\ o.val.status = "revoked" /\ e = <<"revoke", o.id>>

\* The event e is the next thing request r will store.
Covered(r, l, e) ==
  /\ e = <<r.op, l.cred>>
  /\ r.pc = "log" \/ (r.pc = "flush" /\ NextObject(r) = AuditItem(e))

\* o is no audit record, and if it needs one, that is stored.
Quiet(o, ins) == o.id # "audit" /\ \A e \in Events : Needs(o, e) => <<"audit", e>> \in ins

\* Every object of a request may be stored when its turn comes.
Reviewed(r, l, ins) ==
  \A n \in DOMAIN r.session.objs : \A e \in Events :
    Needs(r.session.objs[n], e) => <<"audit", e>> \in ins \/ Covered(r, l, e)

\* The credential of a request comes before its claims, and these before the
\* record of the issue.
Unlogged(r) == \A n \in DOMAIN r.session.objs : r.session.objs[n].id # "audit"
Signed(r, l, st) ==
  r.op = "issue" =>
    /\ r.pc = "log" => st[l.cred] # Absent
    /\ r.pc = "flush" /\ r.then = "log" =>
         st[l.cred] # Absent \/ \E i \in DOMAIN r.writing : r.session.objs[r.writing[i]].id = l.cred
ClaimsBefore(r, i, c) ==
  \E j \in DOMAIN r.writing : j < i /\ r.session.objs[r.writing[j]] = ClaimsItem(c)
Ordered(r, st, ins) ==
  \A i \in DOMAIN r.writing : \A c \in Credentials :
    r.session.objs[r.writing[i]] = AuditItem(<<"issue", c>>) =>
      st[c] # Absent /\ (<<"claims", c>> \in ins \/ ClaimsBefore(r, i, c))

\* The part of a handler with request r and local variables l, when the
\* documents st and the records ins are stored.
HandlerOK(r, l, st, ins) ==
  /\ r \in Requests(Names, Items) /\ l \in Locals /\ Control(r, l)
  /\ r.pc # "flush" => r.session.pending = <<>>
  /\ Reviewed(r, l, ins)
  /\ At(r) # "answer" => Unlogged(r)
  /\ Signed(r, l, st)
  /\ r.pc = "flush" => Ordered(r, st, ins)

\* The part of the database and of the key file.
StoreOK(st, ins, file) ==
  /\ DOMAIN st = {Profile} \cup Credentials
  /\ st[Profile] \in Profiles
  /\ \A c \in Credentials : st[c] \in Documents \cup {Absent}
  /\ ins \subseteq ({"audit"} \X Events) \cup ({"claims"} \X Credentials)
  /\ file \in Keys \cup {NoKey, Truncated}
  /\ \A d \in DOMAIN st : \A e \in Events :
       Needs([id |-> d, val |-> st[d]], e) => <<"audit", e>> \in ins
  /\ \A c \in Credentials : <<"audit", <<"issue", c>>>> \in ins =>
       st[c] # Absent /\ <<"claims", c>> \in ins

\* The inductive invariant.
Inv ==
  /\ StoreOK(store, inserted, pem)
  /\ req \in [Handlers -> Requests(Names, Items)] /\ local \in [Handlers -> Locals]
  /\ \A h \in Handlers : HandlerOK(req[h], local[h], store, inserted)

\* The names of this model cover those of every request.
LEMMA NamesBasic == Basic \subseteq Names
BY DEF Names

\* A profile may be held in a session.
LEMMA ProfileIsItem == ASSUME NEW p \in Profiles PROVE [id |-> Profile, val |-> p] \in Items
BY DEF Items

\* A credential may be held in a session.
LEMMA DocumentIsItem ==
  ASSUME NEW c \in Credentials, NEW d \in Documents PROVE [id |-> c, val |-> d] \in Items
BY DEF Items

\* The record of an event may be held in a session.
LEMMA AuditIsItem == ASSUME NEW e \in Events PROVE AuditItem(e) \in Items
BY DEF Items, AuditItem

\* The claims of a credential may be held in a session.
LEMMA ClaimsIsItem == ASSUME NEW c \in Credentials PROVE ClaimsItem(c) \in Items
BY DEF Items, ClaimsItem

\* The id of an object tells what its value is.
LEMMA ItemFacts ==
  ASSUME NEW o \in Items
  PROVE  /\ o.id = Profile => o.val \in Profiles
         /\ o.id \in Credentials => o.val \in Documents
         /\ o.id = "audit" => o.val \in Events
         /\ o.id = "claims" => o.val \in Credentials
         /\ o.id \in {Profile, "audit", "claims"} \cup Credentials
         /\ o = [id |-> o.id, val |-> o.val]
BY CredentialsAssumption DEF Items, Profile

\* Audit records and claims need no record themselves.
LEMMA NeedsNothing ==
  ASSUME NEW o, o.id \in {"audit", "claims"}, NEW e
  PROVE  ~Needs(o, e)
BY CredentialsAssumption DEF Needs, Profile

\* What is stored stays stored: the request's invariant is not disturbed.
LEMMA Monotone ==
  ASSUME NEW r, NEW l, NEW st, NEW ins, NEW st2, NEW ins2, HandlerOK(r, l, st, ins),
         ins \subseteq ins2, \A c \in Credentials : st[c] # Absent => st2[c] # Absent
  PROVE  HandlerOK(r, l, st2, ins2)
<1>1. Reviewed(r, l, ins2)
  BY DEF HandlerOK, Reviewed
<1>2. Signed(r, l, st2)
  <2>1. r.op = "issue" /\ At(r) = "log" => l.cred \in Credentials
    BY DEF HandlerOK, Control
  <2> QED BY <2>1 DEF HandlerOK, Signed, At
<1>3. r.pc = "flush" => Ordered(r, st2, ins2)
  BY DEF HandlerOK, Ordered
<1> QED BY <1>1, <1>2, <1>3 DEF HandlerOK

\* A step of one handler.
LEMMA Frame ==
  ASSUME Inv, NEW h \in Handlers, NEW r, NEW l,
         req' = [req EXCEPT ![h] = r], local' = [local EXCEPT ![h] = l],
         HandlerOK(r, l, store', inserted'), StoreOK(store', inserted', pem'),
         inserted \subseteq inserted', \A c \in Credentials : store[c] # Absent => store'[c] # Absent
  PROVE  Inv'
<1>1. r \in Requests(Names, Items) /\ l \in Locals
  BY DEF HandlerOK
<1>2. req' \in [Handlers -> Requests(Names, Items)] /\ local' \in [Handlers -> Locals]
  BY <1>1 DEF Inv
<1>3. ASSUME NEW g \in Handlers PROVE HandlerOK(req'[g], local'[g], store', inserted')
  <2>1. CASE g = h
    BY <2>1 DEF Inv
  <2>2. CASE g # h
    <3>1. req'[g] = req[g] /\ local'[g] = local[g]
      BY <2>2 DEF Inv
    <3>2. HandlerOK(req[g], local[g], store', inserted')
      BY Monotone DEF Inv
    <3> QED BY <3>1, <3>2
  <2> QED BY <2>1, <2>2
<1> QED BY <1>2, <1>3 DEF Inv

\* An idle handler satisfies its part of the invariant.
LEMMA IdleOK ==
  ASSUME NEW l \in Locals, NEW st, NEW ins
  PROVE  HandlerOK(Idle, l, st, ins)
<1>1. /\ Idle \in Requests(Names, Items) /\ Idle.pc = "idle" /\ Idle.op = "none"
      /\ Idle.session.objs = <<>> /\ Idle.session.pending = <<>>
  BY IdleType, NamesBasic DEF Idle, NoSession
<1>2. At(Idle) = "idle"
  BY <1>1 DEF At
<1>3. Control(Idle, l)
  BY <1>1, <1>2 DEF Control
<1>4. Reviewed(Idle, l, ins) /\ Unlogged(Idle) /\ Signed(Idle, l, st)
  BY <1>1 DEF Reviewed, Unlogged, Signed
<1> QED BY <1>1, <1>3, <1>4 DEF HandlerOK

\* A handler that starts with an object that needs no record that is not stored
\* or that it will write itself.
LEMMA StartOK ==
  ASSUME NEW op \in Ops \cup {"resync"}, NEW s \in Sessions(Items), NEW pc \in {"log", "load"},
         NEW l \in Locals, NEW st, NEW ins, s.pending = <<>>, l.stage = 0,
         op = "approve" => l.cred = Absent, pc = "load" <=> op \in {"approve", "issue", "resync"},
         \A n \in DOMAIN s.objs : /\ s.objs[n].id # "audit"
                                  /\ \A e \in Events : Needs(s.objs[n], e) =>
                                       <<"audit", e>> \in ins \/ (pc = "log" /\ e = <<op, l.cred>>)
  PROVE  HandlerOK(Start(op, s, pc), l, st, ins)
<1> DEFINE r == Start(op, s, pc)
<1>1. /\ r \in Requests(Names, Items) /\ r.session = s /\ r.pc = pc /\ r.op = op
  <2>1. op \in Names /\ pc \in Names /\ pc # "flush"
    BY DEF Names
  <2> QED BY SMTT(40), <2>1, StartType, NamesBasic
<1> HIDE DEF r
<1>2. At(r) = pc
  BY <1>1 DEF At
<1>3. Control(r, l)
  BY <1>1, <1>2 DEF Control, Ops
<1>4. Reviewed(r, l, ins) /\ Unlogged(r)
  BY <1>1 DEF Reviewed, Unlogged, Covered
<1>5. Signed(r, l, st)
  BY <1>1 DEF Signed
<1> QED BY <1>1, <1>3, <1>4, <1>5 DEF HandlerOK, r

\* Everywhere but at its end, every object of a request is quiet.
Middle == {"load", "generate", "save", "ensure", "sign", "resign"}

\* In the middle of a handler every object that needs a record has one: its own
\* change, if it makes one, goes straight to log.
LEMMA MiddleQuiet ==
  ASSUME NEW r, NEW l, NEW st, NEW ins, HandlerOK(r, l, st, ins), r.pc \in Middle
  PROVE  \A n \in DOMAIN r.session.objs : Quiet(r.session.objs[n], ins)
<1>1. At(r) # "answer" /\ r.pc # "log" /\ r.pc # "flush"
  BY DEF At, Middle
<1> QED BY <1>1 DEF HandlerOK, Reviewed, Unlogged, Covered, Quiet

\* A step that reaches neither the session nor the database.
LEMMA MoveOK ==
  ASSUME NEW r, NEW l, NEW st, NEW ins, HandlerOK(r, l, st, ins), r.pc \in Middle,
         NEW k \in Locals, NEW pc \in Middle, Control([r EXCEPT !.pc = pc], k)
  PROVE  HandlerOK([r EXCEPT !.pc = pc], k, st, ins)
<1> DEFINE q == [r EXCEPT !.pc = pc]
<1>1. r \in Shape(Names, Items) /\ Sound(r) /\ r.pc # "flush" /\ pc # "flush" /\ pc # "log"
      /\ pc \in Names
  BY DEF HandlerOK, Requests, Middle, Names
<1>2. /\ q \in Shape(Names, Items) /\ q.session = r.session /\ q.pc = pc /\ q.op = r.op
      /\ q.writing = r.writing
  BY <1>1 DEF Shape
<1>3. Control(q, k)
  OBVIOUS
<1> HIDE DEF q
<1>4. q \in Requests(Names, Items)
  BY <1>1, <1>2 DEF Requests, Sound
<1>5. \A n \in DOMAIN q.session.objs : Quiet(q.session.objs[n], ins)
  BY <1>2, MiddleQuiet
<1>6. Reviewed(q, k, ins) /\ Unlogged(q)
  BY <1>5 DEF Reviewed, Unlogged, Quiet
<1>7. Signed(q, k, st)
  BY <1>1, <1>2 DEF Signed
<1>8. q.session.pending = <<>>
  BY <1>1, <1>2 DEF HandlerOK
<1> QED BY <1>1, <1>2, <1>3, <1>4, <1>6, <1>7, <1>8 DEF HandlerOK, q

\* Request r goes on to pc with session s, after a flush or without one.
Goes(r, s, pc, f) ==
  /\ r \in Requests(Names, Items) /\ r.pc \in Middle
  /\ s \in Sessions(Items) /\ DOMAIN r.session.objs \subseteq DOMAIN s.objs
  /\ pc \in Middle \cup {"log", "answer"}
  /\ \/ f = Flush([r EXCEPT !.session = s], pc) /\ (s.pending = <<>> \/ Writes(s) # <<>>)
     \/ f = [[r EXCEPT !.session = s] EXCEPT !.pc = pc] /\ s.pending = <<>>

\* Quiet objects in the middle of a handler, flushed or not: it goes on to pc.
LEMMA QuietOK ==
  ASSUME NEW r, NEW l, NEW st, NEW ins, HandlerOK(r, l, st, ins),
         NEW s, NEW pc, NEW f, Goes(r, s, pc, f),
         \A n \in DOMAIN s.objs : Quiet(s.objs[n], ins), NEW k \in Locals,
         Control(f, k), Signed(f, k, st)
  PROVE  HandlerOK(f, k, st, ins)
<1> DEFINE q == [r EXCEPT !.session = s]
           p == [q EXCEPT !.pc = pc]
<1>1. r \in Shape(Names, Items) /\ Sound(r) /\ r.pc # "flush" /\ pc # "flush" /\ pc \in Names
  BY DEF Goes, Requests, Middle, Names
<1>2. /\ q \in Shape(Names, Items) /\ q.session = s /\ q.pc = r.pc /\ q.op = r.op
      /\ q.writing = r.writing /\ q.then = r.then
  BY <1>1 DEF Shape, Goes
<1>3. \/ f = Flush(q, pc) /\ (s.pending = <<>> \/ Writes(s) # <<>>)
      \/ f = p /\ s.pending = <<>>
  BY DEF Goes
<1> HIDE DEF q
<1>4. q \in Requests(Names, Items) /\ s \in Sessions(Items)
  BY <1>1, <1>2 DEF Requests, Sound, Goes
<1>5. p \in Shape(Names, Items) /\ p.session = s /\ p.op = r.op /\ p.pc = pc /\ p.writing = q.writing
  BY <1>1, <1>2 DEF Shape
<1> HIDE DEF p
<1>6. /\ f \in Requests(Names, Items) /\ f.session = s
      /\ f.pc # "flush" => f.session.pending = <<>>
  <2>1. CASE f = Flush(q, pc) /\ (s.pending = <<>> \/ Writes(s) # <<>>)
    <3>1. /\ f \in Requests(Names, Items) /\ f.session = s /\ f.op = r.op
          /\ \/ f.pc = pc /\ Writes(s) = <<>>
             \/ f.pc = "flush" /\ f.then = pc /\ f.writing = Writes(s)
      BY <1>1, <1>2, <1>4, <2>1, FlushType, NamesBasic
    <3> QED BY <2>1, <3>1
  <2>2. CASE f = p /\ s.pending = <<>>
    BY <1>1, <1>2, <1>4, <1>5, <2>2 DEF Requests, Sound
  <2> QED BY <1>3, <2>1, <2>2
<1>7. Reviewed(f, k, ins) /\ Unlogged(f)
  BY <1>6 DEF Reviewed, Unlogged, Quiet
<1>8. f.pc = "flush" => Ordered(f, st, ins)
  <2>1. SUFFICES ASSUME f.pc = "flush", NEW i \in DOMAIN f.writing, NEW c \in Credentials,
                        f.session.objs[f.writing[i]] = AuditItem(<<"issue", c>>)
                 PROVE  FALSE
    BY DEF Ordered
  <2>2. f.writing[i] \in DOMAIN f.session.objs
    BY <1>6 DEF Requests, Sound
  <2>3. AuditItem(<<"issue", c>>).id = "audit"
    BY DEF AuditItem
  <2> QED BY <1>7, <2>1, <2>2, <2>3 DEF Unlogged
<1> QED BY <1>6, <1>7, <1>8 DEF HandlerOK

\* What the invariant says of the database and the file.
LEMMA StoreFacts ==
  ASSUME Inv
  PROVE  /\ store[Profile] \in Profiles
         /\ DOMAIN store = {Profile} \cup Credentials
         /\ \A c \in Credentials : store[c] # Absent => store[c] \in Documents
         /\ \A d \in {Profile} \cup Credentials : \A e \in Events :
              Needs([id |-> d, val |-> store[d]], e) => <<"audit", e>> \in inserted
         /\ StoreOK(store, inserted, pem)
         /\ \A h \in Handlers : HandlerOK(req[h], local[h], store, inserted)
         /\ req \in [Handlers -> Requests(Names, Items)] /\ local \in [Handlers -> Locals]
BY DEF Inv, StoreOK

\* A handler's local variables at its start.
LEMMA NoLocalsOK ==
  /\ NoLocals \in Locals /\ NoLocals.stage = 0 /\ NoLocals.cred = Absent
  /\ \A c \in Credentials : [NoLocals EXCEPT !.cred = c] \in Locals
                            /\ [NoLocals EXCEPT !.cred = c].stage = 0
                            /\ [NoLocals EXCEPT !.cred = c].cred = c
BY DEF NoLocals, Locals

\* A handler begins with one object it has assigned to.
LEMMA BeginOK ==
  ASSUME Inv, NEW op \in Ops, NEW id \in {Profile} \cup Credentials, NEW val, NEW new,
         [id |-> id, val |-> val] \in Items, [id |-> id, val |-> new] \in Items,
         NEW pc \in {"log", "load"}, pc = "load" <=> op \in {"approve", "issue"},
         NEW l \in Locals, l.stage = 0, op = "approve" => l.cred = Absent,
         \A e \in Events : Needs([id |-> id, val |-> new], e) =>
           <<"audit", e>> \in inserted \/ (pc = "log" /\ e = <<op, l.cred>>)
  PROVE  HandlerOK(Start(op, Assign(Fetch(NoSession, id, val), 1, new), pc), l, store, inserted)
<1> DEFINE s == Assign(Fetch(NoSession, id, val), 1, new)
           o == [id |-> id, val |-> new]
<1>1. s \in Sessions(Items) /\ s.pending = <<>> /\ \A n \in DOMAIN s.objs : s.objs[n] = o
  BY FirstObject
<1>2. o.id # "audit"
  BY CredentialsAssumption DEF Profile
<1> HIDE DEF s, o
<1>3. pc = "load" <=> op \in {"approve", "issue", "resync"}
  BY DEF Ops
<1>4. \A n \in DOMAIN s.objs :
        /\ s.objs[n].id # "audit"
        /\ \A e \in Events : Needs(s.objs[n], e) =>
             <<"audit", e>> \in inserted \/ (pc = "log" /\ e = <<op, l.cred>>)
  BY <1>1, <1>2 DEF o
<1> QED BY <1>1, <1>3, <1>4, StartOK DEF s

\* approve_issuer clears the block of its copy, which needs no record.
LEMMA ApproveOK ==
  ASSUME Inv, NEW h \in Handlers, Approve(h)
  PROVE  Inv'
<1> DEFINE new == [store[Profile] EXCEPT !.approved = TRUE, !.blocked = FALSE]
           r == Start("approve", Assign(Fetch(NoSession, Profile, store[Profile]), 1, new), "load")
<1>1. new \in Profiles /\ ~new.blocked
  BY StoreFacts DEF Profiles
<1>2. \A e \in Events : ~Needs([id |-> Profile, val |-> new], e)
  BY <1>1, CredentialsAssumption DEF Needs, Profile
<1>3. [id |-> Profile, val |-> store[Profile]] \in Items /\ [id |-> Profile, val |-> new] \in Items
  BY <1>1, StoreFacts, ProfileIsItem
<1>4. /\ req' = [req EXCEPT ![h] = r] /\ local' = [local EXCEPT ![h] = NoLocals]
      /\ UNCHANGED <<store, inserted, pem>>
  BY DEF Approve
<1> HIDE DEF new
<1>5. HandlerOK(r, NoLocals, store, inserted)
  BY <1>2, <1>3, NoLocalsOK, BeginOK DEF Ops
<1> QED BY <1>4, <1>5, Frame, StoreFacts

\* block_issuer's copy needs the record that the handler itself will store.
LEMMA BlockOK ==
  ASSUME Inv, NEW h \in Handlers, Block(h)
  PROVE  Inv'
<1> DEFINE new == [store[Profile] EXCEPT !.blocked = TRUE]
           r == Start("block", Assign(Fetch(NoSession, Profile, store[Profile]), 1, new), "log")
<1>1. new \in Profiles
  BY StoreFacts DEF Profiles
<1>2. \A e \in Events : Needs([id |-> Profile, val |-> new], e) => e = <<"block", NoLocals.cred>>
  BY CredentialsAssumption, NoLocalsOK DEF Needs, Profile
<1>3. [id |-> Profile, val |-> store[Profile]] \in Items /\ [id |-> Profile, val |-> new] \in Items
  BY <1>1, StoreFacts, ProfileIsItem
<1>4. /\ req' = [req EXCEPT ![h] = r] /\ local' = [local EXCEPT ![h] = NoLocals]
      /\ UNCHANGED <<store, inserted, pem>>
  BY DEF Block
<1> HIDE DEF new
<1>5. HandlerOK(r, NoLocals, store, inserted)
  BY <1>2, <1>3, NoLocalsOK, BeginOK DEF Ops
<1> QED BY <1>4, <1>5, Frame, StoreFacts

\* So does revoke_credential's.
LEMMA RevokeOK ==
  ASSUME Inv, NEW h \in Handlers, NEW c \in Credentials, Revoke(h, c)
  PROVE  Inv'
<1> DEFINE new == [store[c] EXCEPT !.status = "revoked"]
           l == [NoLocals EXCEPT !.cred = c]
           r == Start("revoke", Assign(Fetch(NoSession, c, store[c]), 1, new), "log")
<1>1. store[c] \in Documents /\ new \in Documents
  <2>1. store[c] \in Documents
    BY StoreFacts DEF Revoke
  <2> QED BY <2>1 DEF Documents
<1>2. \A e \in Events : Needs([id |-> c, val |-> new], e) => e = <<"revoke", l.cred>>
  BY CredentialsAssumption, NoLocalsOK DEF Needs, Profile
<1>3. [id |-> c, val |-> store[c]] \in Items /\ [id |-> c, val |-> new] \in Items
  BY <1>1, DocumentIsItem
<1>4. /\ req' = [req EXCEPT ![h] = r] /\ local' = [local EXCEPT ![h] = l]
      /\ UNCHANGED <<store, inserted, pem>>
  BY DEF Revoke
<1>5. l \in Locals /\ l.stage = 0
  BY NoLocalsOK
<1> HIDE DEF new, l
<1>6. HandlerOK(r, l, store, inserted)
  BY <1>2, <1>3, <1>5, BeginOK DEF Ops
<1> QED BY <1>4, <1>6, Frame, StoreFacts

\* issue_credential holds the profile as it is stored.
LEMMA IssueOK ==
  ASSUME Inv, NEW h \in Handlers, Issue(h)
  PROVE  Inv'
<1> DEFINE o == [id |-> Profile, val |-> store[Profile]]
           s == Fetch(NoSession, Profile, store[Profile])
           r == Start("issue", s, "load")
<1>1. o \in Items /\ o.id # "audit" /\ \A e \in Events : Needs(o, e) => <<"audit", e>> \in inserted
  BY StoreFacts, ProfileIsItem DEF Profile
<1>2. s \in Sessions(Items) /\ s.objs = Append(NoSession.objs, o) /\ s.pending = NoSession.pending
  BY <1>1, NoSessionType, FetchType
<1>3. /\ req' = [req EXCEPT ![h] = r] /\ local' = [local EXCEPT ![h] = NoLocals]
      /\ UNCHANGED <<store, inserted, pem>>
  BY DEF Issue
<1> HIDE DEF s, o
<1>4. s.pending = <<>> /\ \A n \in DOMAIN s.objs : s.objs[n] = o
  BY <1>2 DEF NoSession
<1>5. HandlerOK(r, NoLocals, store, inserted)
  BY <1>1, <1>2, <1>4, NoLocalsOK, StartOK DEF Ops
<1> QED BY <1>3, <1>5, Frame, StoreFacts

\* A resync starts with nothing.
LEMMA ResyncOK ==
  ASSUME Inv, NEW h \in Handlers, Resync(h)
  PROVE  Inv'
<1> DEFINE r == Start("resync", NoSession, "load")
<1>1. NoSession \in Sessions(Items) /\ NoSession.pending = <<>> /\ DOMAIN NoSession.objs = {}
  BY NoSessionType DEF NoSession
<1>2. /\ req' = [req EXCEPT ![h] = r] /\ local' = [local EXCEPT ![h] = NoLocals]
      /\ UNCHANGED <<store, inserted, pem>>
  BY DEF Resync
<1>3. HandlerOK(r, NoLocals, store, inserted)
  BY <1>1, NoLocalsOK, StartOK DEF Ops
<1> QED BY <1>2, <1>3, Frame, StoreFacts

\* The parts of a handler's state.
LEMMA HandlerFacts ==
  ASSUME Inv, NEW h \in Handlers
  PROVE  /\ HandlerOK(req[h], local[h], store, inserted)
         /\ req[h] \in Shape(Names, Items) /\ local[h] \in Locals
         /\ Control(req[h], local[h])
         /\ req[h].pc \in Middle => At(req[h]) = req[h].pc
BY DEF Inv, HandlerOK, Requests, Locals, At, Middle

\* A step that changes a handler's place and perhaps its local variables.
LEMMA MoveStep ==
  ASSUME Inv, NEW h \in Handlers, req[h].pc \in Middle, NEW pc \in Middle, NEW k \in Locals,
         req' = [req EXCEPT ![h].pc = pc], local' = [local EXCEPT ![h] = k],
         Control([req[h] EXCEPT !.pc = pc], k),
         UNCHANGED <<store, inserted>>, pem' \in Keys \cup {NoKey, Truncated}
  PROVE  Inv'
<1> DEFINE r == [req[h] EXCEPT !.pc = pc]
<1>1. HandlerOK(r, k, store, inserted)
  BY HandlerFacts, MoveOK
<1>2. req' = [req EXCEPT ![h] = r]
  OBVIOUS
<1>3. StoreOK(store', inserted', pem')
  BY StoreFacts DEF StoreOK
<1>4. HandlerOK(r, k, store', inserted') /\ inserted \subseteq inserted'
  BY <1>1
<1> HIDE DEF r
<1> QED BY <1>2, <1>3, <1>4, Frame

\* A handler that has its key goes on to sign or to look at the profile.
LEMMA KeyStep ==
  ASSUME Inv, NEW h \in Handlers, req[h].pc \in {"load", "save"}, NEW k \in Keys,
         WithKey(h, k, AfterKey(h)),
         UNCHANGED <<store, inserted>>, pem' \in Keys \cup {NoKey, Truncated}
  PROVE  Inv'
<1> DEFINE l == [local[h] EXCEPT !.key = k, !.stage = @ + 1]
           pc == AfterKey(h)
           r == [req[h] EXCEPT !.pc = pc]
<1>1. /\ req[h] \in Shape(Names, Items) /\ local[h] \in Locals /\ Control(req[h], local[h])
      /\ At(req[h]) \in {"load", "save"} /\ req[h].pc \in Middle
  BY HandlerFacts DEF Middle
<1>2. /\ req[h].op \in {"approve", "issue", "resync"}
      /\ local[h].stage \in 0..2
      /\ req[h].op = "resync" => local[h].stage \in 0..1
      /\ req[h].op = "approve" => local[h].stage = 0 /\ local[h].cred = Absent
  BY <1>1 DEF Control, Locals
<1>3. /\ l \in Locals /\ l.key = k /\ l.cred = local[h].cred /\ l.stage = local[h].stage + 1
  <2> DEFINE n == local[h].stage + 1
             m == [local[h] EXCEPT !.key = k, !.stage = n]
  <2>1. n \in 0..3
    BY <1>2
  <2>2. l = m
    OBVIOUS
  <2> HIDE DEF n
  <2>3. m \in Locals /\ m.key = k /\ m.cred = local[h].cred /\ m.stage = n
    BY <1>1, <2>1 DEF Locals
  <2> QED BY <2>2, <2>3 DEF n
<1>4. pc \in {"resign", "sign", "ensure"}
  BY DEF AfterKey
<1>5. /\ pc = "resign" => req[h].op = "resync"
      /\ pc = "sign" => req[h].op = "issue"
      /\ pc = "ensure" => l.stage \in 1..2 /\ (req[h].op # "issue" => l.stage = 1)
  BY <1>2, <1>3 DEF AfterKey
<1>6. req' = [req EXCEPT ![h].pc = pc] /\ local' = [local EXCEPT ![h] = l]
  BY DEF WithKey
<1> HIDE DEF pc, l
<1>7. r.pc = pc /\ r.op = req[h].op
  BY <1>1 DEF Shape
<1>8. At(r) = pc
  BY <1>4, <1>7 DEF At
<1>9. Control(r, l)
  <2> HIDE DEF r
  <2> QED BY <1>2, <1>3, <1>4, <1>5, <1>7, <1>8 DEF Control
<1>10. pc \in Middle
  BY <1>4 DEF Middle
<1> QED BY <1>1, <1>3, <1>6, <1>9, <1>10, MoveStep

\* Reading the key file disturbs nothing.
LEMMA LoadKeyOK ==
  ASSUME Inv, NEW h \in Handlers, LoadKey(h)
  PROVE  Inv'
<1>1. pem' \in Keys \cup {NoKey, Truncated} /\ UNCHANGED <<store, inserted>>
  BY DEF LoadKey, Inv, StoreOK
<1>2. CASE pem \in Keys /\ WithKey(h, pem, AfterKey(h))
  BY <1>1, <1>2, KeyStep DEF LoadKey
<1>3. CASE req' = [req EXCEPT ![h].pc = "generate"] /\ UNCHANGED local
  <2> DEFINE r == [req[h] EXCEPT !.pc = "generate"]
  <2>1. /\ req[h] \in Shape(Names, Items) /\ local[h] \in Locals /\ Control(req[h], local[h])
        /\ At(req[h]) = "load" /\ req[h].pc = "load"
    BY HandlerFacts DEF LoadKey, Middle
  <2>2. r.pc = "generate" /\ r.op = req[h].op /\ At(r) = "generate"
    BY <2>1 DEF Shape, At
  <2> HIDE DEF r
  <2>3. Control(r, local[h])
    BY <2>1, <2>2 DEF Control
  <2>4. local' = [local EXCEPT ![h] = local[h]]
    BY <1>3, StoreFacts
  <2>5. req[h].pc \in Middle /\ "generate" \in Middle
    BY <2>1 DEF Middle
  <2> QED BY <1>1, <1>3, <2>1, <2>3, <2>4, <2>5, MoveStep DEF r
<1> QED BY <1>2, <1>3 DEF LoadKey

\* Neither does generating a key.
LEMMA GenerateKeyOK ==
  ASSUME Inv, NEW h \in Handlers, GenerateKey(h)
  PROVE  Inv'
<1>1. PICK k \in Keys : local' = [local EXCEPT ![h].key = k]
  BY DEF GenerateKey
<1> DEFINE l == [local[h] EXCEPT !.key = k]
           r == [req[h] EXCEPT !.pc = "save"]
<1>2. /\ req[h] \in Shape(Names, Items) /\ local[h] \in Locals /\ Control(req[h], local[h])
      /\ At(req[h]) = "generate" /\ req[h].pc = "generate"
  BY HandlerFacts DEF GenerateKey, Middle
<1>3. l \in Locals /\ l.key = k /\ l.cred = local[h].cred /\ l.stage = local[h].stage
  BY <1>2 DEF Locals
<1>4. r.pc = "save" /\ r.op = req[h].op /\ At(r) = "save"
  BY <1>2 DEF Shape, At
<1>5. local' = [local EXCEPT ![h] = l]
  BY <1>1
<1>6. Control(r, l)
  <2> HIDE DEF r, l
  <2> QED BY <1>2, <1>3, <1>4 DEF Control
<1>7. /\ req[h].pc \in Middle /\ "save" \in Middle
      /\ req' = [req EXCEPT ![h].pc = "save"]
      /\ pem' \in Keys \cup {NoKey, Truncated} /\ UNCHANGED <<store, inserted>>
  BY <1>2 DEF Middle, GenerateKey
<1> HIDE DEF l
<1> QED BY <1>3, <1>5, <1>6, <1>7, MoveStep

\* Nor saving it.
LEMMA SaveKeyOK ==
  ASSUME Inv, NEW h \in Handlers, SaveKey(h)
  PROVE  Inv'
<1>1. At(req[h]) = "save" /\ Control(req[h], local[h])
  BY HandlerFacts DEF SaveKey, Middle
<1>2. local[h].key \in Keys
  BY <1>1 DEF Control
<1> QED BY <1>2, KeyStep DEF SaveKey

\* Where a request is after it has gone on to pc, with a flush or without one.
LEMMA Onward ==
  ASSUME NEW r, NEW s, NEW pc, NEW f, Goes(r, s, pc, f)
  PROVE  /\ At(f) = pc /\ f.op = r.op /\ f.session = s
         /\ \/ f.pc = pc /\ s.pending = <<>>
            \/ f.pc = "flush" /\ f.then = pc /\ f.writing = Writes(s)
<1> DEFINE q == [r EXCEPT !.session = s]
           p == [q EXCEPT !.pc = pc]
<1>1. r \in Shape(Names, Items) /\ Sound(r) /\ r.pc # "flush" /\ pc # "flush" /\ pc \in Names
  BY DEF Goes, Requests, Middle, Names
<1>2. /\ q \in Shape(Names, Items) /\ q.session = s /\ q.pc = r.pc /\ q.op = r.op
      /\ q.writing = r.writing /\ q.then = r.then
  BY <1>1 DEF Shape, Goes
<1>3. \/ f = Flush(q, pc) /\ (s.pending = <<>> \/ Writes(s) # <<>>)
      \/ f = p /\ s.pending = <<>>
  BY DEF Goes
<1> HIDE DEF q
<1>4. q \in Requests(Names, Items) /\ s \in Sessions(Items)
  BY <1>1, <1>2 DEF Requests, Sound, Goes
<1>5. p.session = s /\ p.op = r.op /\ p.pc = pc
  BY <1>1, <1>2 DEF Shape
<1>6. CASE f = Flush(q, pc) /\ (s.pending = <<>> \/ Writes(s) # <<>>)
  <2>1. /\ f.session = s /\ f.op = r.op
        /\ \/ f.pc = pc /\ Writes(s) = <<>>
           \/ f.pc = "flush" /\ f.then = pc /\ f.writing = Writes(s)
    BY <1>1, <1>2, <1>4, <1>6, FlushType, NamesBasic
  <2> QED BY <1>1, <1>6, <2>1 DEF At
<1>7. CASE f = p /\ s.pending = <<>>
  <2> HIDE DEF p
  <2> QED BY <1>1, <1>5, <1>7 DEF At, q, p
<1> QED BY <1>3, <1>6, <1>7

\* ensure_issuer_public_key changes the key of the profile and keeps its block,
\* which is recorded.
LEMMA EnsureKeyOK ==
  ASSUME Inv, NEW h \in Handlers, EnsureKey(h)
  PROVE  Inv'
<1> DEFINE r == req[h]
           l == local[h]
           o == [id |-> Profile, val |-> store[Profile]]
           again == Fetch(r.session, Profile, store[Profile])
           n == Newest(again)
           new == [store[Profile] EXCEPT !.key = l.key]
           p == [id |-> Profile, val |-> new]
           kept == IF ~Outdated(h) THEN again
                   ELSE Assign(again, n, [ValOf(again, n) EXCEPT !.key = l.key])
           next == IF r.op = "approve" THEN "log" ELSE "load"
           q == [r EXCEPT !.session = kept]
           f == IF kept = again THEN [q EXCEPT !.pc = next] ELSE Flush(q, next)
<1>1. /\ HandlerOK(r, l, store, inserted) /\ r.pc \in Middle /\ At(r) = "ensure"
      /\ r.session \in Sessions(Items) /\ r.session.pending = <<>> /\ r \in Requests(Names, Items)
      /\ Control(r, l) /\ l \in Locals
  <2>1. r.pc = "ensure"
    BY DEF EnsureKey
  <2>2. r.pc \in Middle /\ r.pc # "flush"
    BY <2>1 DEF Middle
  <2> QED BY <2>1, <2>2, HandlerFacts DEF HandlerOK, Shape
<1>2. /\ r.op \in {"approve", "issue", "resync"} /\ l.stage \in 1..2 /\ (r.op # "issue" => l.stage = 1)
      /\ l.key \in Keys /\ (r.op = "approve" => l.cred = Absent)
  BY <1>1 DEF Control
<1>3. /\ o \in Items /\ Quiet(o, inserted)
  BY StoreFacts, ProfileIsItem DEF Profile, Quiet
<1>4. /\ p \in Items /\ Quiet(p, inserted)
  <2>1. new \in Profiles /\ new.blocked = store[Profile].blocked
    BY <1>2, StoreFacts DEF Profiles
  <2>2. \A e : Needs(p, e) => Needs(o, e)
    BY <2>1, CredentialsAssumption DEF Needs, Profile
  <2> QED BY <1>3, <2>1, <2>2, ProfileIsItem DEF Quiet
<1>5. /\ again \in Sessions(Items) /\ again.objs = Append(r.session.objs, o) /\ again.pending = <<>>
  <2> DEFINE s == r.session
             v == store[Profile]
             id == Profile
  <2>1. s \in Sessions(Items) /\ [id |-> id, val |-> v] \in Items /\ s.pending = <<>>
    BY <1>1, <1>3
  <2> HIDE DEF s, v, id
  <2>2. /\ Fetch(s, id, v) \in Sessions(Items)
        /\ Fetch(s, id, v).objs = Append(s.objs, [id |-> id, val |-> v])
        /\ Fetch(s, id, v).pending = s.pending
    BY <2>1, FetchType
  <2> QED BY <2>1, <2>2 DEF s, v, id
<1>6. r.session.objs \in Seq(Items) /\ \A m \in DOMAIN r.session.objs : Quiet(r.session.objs[m], inserted)
  BY <1>1, MiddleQuiet DEF Sessions
<1>7. /\ kept \in Sessions(Items) /\ kept.pending = <<>>
      /\ DOMAIN r.session.objs \subseteq DOMAIN kept.objs
      /\ \A m \in DOMAIN kept.objs : Quiet(kept.objs[m], inserted)
  <2>1. /\ DOMAIN again.objs = DOMAIN r.session.objs \cup {n} /\ again.objs[n] = o
        /\ \A m \in DOMAIN r.session.objs : again.objs[m] = r.session.objs[m]
    <3> DEFINE g == r.session.objs
    <3>1. g \in Seq(Items) /\ o \in Items /\ again.objs = Append(g, o) /\ n = Len(again.objs)
      BY <1>3, <1>5, <1>6 DEF Newest
    <3> HIDE DEF g, o, n, again
    <3>2. DOMAIN again.objs = DOMAIN g \cup {n} /\ again.objs[n] = o /\ \A m \in DOMAIN g : again.objs[m] = g[m]
      BY <3>1, AppendFacts
    <3> QED BY <3>2 DEF g
  <2>2. \A m \in DOMAIN again.objs : Quiet(again.objs[m], inserted)
    <3> HIDE DEF o, n, again
    <3> QED BY <1>3, <1>6, <2>1
  <2>3. CASE ~Outdated(h)
    BY <1>5, <2>1, <2>2, <2>3
  <2>4. CASE Outdated(h)
    <3> DEFINE a == Assign(again, n, new)
    <3>1. ValOf(again, n) = store[Profile]
      BY <2>1 DEF ValOf
    <3>2. kept = a
      BY <2>4, <3>1
    <3>3. p = WithVal(o, new)
      BY DEF WithVal
    <3> HIDE DEF again, n, new, o, p
    <3>4. n \in DOMAIN again.objs /\ p = WithVal(again.objs[n], new)
      BY <2>1, <3>3
    <3>5. a \in Sessions(Items) /\ a.objs = WithObject(again.objs, n, p) /\ a.pending = again.pending
      <4>1. \A t \in Sessions(Items) : \A m \in DOMAIN t.objs : \A v : \A y \in Items :
              y = WithVal(t.objs[m], v)
                => /\ Assign(t, m, v) \in Sessions(Items)
                   /\ Assign(t, m, v).objs = WithObject(t.objs, m, y)
                   /\ Assign(t, m, v).pending = t.pending
        BY AssignType
      <4> QED BY <1>4, <1>5, <3>4, <4>1
    <3> HIDE DEF a
    <3>6. /\ DOMAIN a.objs = DOMAIN again.objs
          /\ \A m \in DOMAIN a.objs : a.objs[m] = p \/ a.objs[m] = again.objs[m]
      BY <3>5 DEF WithObject
    <3>7. \A m \in DOMAIN a.objs : Quiet(a.objs[m], inserted)
      BY <1>4, <2>2, <3>6
    <3> HIDE DEF kept
    <3> QED BY <1>5, <2>1, <3>2, <3>5, <3>6, <3>7
  <2> QED BY <2>3, <2>4
<1>8. req' = [req EXCEPT ![h] = f] /\ UNCHANGED <<store, inserted, pem, local>>
  BY DEF EnsureKey
<1> HIDE DEF kept, again, o, p, new, n
<1>9. Goes(r, kept, next, f)
  <2>1. next \in Middle \cup {"log", "answer"}
    BY DEF Middle
  <2> HIDE DEF next
  <2> QED BY <1>1, <1>7, <2>1 DEF Goes
<1>10. next \in {"log", "load"} /\ (next = "log" <=> r.op = "approve")
  OBVIOUS
<1> HIDE DEF f, next
<1>11. /\ At(f) = next /\ f.op = r.op
  BY <1>9, Onward
<1>12. Control(f, l)
  BY <1>2, <1>10, <1>11 DEF Control, Ops
<1>13. Signed(f, l, store)
  BY <1>10, <1>11 DEF Signed, At
<1>14. HandlerOK(f, l, store, inserted)
  BY <1>1, <1>7, <1>9, <1>12, <1>13, QuietOK
<1>15. local' = [local EXCEPT ![h] = l]
  BY <1>8, StoreFacts
<1> QED BY <1>8, <1>14, <1>15, Frame, StoreFacts

\* What signing leaves of a handler: the credential c is added to what its session
\* holds and is the first thing its flush stores.
Signing(r, key, c, s, n, f) ==
  /\ s \in Sessions(Items) /\ s.pending = <<n>>
  /\ DOMAIN s.objs = DOMAIN r.session.objs \cup {n}
  /\ s.objs[n] = [id |-> c, val |-> [status |-> "active", key |-> key]]
  /\ \A m \in DOMAIN r.session.objs : s.objs[m] = r.session.objs[m]
  /\ Writable(s) \subseteq Writable(r.session) \cup {n}
  /\ 1 \in DOMAIN Writes(s) /\ Writes(s)[1] = n
  /\ f.op = r.op /\ f.session = s /\ At(f) = "log"
  /\ f.pc = "flush" /\ f.then = "log" /\ f.writing = Writes(s)

\* Sign does that.
LEMMA SignFacts ==
  ASSUME NEW r \in Requests(Names, Items), r.pc \in Middle, r.session.pending = <<>>,
         NEW key \in Keys, NEW c \in Credentials,
         NEW s, s = AddNew(r.session, c, [status |-> "active", key |-> key]),
         NEW f, f = Flush([r EXCEPT !.session = s], "log")
  PROVE  Goes(r, s, "log", f) /\ Signing(r, key, c, s, Len(r.session.objs) + 1, f)
<1> DEFINE doc == [status |-> "active", key |-> key]
           o == [id |-> c, val |-> doc]
           t == r.session
           n == Len(t.objs) + 1
<1>1. o \in Items
  <2>1. doc \in Documents
    BY DEF Documents
  <2> QED BY <2>1, DocumentIsItem
<1>2. t \in Sessions(Items) /\ t.pending = <<>>
  BY DEF Requests, Shape
<1>3. /\ s \in Sessions(Items) /\ s.objs = Append(t.objs, o) /\ s.pending = Append(t.pending, n)
      /\ Writable(s) \subseteq Writable(t) \cup {n}
  <2>1. t \in Sessions(Items) /\ [id |-> c, val |-> doc] \in Items /\ s = AddNew(t, c, doc)
    BY <1>1, <1>2
  <2> HIDE DEF t, doc
  <2> QED BY <2>1, AddNewType, AddNewStores
<1>4. /\ DOMAIN s.objs = DOMAIN t.objs \cup {n} /\ s.objs[n] = o
      /\ \A m \in DOMAIN t.objs : s.objs[m] = t.objs[m]
  <2> DEFINE g == t.objs
             q == s.objs
  <2>1. g \in Seq(Items) /\ q = Append(g, o)
    BY <1>2, <1>3 DEF Sessions
  <2> HIDE DEF g, q, o
  <2>2. /\ Len(q) = Len(g) + 1 /\ DOMAIN q = DOMAIN g \cup {Len(q)}
        /\ q[Len(q)] = o /\ \A m \in DOMAIN g : q[m] = g[m]
    BY <1>1, <2>1, AppendFacts
  <2> QED BY <2>2 DEF g, q
<1>5. s.pending = <<n>>
  BY <1>2, <1>3
<1>6. 1 \in DOMAIN Writes(s) /\ Writes(s)[1] = n
  <2>1. \A i \in DOMAIN s.pending : i \in DOMAIN Writes(s) /\ Writes(s)[i] = s.pending[i]
    BY <1>3, WritesType DEF StartsWith
  <2> HIDE DEF n
  <2> QED BY <1>5, <2>1
<1>7. Goes(r, s, "log", f)
  BY <1>3, <1>4, <1>6 DEF Goes
<1>8. /\ At(f) = "log" /\ f.op = r.op /\ f.session = s
      /\ f.pc = "flush" /\ f.then = "log" /\ f.writing = Writes(s)
  <2>1. /\ At(f) = "log" /\ f.op = r.op /\ f.session = s
        /\ \/ f.pc = "log" /\ s.pending = <<>>
           \/ f.pc = "flush" /\ f.then = "log" /\ f.writing = Writes(s)
    BY <1>7, Onward
  <2>2. s.pending # <<>>
    <3> DEFINE p == s.pending
    <3>1. p = <<n>> /\ n \in Nat
      BY <1>2, <1>5 DEF Sessions
    <3> HIDE DEF p, n
    <3>2. p # <<>>
      BY <3>1
    <3> QED BY <3>2 DEF p
  <2> QED BY <2>1, <2>2
<1> HIDE DEF n
<1>9. Signing(r, key, c, s, n, f)
  BY <1>3, <1>4, <1>5, <1>6, <1>8 DEF Signing
<1> QED BY <1>7, <1>9 DEF n

\* A new credential needs no record, and its flush stores it before the handler
\* goes on to log.
LEMMA SignOK ==
  ASSUME Inv, NEW h \in Handlers, Sign(h)
  PROVE  Inv'
<1> DEFINE r == req[h]
           key == local[h].key
           doc == [status |-> "active", key |-> key]
           n == Len(r.session.objs) + 1
<1>1. PICK c \in Credentials :
        /\ req' = [req EXCEPT ![h] = Flush([r EXCEPT !.session = AddNew(r.session, c, doc)], "log")]
        /\ local' = [local EXCEPT ![h].cred = c]
  BY DEF Sign
<1> DEFINE o == [id |-> c, val |-> doc]
           l == [local[h] EXCEPT !.cred = c]
           s == AddNew(r.session, c, doc)
           f == Flush([r EXCEPT !.session = s], "log")
<1>2. /\ HandlerOK(r, local[h], store, inserted) /\ r.pc \in Middle /\ At(r) = "sign"
      /\ r.session.pending = <<>> /\ r \in Requests(Names, Items)
      /\ Control(r, local[h]) /\ local[h] \in Locals
  <2>1. r.pc = "sign"
    BY DEF Sign
  <2>2. r.pc \in Middle /\ r.pc # "flush"
    BY <2>1 DEF Middle
  <2> QED BY <2>1, <2>2, HandlerFacts DEF HandlerOK
<1>3. r.op = "issue" /\ key \in Keys
  BY <1>2 DEF Control
<1>4. l \in Locals /\ l.key = key /\ l.stage = local[h].stage /\ l.cred = c
  BY <1>2 DEF Locals
<1>5. Quiet(o, inserted) /\ o.id = c
  <2>1. doc.status = "active"
    OBVIOUS
  <2>2. \A e : ~Needs(o, e)
    BY <2>1, CredentialsAssumption DEF Needs, Profile
  <2>3. o.id # "audit"
    BY CredentialsAssumption
  <2> QED BY <2>2, <2>3 DEF Quiet
<1>6. req' = [req EXCEPT ![h] = f] /\ local' = [local EXCEPT ![h] = l]
  BY <1>1
<1>7. Goes(r, s, "log", f) /\ Signing(r, key, c, s, n, f)
  <2> HIDE DEF r, key
  <2> QED BY <1>2, <1>3, SignFacts
<1> HIDE DEF f, n, l, s
<1>8. s.objs[n] = o /\ 1 \in DOMAIN f.writing /\ f.writing[1] = n
  BY <1>7 DEF Signing
<1> HIDE DEF o
<1>9. \A m \in DOMAIN s.objs : Quiet(s.objs[m], inserted)
  <2>1. \A m \in DOMAIN r.session.objs : Quiet(r.session.objs[m], inserted)
    BY <1>2, MiddleQuiet
  <2> QED BY <1>5, <1>7, <1>8, <2>1 DEF Signing
<1>10. /\ At(f) = "log" /\ f.op = r.op /\ f.session = s /\ f.pc = "flush" /\ f.then = "log"
  BY <1>7 DEF Signing
<1>11. Control(f, l)
  BY <1>3, <1>4, <1>10 DEF Control, Ops
<1>12. Signed(f, l, store)
  BY <1>4, <1>5, <1>8, <1>10 DEF Signed
<1>13. HandlerOK(f, l, store, inserted)
  BY <1>2, <1>4, <1>7, <1>9, <1>11, <1>12, QuietOK
<1>14. UNCHANGED <<store, inserted, pem>>
  BY DEF Sign
<1> QED BY <1>6, <1>13, <1>14, Frame, StoreFacts

\* A credential as it is stored, and as it is signed again with a key.
Again(c, key) == [id |-> c, val |-> Resigned(store[c], key)]

\* What signing again leaves of a handler: it holds every credential as it is
\* stored but for the key, and stores those whose key is another.
Resigning(r, key, s, f) ==
  /\ s \in Sessions(Items) /\ s.pending = <<>>
  /\ \A n \in DOMAIN s.objs : \/ n \in DOMAIN r.session.objs /\ s.objs[n] = r.session.objs[n]
                              \/ \E c \in ToResign : s.objs[n] = Again(c, key)
  /\ \A n \in Writable(s) : \/ n \in Writable(r.session) /\ s.objs[n] = r.session.objs[n]
                            \/ \E c \in ToResign : s.objs[n] = Again(c, key)
  /\ \A c \in ToResign : \/ store[c].key = key
                         \/ \E i \in DOMAIN Writes(s) : s.objs[Writes(s)[i]].id = c
  /\ f.op = r.op /\ f.session = s /\ At(f) = "answer"
  /\ \/ f.pc = "answer" /\ Writes(s) = <<>>
     \/ f.pc = "flush" /\ f.writing = Writes(s)

\* Resign does that.
LEMMA ResignFacts ==
  ASSUME Inv, NEW r \in Requests(Names, Items), r.pc \in Middle, r.session.pending = <<>>,
         NEW key \in Keys, NEW found \in SetToSeqs(ToResign),
         NEW s, s = AllResigned(r.session, found, key),
         NEW f, f = Flush([r EXCEPT !.session = s], "answer")
  PROVE  Goes(r, s, "answer", f) /\ Resigning(r, key, s, f)
<1> DEFINE N == Cardinality(ToResign)
           t == r.session
           objs == [i \in 1..N |-> [id |-> found[i], val |-> Resigned(store[found[i]], key)]]
           tracked == [i \in 1..N |-> [obj |-> Newest(t) + i, snapshot |-> store[found[i]]]]
<1>1. N \in Nat /\ ToResign \subseteq Credentials
  <2>1. ToResign \subseteq Credentials
    BY DEF ToResign
  <2>2. IsFiniteSet(ToResign)
    BY <2>1, CredentialsAssumption, FS_Subset
  <2> QED BY <2>1, <2>2, FS_CardinalityType
<1>2. found \in [1..N -> ToResign] /\ \A c \in ToResign : \E i \in 1..N : found[i] = c
  <2>1. found \in [1..N -> ToResign] /\ \A i, j \in 1..N : found[i] = found[j] => i = j
    BY DEF SetToSeqs
  <2>2. IsFiniteSet(ToResign)
    BY <1>1, CredentialsAssumption, FS_Subset
  <2> QED BY ZenonT(60), <2>1, <2>2, EnumerationOnto
<1>3. t \in Sessions(Items) /\ Newest(t) \in Nat
  BY DEF Requests, Shape, Newest, Sessions
<1>4. s = FetchedAll(t, objs, tracked)
  <2>1. DOMAIN found = 1..N
    BY <1>2
  <2> QED BY <2>1 DEF AllResigned, FetchedAll
<1> HIDE DEF N, t
<1>5. ASSUME NEW i \in 1..N
      PROVE  /\ found[i] \in ToResign
             /\ objs[i] = Again(found[i], key) /\ objs[i] \in Items
             /\ tracked[i] = [obj |-> Newest(t) + i, snapshot |-> store[found[i]]]
             /\ tracked[i] \in Entries(Items)
  <2> DEFINE c == found[i]
             d == Resigned(store[c], key)
             Vals == {o.val : o \in Items}
             n == Newest(t) + i
             v == store[c]
  <2>1. c \in ToResign /\ c \in Credentials /\ v \in Documents
    BY <1>1, <1>2, StoreFacts DEF ToResign
  <2>2. d \in Documents
    BY <2>1 DEF Documents, Resigned
  <2>3. objs[i] = Again(c, key)
    BY DEF Again
  <2>4. [id |-> c, val |-> d] \in Items /\ [id |-> c, val |-> v] \in Items
    BY <2>1, <2>2, DocumentIsItem
  <2>5. n \in Nat
    BY <1>1, <1>3
  <2>6. v \in Vals
    <3> DEFINE y == [id |-> c, val |-> v]
    <3>1. y \in Items /\ y.val = v
      BY <2>4
    <3> HIDE DEF y
    <3> QED BY <3>1
  <2>7. tracked[i] = [obj |-> n, snapshot |-> v] /\ Entries(Items) = [obj : Nat, snapshot : Vals]
    BY DEF Entries
  <2>8. Again(c, key) \in Items
    BY <2>4 DEF Again
  <2> HIDE DEF objs, tracked, Vals, v, n, c
  <2>9. tracked[i] \in Entries(Items)
    BY <2>5, <2>6, <2>7
  <2> QED BY <2>1, <2>3, <2>7, <2>8, <2>9 DEF c, n, v
<1>6. /\ objs \in Seq(Items) /\ DOMAIN objs = 1..N
      /\ tracked \in Seq(Entries(Items)) /\ DOMAIN tracked = 1..N
  <2>1. objs = [i \in 1..N |-> objs[i]] /\ tracked = [i \in 1..N |-> tracked[i]]
    OBVIOUS
  <2>2. ASSUME NEW T, NEW q, q = [i \in 1..N |-> q[i]], \A i \in 1..N : q[i] \in T
        PROVE  q \in Seq(T) /\ DOMAIN q = 1..N
    <3>1. q \in [1..N -> T]
      BY <2>2
    <3> QED BY <1>1, <3>1
  <2> DEFINE F == Items
             G == Entries(Items)
  <2>3. /\ \A i \in 1..N : objs[i] \in F
        /\ \A i \in 1..N : tracked[i] \in G
    BY <1>5
  <2> HIDE DEF objs, tracked, F, G
  <2>4. objs \in Seq(F) /\ DOMAIN objs = 1..N
    BY <2>1, <2>2, <2>3
  <2>5. tracked \in Seq(G) /\ DOMAIN tracked = 1..N
    BY <2>1, <2>2, <2>3
  <2> QED BY <2>4, <2>5 DEF F, G
<1>7. \A i \in 1..N : tracked[i].obj = Newest(t) + i /\ tracked[i].snapshot = store[found[i]]
  OBVIOUS
<1> HIDE DEF objs, tracked
<1>8. \A i \in DOMAIN tracked : \E j \in DOMAIN objs : tracked[i].obj = Newest(t) + j
  BY <1>6, <1>7
<1>9. /\ s \in Sessions(Items) /\ s.pending = t.pending
      /\ DOMAIN t.objs \subseteq DOMAIN s.objs
      /\ \A n \in DOMAIN s.objs : \/ n \in DOMAIN t.objs /\ s.objs[n] = t.objs[n]
                                  \/ \E i \in DOMAIN objs : s.objs[n] = objs[i]
  <2> DEFINE a == FetchedAll(t, objs, tracked)
  <2>1. t \in Sessions(Items) /\ objs \in Seq(Items) /\ tracked \in Seq(Entries(Items))
    BY <1>3, <1>6
  <2>2. /\ a \in Sessions(Items) /\ a.pending = t.pending
        /\ DOMAIN t.objs \subseteq DOMAIN a.objs
        /\ \A n \in DOMAIN a.objs : \/ n \in DOMAIN t.objs /\ a.objs[n] = t.objs[n]
                                    \/ \E i \in DOMAIN objs : a.objs[n] = objs[i]
    BY <1>8, <2>1, FetchAllType
  <2> QED BY <1>4, <2>2
<1>10. /\ \A n \in DOMAIN t.objs : s.objs[n] = t.objs[n]
       /\ \A i \in DOMAIN objs : s.objs[Newest(t) + i] = objs[i]
       /\ \A i \in DOMAIN s.tracked : \/ i \in DOMAIN t.tracked /\ s.tracked[i] = t.tracked[i]
                                      \/ \E j \in DOMAIN tracked : s.tracked[i] = tracked[j]
       /\ \A j \in DOMAIN tracked : \E i \in DOMAIN s.tracked : s.tracked[i] = tracked[j]
  <2> DEFINE a == FetchedAll(t, objs, tracked)
  <2>1. t \in Sessions(Items) /\ objs \in Seq(Items) /\ tracked \in Seq(Entries(Items))
    BY <1>3, <1>6
  <2>2. /\ \A n \in DOMAIN t.objs : a.objs[n] = t.objs[n]
        /\ \A i \in DOMAIN objs : a.objs[Newest(t) + i] = objs[i]
        /\ \A i \in DOMAIN a.tracked : \/ i \in DOMAIN t.tracked /\ a.tracked[i] = t.tracked[i]
                                       \/ \E j \in DOMAIN tracked : a.tracked[i] = tracked[j]
        /\ \A j \in DOMAIN tracked : \E i \in DOMAIN a.tracked : a.tracked[i] = tracked[j]
    BY <2>1, FetchAllTracks
  <2> QED BY <1>4, <2>2
<1>11. s.pending = <<>>
  BY <1>9 DEF t
<1>12. \A n \in DOMAIN s.objs : \/ n \in DOMAIN t.objs /\ s.objs[n] = t.objs[n]
                                \/ \E c \in ToResign : s.objs[n] = Again(c, key)
  BY <1>5, <1>6, <1>9
<1>13. ASSUME NEW n \in Writable(s)
       PROVE  \/ n \in Writable(t) /\ s.objs[n] = t.objs[n]
              \/ \E c \in ToResign : s.objs[n] = Again(c, key)
  <2>1. PICK i \in DOMAIN s.tracked : n = s.tracked[i].obj
    BY <1>11 DEF Writable
  <2>2. CASE i \in DOMAIN t.tracked /\ s.tracked[i] = t.tracked[i]
    <3>1. n \in DOMAIN t.objs
      BY <1>3, <2>1, <2>2 DEF Sessions
    <3> QED BY <1>10, <2>1, <2>2, <3>1 DEF Writable
  <2>3. CASE \E j \in DOMAIN tracked : s.tracked[i] = tracked[j]
    <3>1. PICK j \in 1..N : s.tracked[i] = tracked[j]
      BY <1>6, <2>3
    <3>2. n = Newest(t) + j
      BY <1>7, <2>1, <3>1
    <3>3. s.objs[n] = Again(found[j], key)
      BY <1>5, <1>6, <1>10, <3>2
    <3> QED BY <1>5, <3>3
  <2> QED BY <1>10, <2>2, <2>3
<1>14. ASSUME NEW c \in ToResign, store[c].key # key
       PROVE  \E i \in DOMAIN Writes(s) : s.objs[Writes(s)[i]].id = c
  <2>1. PICK j \in 1..N : found[j] = c
    BY <1>2
  <2>2. PICK i \in DOMAIN s.tracked : s.tracked[i] = tracked[j]
    BY <1>6, <1>10
  <2>3. s.tracked[i].obj = Newest(t) + j /\ s.tracked[i].snapshot = store[c]
    BY <1>7, <2>1, <2>2
  <2>4. s.objs[Newest(t) + j] = Again(c, key)
    BY <1>5, <1>6, <1>10, <2>1
  <2>5. Again(c, key).id = c /\ Again(c, key).val # store[c]
    <3>1. store[c] \in Documents
      BY <1>1, StoreFacts DEF ToResign
    <3> QED BY <1>14, <3>1 DEF Again, Resigned, Documents
  <2>6. i \in Dirty(s)
    BY <2>3, <2>4, <2>5 DEF Dirty, ValOf
  <2>7. PICK k \in DOMAIN Writes(s) : IdOf(s, Writes(s)[k]) = IdOf(s, s.tracked[i].obj)
    BY <1>9, <2>6, WritesExactly
  <2> QED BY <2>3, <2>4, <2>5, <2>7 DEF IdOf
<1>15. Goes(r, s, "answer", f)
  BY <1>9, <1>11 DEF Goes, t
<1>16. /\ f.op = r.op /\ f.session = s /\ At(f) = "answer"
       /\ \/ f.pc = "answer" /\ s.pending = <<>>
          \/ f.pc = "flush" /\ f.then = "answer" /\ f.writing = Writes(s)
  BY <1>15, Onward
<1>17. f.pc = "answer" => Writes(s) = <<>>
  <2>1. SUFFICES ASSUME Writes(s) # <<>> PROVE f.pc = "flush"
    BY <1>16
  <2> DEFINE q == [r EXCEPT !.session = s]
  <2>2. q \in Shape(Names, Items)
    BY <1>9 DEF Requests, Shape
  <2>3. q.session = s
    BY DEF Requests, Shape
  <2> HIDE DEF q
  <2>4. f = [q EXCEPT !.pc = "flush", !.then = "answer", !.writing = Writes(s)]
    BY <2>1, <2>3 DEF Flush, q
  <2> QED BY <2>2, <2>4 DEF Shape
<1>18. Resigning(r, key, s, f)
  BY <1>9, <1>11, <1>12, <1>13, <1>14, <1>16, <1>17 DEF Resigning, t
<1> QED BY <1>15, <1>18

\* Signing again keeps the status of the credentials, and their revocations are
\* recorded.
LEMMA ResignOK ==
  ASSUME Inv, NEW h \in Handlers, Resign(h)
  PROVE  Inv'
<1> DEFINE r == req[h]
           l == local[h]
<1>1. PICK found \in SetToSeqs(ToResign) :
        req' = [req EXCEPT ![h] =
                  Flush([r EXCEPT !.session = AllResigned(r.session, found, l.key)], "answer")]
  BY DEF Resign
<1> DEFINE s == AllResigned(r.session, found, l.key)
           f == Flush([r EXCEPT !.session = s], "answer")
<1>2. /\ HandlerOK(r, l, store, inserted) /\ r.pc \in Middle /\ At(r) = "resign"
      /\ r.session.pending = <<>> /\ r \in Requests(Names, Items)
      /\ Control(r, l) /\ l \in Locals
  <2>1. r.pc = "resign"
    BY DEF Resign
  <2>2. r.pc \in Middle /\ r.pc # "flush"
    BY <2>1 DEF Middle
  <2> QED BY <2>1, <2>2, HandlerFacts DEF HandlerOK
<1>3. r.op = "resync" /\ l.key \in Keys
  BY <1>2 DEF Control
<1>4. req' = [req EXCEPT ![h] = f]
  BY <1>1
<1>5. Goes(r, s, "answer", f) /\ Resigning(r, l.key, s, f)
  <2> HIDE DEF r, l
  <2> QED BY <1>2, <1>3, ResignFacts
<1> HIDE DEF f, s
<1>6. ASSUME NEW c \in ToResign PROVE Quiet(Again(c, l.key), inserted)
  <2> DEFINE o == Again(c, l.key)
  <2>1. c \in Credentials /\ store[c] \in Documents
    BY StoreFacts DEF ToResign
  <2>2. o.id = c /\ o.val.status = store[c].status
    BY <2>1 DEF Again, Resigned, Documents
  <2> HIDE DEF o
  <2>3. ASSUME NEW e \in Events, Needs(o, e) PROVE <<"audit", e>> \in inserted
    <3>1. Needs([id |-> c, val |-> store[c]], e)
      BY <2>1, <2>2, <2>3, CredentialsAssumption DEF Needs, Profile
    <3> QED BY <2>1, <3>1, StoreFacts
  <2>4. o.id # "audit"
    BY <2>1, <2>2, CredentialsAssumption
  <2> QED BY <2>3, <2>4 DEF Quiet, o
<1>7. \A n \in DOMAIN s.objs : Quiet(s.objs[n], inserted)
  <2>1. \A n \in DOMAIN r.session.objs : Quiet(r.session.objs[n], inserted)
    BY <1>2, MiddleQuiet
  <2> QED BY <1>5, <1>6, <2>1 DEF Resigning
<1>8. At(f) = "answer" /\ f.op = r.op
  BY <1>5 DEF Resigning
<1>9. Control(f, l) /\ Signed(f, l, store)
  BY <1>3, <1>8 DEF Control, Signed
<1>10. HandlerOK(f, l, store, inserted)
  BY <1>2, <1>5, <1>7, <1>9, QuietOK
<1>11. UNCHANGED <<store, inserted, pem, local>>
  BY DEF Resign
<1>12. local' = [local EXCEPT ![h] = l]
  BY <1>11, StoreFacts
<1> QED BY <1>4, <1>10, <1>11, <1>12, Frame, StoreFacts

\* The end of a handler that issues nothing: its record is stored first.
LEMMA LogFirst ==
  ASSUME NEW r, NEW l, NEW st, NEW ins, HandlerOK(r, l, st, ins), r.pc = "log", r.op # "issue",
         NEW f, f = LogEvent(r, <<r.op, l.cred>>, "answer")
  PROVE  HandlerOK(f, l, st, ins)
<1> DEFINE ev == <<r.op, l.cred>>
           m == Len(r.session.objs) + 1
           g == r.session.objs
<1>1. /\ r \in Requests(Names, Items) /\ g \in Seq(Items) /\ r.session.pending = <<>>
      /\ l \in Locals /\ Control(r, l) /\ At(r) = "log" /\ Unlogged(r)
  BY DEF HandlerOK, Requests, Shape, Sessions, At
<1>2. r.op \in Ops /\ ev \in Events
  BY <1>1 DEF Control, Events, Locals
<1>3. AuditItem(ev) \in Items
  BY <1>2, AuditIsItem
<1>4. /\ f \in Requests(Names, Items) /\ f.session.objs = Append(g, AuditItem(ev))
      /\ f.op = r.op /\ f.pc = "flush" /\ f.then = "answer"
      /\ 1 \in DOMAIN f.writing /\ f.writing[1] = m
  <2> DEFINE e == ev
             pc == "answer"
             pending == Append(r.session.pending, Len(r.session.objs) + 1)
             q == LogEvent(r, e, pc)
  <2>1. pc \in Names /\ pc # "flush" /\ f = q /\ AuditItem(e) \in Items
    BY <1>3 DEF Names
  <2>2. 1 \in DOMAIN pending /\ pending[1] = m
    BY <1>1
  <2> HIDE DEF e, pc, StartsWith, Recording
  <2>3. Recording(Names, Items, r, e, pc, q)
    <3>1. r \in Requests(Names, Items) /\ pc \in Names /\ pc # "flush" /\ AuditItem(e) \in Items
      BY <1>1, <2>1
    <3> QED BY <3>1, LogEventType, NamesBasic
  <2> QED BY <2>1, <2>2, <2>3 DEF e, pc, StartsWith, Recording
<1> DEFINE objs == f.session.objs
<1>5. /\ DOMAIN objs = DOMAIN g \cup {m} /\ objs[m] = AuditItem(ev)
      /\ \A n \in DOMAIN g : objs[n] = g[n]
  <2>1. objs = Append(g, AuditItem(ev)) /\ g \in Seq(Items) /\ m = Len(g) + 1
    BY <1>1, <1>4
  <2> HIDE DEF objs, ev, g, m
  <2>2. /\ Len(objs) = Len(g) + 1 /\ DOMAIN objs = DOMAIN g \cup {Len(objs)}
        /\ objs[Len(objs)] = AuditItem(ev) /\ \A n \in DOMAIN g : objs[n] = g[n]
    BY <1>3, <2>1, AppendFacts
  <2> QED BY <2>1, <2>2
<1> HIDE DEF m
<1>6. NextObject(f) = AuditItem(ev)
  BY <1>4, <1>5, NextObjectType, NamesBasic
<1> HIDE DEF objs
<1>7. Reviewed(f, l, ins)
  <2> SUFFICES ASSUME NEW n \in DOMAIN objs, NEW e \in Events, Needs(objs[n], e)
               PROVE  <<"audit", e>> \in ins \/ Covered(f, l, e)
    BY DEF Reviewed, objs
  <2>1. objs[m].id = "audit"
    BY <1>5 DEF AuditItem
  <2>2. n \in DOMAIN g /\ objs[n] = g[n]
    BY <1>5, <2>1, NeedsNothing
  <2>3. <<"audit", e>> \in ins \/ Covered(r, l, e)
    BY <2>2 DEF HandlerOK, Reviewed
  <2>4. Covered(r, l, e) => e = ev
    BY DEF Covered
  <2>5. Covered(f, l, ev)
    BY <1>4, <1>6 DEF Covered
  <2> QED BY <2>3, <2>4, <2>5
<1>8. Ordered(f, st, ins)
  <2> SUFFICES ASSUME NEW i \in DOMAIN f.writing, NEW c \in Credentials,
                      objs[f.writing[i]] = AuditItem(<<"issue", c>>)
               PROVE  FALSE
    BY DEF Ordered, objs
  <2>1. f.writing[i] \in DOMAIN objs
    BY <1>4 DEF Requests, Sound, objs
  <2>2. objs[f.writing[i]].id = "audit"
    BY DEF AuditItem
  <2>3. f.writing[i] = m
    BY <1>1, <1>5, <2>1, <2>2 DEF Unlogged
  <2>4. <<"issue", c>> = ev
    BY <1>5, <2>3 DEF AuditItem
  <2> QED BY <2>4
<1>9. At(f) = "answer"
  BY <1>4 DEF At
<1>10. Control(f, l)
  BY <1>1, <1>4, <1>9 DEF Control
<1>11. Signed(f, l, st)
  BY <1>4 DEF Signed
<1> QED BY <1>1, <1>4, <1>7, <1>8, <1>9, <1>10, <1>11 DEF HandlerOK

\* The end of issue_credential: the claims are stored before the record.
LEMMA LogIssue ==
  ASSUME NEW r, NEW l, NEW st, NEW ins, HandlerOK(r, l, st, ins), r.pc = "log", r.op = "issue",
         NEW a, a = [r EXCEPT !.session = AddNew(r.session, "claims", l.cred)],
         NEW f, f = LogEvent(a, <<r.op, l.cred>>, "answer")
  PROVE  HandlerOK(f, l, st, ins)
<1> DEFINE ev == <<r.op, l.cred>>
           g == r.session.objs
           s == AddNew(r.session, "claims", l.cred)
           k == Len(g) + 1
           m == k + 1
<1>1. /\ r \in Requests(Names, Items) /\ g \in Seq(Items) /\ r.session.pending = <<>>
      /\ r.session \in Sessions(Items)
      /\ l \in Locals /\ Control(r, l) /\ At(r) = "log" /\ Unlogged(r) /\ st[l.cred] # Absent
  BY DEF HandlerOK, Requests, Shape, Sessions, At, Signed
<1>2. l.cred \in Credentials /\ ev \in Events /\ ev = <<"issue", l.cred>>
  BY <1>1 DEF Control, Events, Ops
<1>3. AuditItem(ev) \in Items /\ ClaimsItem(l.cred) \in Items
  BY <1>2, AuditIsItem, ClaimsIsItem
<1>4. /\ s \in Sessions(Items) /\ s.objs = Append(g, ClaimsItem(l.cred)) /\ s.pending = <<k>>
  <2> DEFINE id == "claims"
             t == r.session
             v == l.cred
  <2>1. [id |-> id, val |-> v] \in Items /\ t \in Sessions(Items)
    BY <1>1, <1>3 DEF ClaimsItem
  <2> HIDE DEF id, t, v
  <2>2. /\ AddNew(t, id, v) \in Sessions(Items)
        /\ AddNew(t, id, v).objs = Append(t.objs, [id |-> id, val |-> v])
        /\ AddNew(t, id, v).pending = Append(t.pending, Len(t.objs) + 1)
    BY <2>1, AddNewType
  <2> QED BY <1>1, <2>2 DEF ClaimsItem, id, t, v
<1>5. /\ DOMAIN s.objs = DOMAIN g \cup {k} /\ s.objs[k] = ClaimsItem(l.cred) /\ Len(s.objs) = k
      /\ \A n \in DOMAIN g : s.objs[n] = g[n]
  <2> DEFINE q == s.objs
             o == ClaimsItem(l.cred)
  <2>1. q = Append(g, o) /\ o \in Items
    BY <1>3, <1>4
  <2> HIDE DEF q, o
  <2>2. /\ Len(q) = Len(g) + 1 /\ DOMAIN q = DOMAIN g \cup {Len(q)}
        /\ q[Len(q)] = o /\ \A n \in DOMAIN g : q[n] = g[n]
    BY <1>1, <2>1, AppendFacts
  <2> QED BY <2>2 DEF q, o
<1> HIDE DEF s
<1>6. a \in Requests(Names, Items) /\ a.session = s /\ a.op = r.op
  <2>1. r \in Shape(Names, Items) /\ Sound(r)
    BY <1>1 DEF Requests
  <2>2. a = [r EXCEPT !.session = s]
    BY DEF s
  <2>3. /\ a \in Shape(Names, Items) /\ a.session = s /\ a.op = r.op /\ a.pc = r.pc
        /\ a.then = r.then /\ a.writing = r.writing
    BY <1>4, <2>1, <2>2 DEF Shape
  <2> QED BY <1>5, <2>1, <2>3 DEF Requests, Sound
<1>7. /\ f \in Requests(Names, Items) /\ f.session.objs = Append(s.objs, AuditItem(ev))
      /\ f.op = r.op /\ f.pc = "flush" /\ f.then = "answer"
      /\ 1 \in DOMAIN f.writing /\ f.writing[1] = k
  <2> DEFINE e == ev
             pc == "answer"
             pending == Append(a.session.pending, Len(a.session.objs) + 1)
             q == LogEvent(a, e, pc)
  <2>1. pc \in Names /\ pc # "flush" /\ f = q /\ AuditItem(e) \in Items
    BY <1>3 DEF Names
  <2>2. 1 \in DOMAIN pending /\ pending[1] = k
    <3>1. k \in Nat
      BY <1>1
    <3>2. a.session.pending = <<k>> /\ Len(a.session.objs) = k
      BY <1>4, <1>5, <1>6
    <3> DEFINE p == a.session.pending
               n == Len(a.session.objs) + 1
    <3>3. p = <<k>> /\ n \in Nat /\ pending = Append(p, n)
      BY <3>1, <3>2
    <3> HIDE DEF k, n, p, pending
    <3>4. p \in Seq(Nat) /\ 1 \in DOMAIN p /\ p[1] = k
      BY <3>1, <3>3
    <3>5. DOMAIN pending = DOMAIN p \cup {Len(pending)} /\ \A d \in DOMAIN p : pending[d] = p[d]
      BY <3>3, <3>4, AppendFacts
    <3> QED BY <3>4, <3>5
  <2> HIDE DEF e, pc, StartsWith, Recording
  <2>3. Recording(Names, Items, a, e, pc, q)
    BY <1>6, <2>1, LogEventType, NamesBasic
  <2> QED BY <1>6, <2>1, <2>2, <2>3 DEF e, pc, StartsWith, Recording
<1> DEFINE objs == f.session.objs
<1>8. /\ DOMAIN objs = DOMAIN g \cup {k, m} /\ objs[m] = AuditItem(ev) /\ objs[k] = ClaimsItem(l.cred)
      /\ \A n \in DOMAIN g : objs[n] = g[n]
  <2> DEFINE q == s.objs
  <2>1. objs = Append(q, AuditItem(ev)) /\ q \in Seq(Items) /\ Len(q) = k
    BY <1>4, <1>5, <1>7 DEF Sessions
  <2> HIDE DEF objs, ev, q
  <2>2. /\ Len(objs) = Len(q) + 1 /\ DOMAIN objs = DOMAIN q \cup {Len(objs)}
        /\ objs[Len(objs)] = AuditItem(ev) /\ \A n \in DOMAIN q : objs[n] = q[n]
    BY SMTT(40), <1>3, <2>1, AppendFacts
  <2> QED BY <1>5, <2>1, <2>2 DEF q
<1>9. /\ 1 \in DOMAIN f.writing /\ f.writing[1] = k
      /\ \A i \in DOMAIN f.writing : i \in Nat /\ i # 0
      /\ k # m
  <2>1. f.writing \in Seq(Nat)
    BY <1>7 DEF Requests, Shape
  <2>2. k \in Nat /\ k # m
    BY <1>1
  <2>3. \A i \in DOMAIN f.writing : i \in Nat /\ i # 0
    BY <2>1
  <2> HIDE DEF k, m
  <2> QED BY <1>7, <2>2, <2>3
<1> HIDE DEF k, m, objs
<1>10. objs[m].id = "audit" /\ objs[k].id = "claims"
  BY <1>8 DEF AuditItem, ClaimsItem
<1>11. Reviewed(f, l, ins)
  <2> SUFFICES ASSUME NEW n \in DOMAIN objs, NEW e \in Events, Needs(objs[n], e)
               PROVE  <<"audit", e>> \in ins
    BY DEF Reviewed, objs
  <2>1. n \in DOMAIN g /\ objs[n] = g[n]
    BY <1>8, <1>10, NeedsNothing
  <2>2. <<"audit", e>> \in ins \/ Covered(r, l, e)
    BY <2>1 DEF HandlerOK, Reviewed
  <2>3. e # ev
    BY <1>2 DEF Needs
  <2> QED BY <2>2, <2>3 DEF Covered
<1>12. Ordered(f, st, ins)
  <2> SUFFICES ASSUME NEW i \in DOMAIN f.writing, NEW c \in Credentials,
                      objs[f.writing[i]] = AuditItem(<<"issue", c>>)
               PROVE  st[c] # Absent /\ ClaimsBefore(f, i, c)
    BY DEF Ordered, objs
  <2>1. f.writing[i] \in DOMAIN objs
    BY <1>7 DEF Requests, Sound, objs
  <2>2. objs[f.writing[i]].id = "audit"
    BY DEF AuditItem
  <2>3. f.writing[i] = m
    BY <1>1, <1>8, <1>10, <2>1, <2>2 DEF Unlogged
  <2>4. c = l.cred
    BY <1>2, <1>8, <2>3 DEF AuditItem
  <2>5. 1 < i
    BY <1>9, <2>3
  <2>6. ClaimsBefore(f, i, c)
    BY <1>8, <1>9, <2>4, <2>5 DEF ClaimsBefore, objs
  <2> QED BY <1>1, <2>4, <2>6
<1>13. At(f) = "answer"
  BY <1>7 DEF At
<1>14. Control(f, l)
  BY <1>1, <1>7, <1>13 DEF Control
<1>15. Signed(f, l, st)
  BY <1>7 DEF Signed
<1> QED BY <1>1, <1>7, <1>11, <1>12, <1>13, <1>14, <1>15 DEF HandlerOK

\* log_event, with or without claims before it.
LEMMA LogOK ==
  ASSUME Inv, NEW h \in Handlers, Log(h)
  PROVE  Inv'
<1> DEFINE r == req[h]
           l == local[h]
           a == [r EXCEPT !.session = AddNew(r.session, "claims", l.cred)]
           f == LogEvent(IF r.op = "issue" THEN a ELSE r, <<r.op, l.cred>>, "answer")
<1>1. /\ HandlerOK(r, l, store, inserted) /\ r.pc = "log"
  BY HandlerFacts DEF Log
<1>2. req' = [req EXCEPT ![h] = f] /\ UNCHANGED <<store, inserted, pem, local>>
  BY DEF Log
<1>3. local' = [local EXCEPT ![h] = l]
  BY <1>2, StoreFacts
<1>4. HandlerOK(f, l, store, inserted)
  <2>1. CASE r.op = "issue"
    <3>1. f = LogEvent(a, <<r.op, l.cred>>, "answer")
      BY <2>1
    <3> HIDE DEF f
    <3> QED BY <1>1, <2>1, <3>1, LogIssue
  <2>2. CASE r.op # "issue"
    <3>1. f = LogEvent(r, <<r.op, l.cred>>, "answer")
      BY <2>2
    <3> HIDE DEF f
    <3> QED BY <1>1, <2>2, <3>1, LogFirst
  <2> QED BY <2>1, <2>2
<1> HIDE DEF f
<1> QED BY <1>2, <1>3, <1>4, Frame, StoreFacts

\* Writing the object that is next into the documents or the inserted records.
LEMMA WriteStore ==
  ASSUME Inv, NEW h \in Handlers, Write(h)
  PROVE  LET o == NextObject(req[h])
         IN  /\ StoreOK(store', inserted', pem')
             /\ inserted \subseteq inserted'
             /\ \A c \in Credentials : store[c] # Absent => store'[c] # Absent
             /\ o \in Items
             /\ o.id \in {"audit", "claims"} => <<o.id, o.val>> \in inserted'
             /\ o.id \in Credentials => store'[o.id] # Absent
<1> DEFINE r == req[h]
           l == local[h]
           o == NextObject(r)
<1>1. /\ HandlerOK(r, l, store, inserted) /\ r.pc = "flush" /\ r \in Requests(Names, Items)
      /\ Reviewed(r, l, inserted) /\ Ordered(r, store, inserted)
  BY HandlerFacts DEF Write, HandlerOK
<1>2. /\ r.writing[1] \in DOMAIN r.session.objs /\ o = r.session.objs[r.writing[1]] /\ o \in Items
      /\ 1 \in DOMAIN r.writing
  <2>1. r.writing \in Seq(Nat)
    BY <1>1 DEF Requests, Shape
  <2> QED BY <1>1, <2>1, NextObjectType, NamesBasic
<1>3. /\ o.id = Profile => o.val \in Profiles
      /\ o.id \in Credentials => o.val \in Documents
      /\ o.id = "audit" => o.val \in Events
      /\ o.id = "claims" => o.val \in Credentials
      /\ o.id \in {Profile, "audit", "claims"} \cup Credentials
      /\ o = [id |-> o.id, val |-> o.val]
  BY <1>2, ItemFacts
<1>4. /\ UNCHANGED pem
      /\ IF o.id \in DOMAIN store
         THEN store' = [store EXCEPT ![o.id] = o.val] /\ UNCHANGED inserted
         ELSE inserted' = inserted \cup {<<o.id, o.val>>} /\ UNCHANGED store
  BY DEF Write
<1>5. DOMAIN store = {Profile} \cup Credentials
  BY StoreFacts
<1>6. \A c \in Credentials : Absent \notin Documents
  BY DEF Absent, Documents
<1>7. CASE o.id \in DOMAIN store
  <2>1. store' = [store EXCEPT ![o.id] = o.val] /\ inserted' = inserted /\ pem' = pem
    BY <1>4, <1>7
  <2>2. o.id \notin {"audit", "claims"}
    BY <1>5, <1>7, CredentialsAssumption DEF Profile
  <2>3. ASSUME NEW e \in Events, Needs(o, e) PROVE <<"audit", e>> \in inserted
    <3>1. <<"audit", e>> \in inserted \/ Covered(r, l, e)
      BY <1>1, <1>2, <2>3 DEF Reviewed
    <3>2. ~Covered(r, l, e)
      BY <1>1, <2>2 DEF Covered, AuditItem
    <3> QED BY <3>1, <3>2
  <2> HIDE DEF o
  <2>4. /\ store'[o.id] = o.val /\ DOMAIN store' = DOMAIN store
        /\ \A d \in DOMAIN store : d # o.id => store'[d] = store[d]
    BY <1>7, <2>1
  <2>5. /\ DOMAIN store' = {Profile} \cup Credentials
        /\ store'[Profile] \in Profiles
        /\ \A c \in Credentials : store'[c] \in Documents \cup {Absent}
        /\ \A c \in Credentials : store[c] # Absent => store'[c] # Absent
    BY <1>3, <1>5, <1>6, <2>4 DEF Inv, StoreOK
  <2>6. \A d \in DOMAIN store' : \A e \in Events :
          Needs([id |-> d, val |-> store'[d]], e) => <<"audit", e>> \in inserted'
    <3> SUFFICES ASSUME NEW d \in DOMAIN store, NEW e \in Events,
                        Needs([id |-> d, val |-> store'[d]], e)
                 PROVE  <<"audit", e>> \in inserted
      BY <2>1, <2>4
    <3>1. CASE d = o.id
      <4>1. [id |-> d, val |-> store'[d]] = o
        BY <1>3, <2>4, <3>1
      <4> QED BY <2>3, <4>1
    <3>2. CASE d # o.id
      <4>1. store'[d] = store[d]
        BY <2>4, <3>2
      <4> QED BY <1>5, <4>1, StoreFacts
    <3> QED BY <3>1, <3>2
  <2>7. StoreOK(store', inserted', pem')
    BY <2>1, <2>5, <2>6 DEF Inv, StoreOK
  <2> QED BY <1>2, <1>3, <1>6, <2>1, <2>2, <2>4, <2>5, <2>7 DEF o
<1>8. CASE o.id \notin DOMAIN store
  <2>1. inserted' = inserted \cup {<<o.id, o.val>>} /\ store' = store /\ pem' = pem
    BY <1>4, <1>8
  <2>2. <<o.id, o.val>> \in ({"audit"} \X Events) \cup ({"claims"} \X Credentials)
    BY <1>3, <1>5, <1>8
  <2>3. ASSUME NEW c \in Credentials, <<"audit", <<"issue", c>>>> \in inserted'
        PROVE  store[c] # Absent /\ <<"claims", c>> \in inserted
    <3>1. CASE <<"audit", <<"issue", c>>>> \in inserted
      BY <3>1 DEF Inv, StoreOK
    <3>2. CASE <<"audit", <<"issue", c>>>> = <<o.id, o.val>>
      <4>1. o = AuditItem(<<"issue", c>>)
        BY <1>3, <3>2 DEF AuditItem
      <4>2. store[c] # Absent /\ (<<"claims", c>> \in inserted \/ ClaimsBefore(r, 1, c))
        BY <1>1, <1>2, <4>1 DEF Ordered
      <4>3. ~ClaimsBefore(r, 1, c)
        <5>1. r.writing \in Seq(Nat)
          BY <1>1 DEF Requests, Shape
        <5>2. \A j \in DOMAIN r.writing : ~(j < 1)
          BY <5>1
        <5> QED BY <5>2 DEF ClaimsBefore
      <4> QED BY <4>2, <4>3
    <3> QED BY <2>1, <2>3, <3>1, <3>2
  <2> HIDE DEF o
  <2>4. StoreOK(store', inserted', pem')
    BY <2>1, <2>2, <2>3 DEF Inv, StoreOK
  <2>5. o.id \notin Credentials
    BY <1>5, <1>8
  <2> QED BY <1>2, <2>1, <2>4, <2>5 DEF o
<1> QED BY <1>7, <1>8

\* A write preserves the invariant: what the object needed was stored before, and
\* what is still to be stored remains in order.
LEMMA WriteOK ==
  ASSUME Inv, NEW h \in Handlers, Write(h)
  PROVE  Inv'
<1> DEFINE r == req[h]
           l == local[h]
           o == NextObject(r)
           f == AfterWrite(r)
<1>1. /\ HandlerOK(r, l, store, inserted) /\ r.pc = "flush" /\ r \in Requests(Names, Items)
      /\ Control(r, l) /\ l \in Locals
  BY HandlerFacts DEF Write, HandlerOK
<1>2. /\ StoreOK(store', inserted', pem')
      /\ inserted \subseteq inserted'
      /\ \A c \in Credentials : store[c] # Absent => store'[c] # Absent
      /\ o.id \in {"audit", "claims"} => <<o.id, o.val>> \in inserted'
      /\ o.id \in Credentials => store'[o.id] # Absent
  BY WriteStore
<1>3. HandlerOK(r, l, store', inserted')
  BY <1>1, <1>2, Monotone
<1>4. /\ Len(r.writing) \in Nat \ {0} /\ r.writing \in Seq(Nat) /\ o = r.session.objs[r.writing[1]]
  <2>1. r.writing \in Seq(Nat)
    BY <1>1 DEF Requests, Shape
  <2> QED BY <1>1, <2>1, NextObjectType, NamesBasic
<1>5. /\ f \in Requests(Names, Items)
      /\ f.session.objs = r.session.objs /\ f.op = r.op
      /\ \/ /\ f.pc = "flush" /\ f.then = r.then /\ f.writing = Tail(r.writing)
            /\ f.session = r.session /\ Len(r.writing) > 1
         \/ /\ f.pc = r.then /\ r.then # "flush" /\ Len(r.writing) = 1
            /\ f.session.pending = <<>> /\ f.writing = <<>>
  BY <1>1, AfterWriteType, NamesBasic
<1>6. req' = [req EXCEPT ![h] = f] /\ local' = [local EXCEPT ![h] = l]
  <2>1. req' = [req EXCEPT ![h] = f] /\ local' = local
    BY DEF Write
  <2> QED BY <2>1, StoreFacts
<1> HIDE DEF f, o
<1>7. At(f) = At(r)
  BY <1>1, <1>5 DEF At
<1>8. Control(f, l)
  BY <1>1, <1>5, <1>7 DEF Control
<1>9. Reviewed(f, l, inserted')
  <2> SUFFICES ASSUME NEW n \in DOMAIN r.session.objs, NEW e \in Events, Needs(r.session.objs[n], e)
               PROVE  <<"audit", e>> \in inserted'
    BY <1>5 DEF Reviewed
  <2>1. <<"audit", e>> \in inserted' \/ Covered(r, l, e)
    BY <1>3 DEF HandlerOK, Reviewed
  <2>2. Covered(r, l, e) => o.id = "audit" /\ o.val = e
    BY <1>1 DEF Covered, AuditItem, o
  <2> QED BY <1>2, <2>1, <2>2
<1>10. At(f) # "answer" => Unlogged(f)
  BY <1>3, <1>5, <1>7 DEF HandlerOK, Unlogged
<1>11. ASSUME f.pc = "flush"
       PROVE  /\ \A i \in DOMAIN f.writing : /\ i + 1 \in DOMAIN r.writing /\ f.writing[i] = r.writing[i + 1]
                                             /\ i \in Nat
              /\ \A j \in DOMAIN r.writing : /\ j \in Nat
                                             /\ j # 1 => j - 1 \in DOMAIN f.writing /\ f.writing[j - 1] = r.writing[j]
  <2>1. f.writing = Tail(r.writing) /\ Len(r.writing) > 1
    BY <1>5, <1>11
  <2> QED BY <1>4, <2>1, TailFacts
<1>13. Signed(f, l, store')
  <2> SUFFICES ASSUME r.op = "issue", At(r) = "log", store'[l.cred] = Absent
               PROVE  f.pc = "flush" /\ \E i \in DOMAIN f.writing : r.session.objs[f.writing[i]].id = l.cred
    BY <1>5, <1>7 DEF Signed, At
  <2>1. r.then = "log" /\ l.cred \in Credentials
    BY <1>1 DEF At, Control
  <2>2. PICK j \in DOMAIN r.writing : r.session.objs[r.writing[j]].id = l.cred
    BY <1>1, <1>3, <2>1 DEF HandlerOK, Signed
  <2>3. j # 1
    BY <1>2, <1>4, <2>1, <2>2
  <2>4. f.pc = "flush"
    <3>1. Len(r.writing) # 1
      BY <1>4, <2>2, <2>3
    <3> QED BY <1>5, <3>1
  <2>5. j - 1 \in DOMAIN f.writing /\ f.writing[j - 1] = r.writing[j]
    BY <1>11, <2>3, <2>4
  <2> QED BY <2>2, <2>4, <2>5
<1>14. f.pc = "flush" => Ordered(f, store', inserted')
  <2> SUFFICES ASSUME f.pc = "flush", NEW i \in DOMAIN f.writing, NEW c \in Credentials,
                      r.session.objs[f.writing[i]] = AuditItem(<<"issue", c>>)
               PROVE  store'[c] # Absent /\ (<<"claims", c>> \in inserted' \/ ClaimsBefore(f, i, c))
    BY <1>5 DEF Ordered
  <2>1. i + 1 \in DOMAIN r.writing /\ f.writing[i] = r.writing[i + 1] /\ i \in Nat
    BY <1>11
  <2>2. store'[c] # Absent /\ (<<"claims", c>> \in inserted' \/ ClaimsBefore(r, i + 1, c))
    BY <1>1, <1>3, <2>1 DEF HandlerOK, Ordered
  <2>3. ASSUME ClaimsBefore(r, i + 1, c), <<"claims", c>> \notin inserted' PROVE ClaimsBefore(f, i, c)
    <3>1. PICK j \in DOMAIN r.writing : j < i + 1 /\ r.session.objs[r.writing[j]] = ClaimsItem(c)
      BY <2>3 DEF ClaimsBefore
    <3>2. j # 1
      <4>1. ClaimsItem(c).id = "claims" /\ ClaimsItem(c).val = c
        BY DEF ClaimsItem
      <4> QED BY <1>2, <1>4, <2>3, <3>1, <4>1
    <3>3. j - 1 \in DOMAIN f.writing /\ f.writing[j - 1] = r.writing[j] /\ j \in Nat
      BY <1>11, <3>2
    <3>4. j - 1 < i
      BY <2>1, <3>1, <3>3
    <3> QED BY <1>5, <3>1, <3>3, <3>4 DEF ClaimsBefore
  <2> QED BY <2>2, <2>3
<1>15. f.pc # "flush" => f.session.pending = <<>>
  BY <1>5
<1>16. HandlerOK(f, l, store', inserted')
  BY <1>1, <1>5, <1>8, <1>9, <1>10, <1>13, <1>14, <1>15 DEF HandlerOK
<1> QED BY <1>2, <1>6, <1>16, Frame

\* A handler that answers, fails or dies leaves the database as it is.
LEMMA IdleStep ==
  ASSUME Inv, NEW h \in Handlers, req' = [req EXCEPT ![h] = Idle],
         UNCHANGED <<store, inserted, pem, local>>
  PROVE  Inv'
<1>1. local' = [local EXCEPT ![h] = local[h]] /\ local[h] \in Locals
  BY StoreFacts
<1>2. HandlerOK(Idle, local[h], store', inserted')
  BY <1>1, IdleOK
<1> QED BY <1>1, <1>2, Frame, StoreFacts

\* So does a redeployment, for all handlers at once.
LEMMA RedeployOK ==
  ASSUME Inv, Redeploy
  PROVE  Inv'
<1>1. UNCHANGED <<store, inserted, local>> /\ pem' = NoKey /\ req' = [h \in Handlers |-> Idle]
  BY DEF Redeploy
<1>2. StoreOK(store', inserted', pem')
  BY <1>1 DEF Inv, StoreOK
<1>3. \A h \in Handlers : HandlerOK(req'[h], local'[h], store', inserted')
  BY <1>1, IdleOK DEF Inv
<1>4. req' \in [Handlers -> Requests(Names, Items)] /\ local' \in [Handlers -> Locals]
  <2>1. Idle \in Requests(Names, Items)
    BY IdleType, NamesBasic
  <2> QED BY <1>1, <2>1 DEF Inv
<1> QED BY <1>2, <1>3, <1>4 DEF Inv

\* The invariant holds at first.
LEMMA InitOK == Init => Inv
<1> SUFFICES ASSUME Init PROVE Inv
  OBVIOUS
<1>1. inserted = {} /\ req = [h \in Handlers |-> Idle] /\ local = [h \in Handlers |-> NoLocals]
  BY DEF Init
<1>2. req \in [Handlers -> Requests(Names, Items)] /\ local \in [Handlers -> Locals]
  <2>1. Idle \in Requests(Names, Items) /\ NoLocals \in Locals
    BY IdleType, NamesBasic, NoLocalsOK
  <2> QED BY <1>1, <2>1
<1>3. \A h \in Handlers : HandlerOK(req[h], local[h], store, inserted)
  BY <1>1, IdleOK, NoLocalsOK
<1>4. PICK p \in Profiles :
        /\ ~p.blocked
        /\ store = [d \in {Profile} \cup Credentials |-> IF d = Profile THEN p ELSE Absent]
  BY DEF Init, Profiles
<1>5. pem \in Keys \cup {NoKey, Truncated}
  BY DEF Init
<1>6. /\ DOMAIN store = {Profile} \cup Credentials /\ store[Profile] = p
      /\ \A c \in Credentials : store[c] = Absent
  BY <1>4, CredentialsAssumption DEF Profile
<1>7. \A d \in DOMAIN store : \A e \in Events : ~Needs([id |-> d, val |-> store[d]], e)
  BY <1>4, <1>6, CredentialsAssumption DEF Needs, Absent, Profile
<1>8. StoreOK(store, inserted, pem)
  BY <1>1, <1>5, <1>6, <1>7 DEF StoreOK
<1> QED BY <1>2, <1>3, <1>8 DEF Inv

\* Every step preserves the invariant.
LEMMA NextOK == Inv /\ [Next]_vars => Inv'
<1> SUFFICES ASSUME Inv, [Next]_vars PROVE Inv'
  OBVIOUS
<1>1. ASSUME NEW h \in Handlers, Answer(h) \/ Fail(h) PROVE Inv'
  BY <1>1, IdleStep DEF Answer, Fail
<1>2. CASE UNCHANGED vars
  BY <1>2 DEF vars, Inv
<1> QED BY <1>1, <1>2, ApproveOK, BlockOK, IssueOK, ResyncOK, ResignOK, RevokeOK, LoadKeyOK,
           GenerateKeyOK, SaveKeyOK, EnsureKeyOK, SignOK, LogOK, WriteOK, RedeployOK DEF Next

\* The invariant implies the properties the runs check.
LEMMA InvImplies == Inv => TypeOK /\ EveryChangeAudited /\ AuditedIssueComplete
<1> SUFFICES ASSUME Inv PROVE TypeOK /\ EveryChangeAudited /\ AuditedIssueComplete
  OBVIOUS
<1>1. AuditedIssueComplete
  BY DEF Inv, StoreOK, AuditedIssueComplete, Logged
<1>2. EveryChangeAudited
  <2>1. store[Profile].blocked => Logged("block", Absent)
    <3> SUFFICES ASSUME store[Profile].blocked PROVE Logged("block", Absent)
      OBVIOUS
    <3>1. <<"block", Absent>> \in Events
      BY DEF Events, Ops
    <3>2. Needs([id |-> Profile, val |-> store[Profile]], <<"block", Absent>>)
      BY DEF Needs
    <3> QED BY <3>1, <3>2, StoreFacts DEF Logged
  <2>2. ASSUME NEW c \in Credentials, store[c] # Absent, store[c].status = "revoked"
        PROVE  Logged("revoke", c)
    <3>1. <<"revoke", c>> \in Events
      BY DEF Events, Ops
    <3>2. Needs([id |-> c, val |-> store[c]], <<"revoke", c>>)
      BY <2>2 DEF Needs
    <3> QED BY <3>1, <3>2, StoreFacts DEF Logged
  <2> QED BY <2>1, <2>2 DEF EveryChangeAudited
<1>3. TypeOK
  <2>1. ASSUME NEW h \in Handlers
        PROVE  /\ local[h].stage \in 0..3 /\ local[h].key \in Keys \cup {NoKey}
               /\ \A n \in DOMAIN req[h].session.objs :
                    LET o == req[h].session.objs[n]
                    IN  /\ o.id = Profile => o.val \in Profiles
                        /\ o.id \in Credentials => o.val \in Documents
    <3>1. req[h].session.objs \in Seq(Items)
      BY HandlerFacts DEF Shape, Sessions
    <3>2. \A n \in DOMAIN req[h].session.objs : req[h].session.objs[n] \in Items
      BY <3>1
    <3>3. local[h] \in Locals
      BY HandlerFacts
    <3> QED BY <3>2, <3>3, ItemFacts DEF Locals
  <2> QED BY <2>1 DEF Inv, StoreOK, TypeOK, Events, Ops
<1> QED BY <1>1, <1>2, <1>3

\* The invariant holds in every reachable state.
THEOREM Invariance == Spec => []Inv
BY InitOK, NextOK, PTL DEF Spec

\* Every reachable state is well typed: a handler only ever holds a profile as a
\* profile and a credential as a credential.
THEOREM TypeCorrect == Spec => []TypeOK
BY Invariance, InvImplies, PTL

\* logger.py, lines 2-4, for any number of handlers, keys and credentials: a
\* blocked issuer and a revoked credential have their events on the trail,
\* wherever a process died and however the commits interleaved.
THEOREM ChangesAudited == Spec => []EveryChangeAudited
BY Invariance, InvImplies, PTL

\* A credential whose issue is on the trail is stored with its claims, wherever
\* issue_credential was interrupted.
THEOREM IssuesComplete == Spec => []AuditedIssueComplete
BY Invariance, InvImplies, PTL

-----------------------------------------------------------------------------
(* Whose copies are current: the second layer.                             *)

Revoked(st, c) == st[c] # Absent /\ st[c].status = "revoked"

\* Storing o into st undoes no block and no revocation.
Keeps(o, st) ==
  /\ o.id = Profile /\ st[Profile].blocked => o.val.blocked
  /\ o.id \in Credentials /\ Revoked(st, o.id) => o.val.status = "revoked"

\* approve_issuer's first copy of the profile, which its session forgets when
\* ensure_issuer_public_key queries the profile again.
Superseded(r) == r.op = "approve" /\ r.pc \in {"load", "generate", "save", "ensure"}

\* What handler h with request r may still store undoes no block or revocation,
\* unless it was read before that.
Recent(h, r, st, stl) ==
  \A n \in ToStore(r) :
    LET o == r.session.objs[n]
    IN  Keeps(o, st) \/ <<h, o.id>> \in stl \/ (o.id = Profile /\ Superseded(r))

\* Storing o into st does not change whether the issuer is approved.
SameApproval(o, st) == o.id = Profile => o.val.approved = st[Profile].approved

\* Nor does anything that request r may still store: approve_issuer's own change
\* is in a copy that is superseded.
Approving(r, st) == \A n \in ToStore(r) : SameApproval(r.session.objs[n], st) \/ Superseded(r)

\* It stores a document with one value only.
Agrees(r) ==
  \A m, n \in ToStore(r) :
    LET o == r.session.objs[m]
        p == r.session.objs[n]
    IN  o.id \in Changing /\ o.id = p.id => o.val = p.val

\* Before the end it may store the profile alone.
OnlyProfile(r) == r.pc \in Middle => \A n \in ToStore(r) : r.session.objs[n].id = Profile

CurrentOK(h, r, st, stl) ==
  /\ Agrees(r) /\ Recent(h, r, st, stl) /\ Approving(r, st) /\ OnlyProfile(r)
  /\ r.pc = "idle" => ToStore(r) = {}

\* The second layer of the invariant.
Current == \A h \in Handlers : CurrentOK(h, req[h], store, stale)

\* What a request may store, it holds.
LEMMA StoresHeld ==
  ASSUME NEW r \in Requests(Names, Items)
  PROVE  /\ ToStore(r) \subseteq DOMAIN r.session.objs
         /\ \A n \in ToStore(r) : r.session.objs[n] \in Items
<1>1. /\ \A i \in DOMAIN r.writing : r.writing[i] \in DOMAIN r.session.objs
      /\ r.session \in Sessions(Items)
  BY DEF Requests, Shape, Sound
<1>2. ToStore(r) \subseteq DOMAIN r.session.objs
  BY <1>1 DEF ToStore, Writable, Sessions
<1>3. \A n \in DOMAIN r.session.objs : r.session.objs[n] \in Items
  BY <1>1 DEF Sessions
<1> QED BY <1>2, <1>3

\* A step of handler h leaves the others' copies as current as they are.
LEMMA CurrentFrame ==
  ASSUME Inv, Current, NEW h \in Handlers, NEW r, req' = [req EXCEPT ![h] = r],
         CurrentOK(h, r, store', stale'), store'[Profile].approved = store[Profile].approved,
         \A g \in Handlers \ {h} : \A n \in ToStore(req[g]) :
           LET o == req[g].session.objs[n]
           IN  /\ Keeps(o, store) => Keeps(o, store') \/ <<g, o.id>> \in stale'
               /\ <<g, o.id>> \in stale => <<g, o.id>> \in stale'
  PROVE  Current'
<1> SUFFICES ASSUME NEW g \in Handlers PROVE CurrentOK(g, req'[g], store', stale')
  BY DEF Current
<1>1. CASE g = h
  BY <1>1 DEF Inv
<1>2. CASE g # h
  <2>1. req'[g] = req[g] /\ CurrentOK(g, req[g], store, stale)
    BY <1>2 DEF Inv, Current
  <2>2. Recent(g, req[g], store', stale')
    BY <1>2, <2>1 DEF CurrentOK, Recent
  <2>3. Approving(req[g], store')
    BY <2>1 DEF CurrentOK, Approving, SameApproval
  <2> QED BY <2>1, <2>2, <2>3 DEF CurrentOK
<1> QED BY <1>1, <1>2

\* The same for a step that stores nothing.
LEMMA CurrentStep ==
  ASSUME Inv, Current, NEW h \in Handlers, NEW r, req' = [req EXCEPT ![h] = r],
         CurrentOK(h, r, store, stale'), store' = store,
         \A g \in Handlers \ {h} : \A d : <<g, d>> \in stale => <<g, d>> \in stale'
  PROVE  Current'
<1>1. CurrentOK(h, r, store', stale')
  OBVIOUS
<1>2. \A g \in Handlers \ {h} : \A n \in ToStore(req[g]) :
        LET o == req[g].session.objs[n]
        IN  /\ Keeps(o, store) => Keeps(o, store') \/ <<g, o.id>> \in stale'
            /\ <<g, o.id>> \in stale => <<g, o.id>> \in stale'
  OBVIOUS
<1> QED BY <1>1, <1>2, CurrentFrame

\* A handler that begins forgets its own past only.
LEMMA BeginsStale ==
  ASSUME NEW h \in Handlers, Begins(h)
  PROVE  \A g \in Handlers \ {h} : \A d : <<g, d>> \in stale => <<g, d>> \in stale'
BY DEF Begins

\* A handler that begins with one object it has just read.
LEMMA BeginCurrent ==
  ASSUME Inv, Current, NEW h \in Handlers, NEW op \in Ops \cup {"resync"}, NEW s \in Sessions(Items),
         NEW pc \in {"log", "load"}, NEW o, \A n \in DOMAIN s.objs : s.objs[n] = o,
         \/ Keeps(o, store) /\ SameApproval(o, store)
         \/ op = "approve" /\ pc = "load" /\ o.id = Profile,
         pc = "load" => o.id = Profile,
         req' = [req EXCEPT ![h] = Start(op, s, pc)], store' = store, Begins(h)
  PROVE  Current'
<1> DEFINE r == Start(op, s, pc)
<1>1. r.session = s /\ r.pc = pc /\ r.op = op /\ r \in Requests(Names, Items) /\ pc # "idle"
  <2>1. op \in Names /\ pc \in Names /\ pc # "flush" /\ pc # "idle" /\ s \in Sessions(Items)
    BY DEF Names
  <2> QED BY ONLY <2>1, StartType, NamesBasic DEF r
<1> HIDE DEF r
<1>2. \A n \in ToStore(r) : r.session.objs[n] = o
  BY <1>1, StoresHeld
<1>3. Recent(h, r, store, stale') /\ Approving(r, store)
  BY <1>1, <1>2 DEF Recent, Approving, Superseded
<1>4. Agrees(r) /\ OnlyProfile(r)
  BY <1>1, <1>2 DEF Agrees, OnlyProfile, Middle
<1>5. CurrentOK(h, r, store, stale')
  BY <1>1, <1>3, <1>4 DEF CurrentOK
<1> QED BY <1>5, BeginsStale, CurrentStep DEF r

\* The handlers that begin with a document.
LEMMA BeginsCurrent ==
  ASSUME Inv, Current, NEW h \in Handlers,
         Approve(h) \/ Block(h) \/ Issue(h) \/ Resync(h) \/ \E c \in Credentials : Revoke(h, c)
  PROVE  Current'
<1> DEFINE p == store[Profile]
<1>1. p \in Profiles /\ [id |-> Profile, val |-> p] \in Items
  BY StoreFacts, ProfileIsItem
<1> HIDE DEF p
<1>2. ASSUME NEW new \in Profiles, NEW op \in Ops, NEW pc \in {"log", "load"},
             \/ (new.blocked \/ ~p.blocked) /\ new.approved = p.approved
             \/ op = "approve" /\ pc = "load",
             req' = [req EXCEPT ![h] = Start(op, Assign(Fetch(NoSession, Profile, p), 1, new), pc)],
             store' = store, Begins(h)
      PROVE  Current'
  <2> DEFINE s == Assign(Fetch(NoSession, Profile, p), 1, new)
             o == [id |-> Profile, val |-> new]
  <2>1. o \in Items
    BY ProfileIsItem
  <2>2. s \in Sessions(Items) /\ \A n \in DOMAIN s.objs : s.objs[n] = o
    BY <1>1, <2>1, FirstObject
  <2>3. (Keeps(o, store) /\ SameApproval(o, store)) \/ (op = "approve" /\ pc = "load")
    BY <1>2, CredentialsAssumption DEF Keeps, SameApproval, p, Profile
  <2>4. o.id = Profile /\ op \in Ops \cup {"resync"}
    OBVIOUS
  <2> HIDE DEF s, o
  <2> QED BY <1>2, <2>2, <2>3, <2>4, BeginCurrent DEF s
<1>3. CASE Approve(h)
  <2> DEFINE new == [p EXCEPT !.approved = TRUE, !.blocked = FALSE]
  <2>1. new \in Profiles
    BY <1>1 DEF Profiles
  <2>2. /\ req' = [req EXCEPT ![h] = Start("approve", Assign(Fetch(NoSession, Profile, p), 1, new), "load")]
        /\ store' = store /\ Begins(h)
    BY <1>3 DEF Approve, p
  <2> HIDE DEF new
  <2>3. "approve" \in Ops
    BY DEF Ops
  <2> QED BY <1>2, <2>1, <2>2, <2>3
<1>4. CASE Block(h)
  <2> DEFINE new == [p EXCEPT !.blocked = TRUE]
  <2>1. new \in Profiles /\ new.blocked /\ new.approved = p.approved
    BY <1>1 DEF Profiles
  <2>2. /\ req' = [req EXCEPT ![h] = Start("block", Assign(Fetch(NoSession, Profile, p), 1, new), "log")]
        /\ store' = store /\ Begins(h)
    BY <1>4 DEF Block, p
  <2> HIDE DEF new
  <2>3. "block" \in Ops
    BY DEF Ops
  <2> QED BY <1>2, <2>1, <2>2, <2>3
<1>5. CASE Issue(h)
  <2> DEFINE s == Fetch(NoSession, Profile, p)
             o == [id |-> Profile, val |-> p]
  <2>1. s \in Sessions(Items) /\ s.objs = Append(NoSession.objs, o)
    BY <1>1, NoSessionType, FetchType
  <2>2. Keeps(o, store) /\ SameApproval(o, store) /\ o.id = Profile
    BY CredentialsAssumption DEF Keeps, SameApproval, p, Profile
  <2>3. req' = [req EXCEPT ![h] = Start("issue", s, "load")] /\ store' = store /\ Begins(h)
    BY <1>5 DEF Issue, p
  <2>4. "issue" \in Ops \cup {"resync"} /\ "load" \in {"log", "load"}
    BY DEF Ops
  <2> HIDE DEF s, o
  <2>5. \A n \in DOMAIN s.objs : s.objs[n] = o
    BY <2>1 DEF NoSession
  <2> QED BY <2>1, <2>2, <2>3, <2>4, <2>5, BeginCurrent
<1>6. CASE Resync(h)
  <2> DEFINE o == [id |-> Profile, val |-> p]
  <2>1. NoSession \in Sessions(Items) /\ \A n \in DOMAIN NoSession.objs : NoSession.objs[n] = o
    BY NoSessionType DEF NoSession
  <2>2. Keeps(o, store) /\ SameApproval(o, store) /\ o.id = Profile
    BY CredentialsAssumption DEF Keeps, SameApproval, p, Profile
  <2>3. req' = [req EXCEPT ![h] = Start("resync", NoSession, "load")] /\ store' = store /\ Begins(h)
    BY <1>6 DEF Resync
  <2>4. "resync" \in Ops \cup {"resync"} /\ "load" \in {"log", "load"}
    OBVIOUS
  <2> HIDE DEF o
  <2> QED BY <2>1, <2>2, <2>3, <2>4, BeginCurrent
<1>7. CASE \E c \in Credentials : Revoke(h, c)
  <2>1. PICK c \in Credentials : Revoke(h, c)
    BY <1>7
  <2> DEFINE v == store[c]
             new == [v EXCEPT !.status = "revoked"]
             s == Assign(Fetch(NoSession, c, v), 1, new)
             o == [id |-> c, val |-> new]
  <2>2. v \in Documents /\ new \in Documents /\ new.status = "revoked"
    <3>1. v \in Documents
      BY <2>1, StoreFacts DEF Revoke
    <3> QED BY <3>1 DEF Documents
  <2>3. o \in Items /\ [id |-> c, val |-> v] \in Items
    BY <2>2, DocumentIsItem
  <2>4. req' = [req EXCEPT ![h] = Start("revoke", s, "log")] /\ store' = store /\ Begins(h)
    BY <2>1 DEF Revoke
  <2>5. s \in Sessions(Items) /\ \A n \in DOMAIN s.objs : s.objs[n] = o
    <3> HIDE DEF v, new
    <3> QED BY <2>3, FirstObject
  <2>6. Keeps(o, store) /\ SameApproval(o, store)
    BY <2>2, CredentialsAssumption DEF Keeps, SameApproval, Profile
  <2>7. "revoke" \in Ops \cup {"resync"} /\ "log" \in {"log", "load"}
    BY DEF Ops
  <2> HIDE DEF s, o
  <2> QED BY <2>4, <2>5, <2>6, <2>7, BeginCurrent
<1> QED BY <1>3, <1>4, <1>5, <1>6, <1>7

\* A handler that goes from one place in the middle to another.
LEMMA MoveCurrent ==
  ASSUME Inv, Inv', Current, NEW h \in Handlers, req[h].pc \in Middle, NEW pc \in Middle,
         req' = [req EXCEPT ![h].pc = pc], store' = store, stale' = stale
  PROVE  Current'
<1> DEFINE r == req[h]
           f == [r EXCEPT !.pc = pc]
<1>1. r \in Shape(Names, Items) /\ r.pc # "flush" /\ pc # "flush" /\ pc # "idle"
  BY HandlerFacts DEF Middle
<1>2. f.session = r.session /\ f.op = r.op /\ f.pc = pc
  BY <1>1 DEF Shape
<1>3. ToStore(f) = ToStore(r)
  <2> HIDE DEF f
  <2> QED BY <1>1, <1>2 DEF ToStore
<1>4. req' = [req EXCEPT ![h] = f] /\ req'[h] = f
  BY DEF Inv
<1>5. Control(f, local'[h])
  BY <1>4 DEF Inv, HandlerOK
<1> HIDE DEF f
<1>6. f.op = "approve" => pc \in {"load", "generate", "save", "ensure"}
  BY <1>1, <1>2, <1>5 DEF Control, At, Middle
<1>7. CurrentOK(h, r, store, stale)
  BY DEF Current
<1>8. CurrentOK(h, f, store, stale)
  BY <1>1, <1>2, <1>3, <1>6, <1>7 DEF CurrentOK, Agrees, Recent, Approving, OnlyProfile,
     Superseded
<1> QED BY <1>4, <1>8, CurrentStep

\* So do the steps around the key file.
LEMMA KeysCurrent ==
  ASSUME Inv, Inv', Current, NEW h \in Handlers, LoadKey(h) \/ GenerateKey(h) \/ SaveKey(h)
  PROVE  Current'
<1>1. store' = store /\ stale' = stale /\ req[h].pc \in Middle
  BY DEF LoadKey, GenerateKey, SaveKey, Middle
<1>2. AfterKey(h) \in Middle /\ {"generate", "save"} \subseteq Middle
  BY DEF AfterKey, Middle
<1>3. \E pc \in Middle : req' = [req EXCEPT ![h].pc = pc]
  BY <1>2 DEF LoadKey, GenerateKey, SaveKey, WithKey
<1> QED BY <1>1, <1>3, MoveCurrent

\* A handler in the middle: what the layers say of it.
LEMMA MiddleFacts ==
  ASSUME Inv, NEW h \in Handlers, req[h].pc \in Middle
  PROVE  /\ req[h] \in Requests(Names, Items) /\ req[h].session \in Sessions(Items)
         /\ req[h].session.pending = <<>> /\ At(req[h]) = req[h].pc
         /\ ToStore(req[h]) = Writable(req[h].session)
         /\ Control(req[h], local[h]) /\ local[h] \in Locals
<1>1. req[h].pc # "flush"
  BY DEF Middle
<1> QED BY <1>1, HandlerFacts DEF HandlerOK, Shape, ToStore

\* The profile queried again by a session that tracks nothing else, unchanged or
\* with another value.
LEMMA Refetched ==
  ASSUME NEW s \in Sessions(Items), s.pending = <<>>,
         \A m \in Writable(s) : s.objs[m].id = Profile,
         NEW p \in Profiles, NEW new \in Profiles,
         NEW again, again = Fetch(s, Profile, p), NEW n, n = Newest(again),
         NEW a, a = Assign(again, n, new)
  PROVE  /\ again \in Sessions(Items) /\ again.pending = <<>>
         /\ again.objs = Append(s.objs, [id |-> Profile, val |-> p])
         /\ again.objs[n] = [id |-> Profile, val |-> p]
         /\ Writable(again) \subseteq {n}
         /\ a \in Sessions(Items) /\ a.pending = <<>>
         /\ DOMAIN a.objs = DOMAIN again.objs
         /\ a.objs[n] = [id |-> Profile, val |-> new]
         /\ Writable(a) \subseteq {n}
         /\ p # new => \E i \in DOMAIN Writes(a) : a.objs[Writes(a)[i]].id = Profile
<1> DEFINE o == [id |-> Profile, val |-> p]
           q == [id |-> Profile, val |-> new]
           id == Profile
<1>1. o \in Items /\ q \in Items
  BY ProfileIsItem
<1>2. again \in Sessions(Items) /\ again.objs = Append(s.objs, o) /\ again.pending = <<>>
  <2>1. [id |-> id, val |-> p] \in Items /\ again = Fetch(s, id, p)
    BY <1>1
  <2> HIDE DEF id
  <2>2. again \in Sessions(Items) /\ again.objs = Append(s.objs, [id |-> id, val |-> p])
        /\ again.pending = s.pending
    BY <2>1, FetchType
  <2> QED BY <2>2 DEF id
<1>3. /\ n = Len(s.objs) + 1 /\ n \in DOMAIN again.objs /\ again.objs[n] = o
      /\ \A m \in DOMAIN s.objs : again.objs[m] = s.objs[m]
  <2> DEFINE g == s.objs
             f == again.objs
  <2>1. g \in Seq(Items) /\ f = Append(g, o) /\ n = Len(f)
    BY <1>2 DEF Newest, Sessions
  <2> HIDE DEF g, f, o
  <2>2. Len(f) = Len(g) + 1 /\ DOMAIN f = DOMAIN g \cup {Len(f)}
        /\ f[Len(f)] = o /\ \A m \in DOMAIN g : f[m] = g[m]
    BY <1>1, <2>1, AppendFacts
  <2> QED BY <2>1, <2>2 DEF g, f
<1>4. /\ \A i \in DOMAIN again.tracked :
           \/ again.tracked[i].obj = n
           \/ /\ i \in DOMAIN s.tracked /\ again.tracked[i] = s.tracked[i]
              /\ IdOf(s, s.tracked[i].obj) # Profile
      /\ \E i \in DOMAIN again.tracked : again.tracked[i] = [obj |-> n, snapshot |-> p]
  <2>1. [id |-> id, val |-> p] \in Items /\ again = Fetch(s, id, p) /\ n = Len(s.objs) + 1
    BY <1>1, <1>3
  <2> HIDE DEF id
  <2>2. /\ \A i \in DOMAIN again.tracked :
             \/ again.tracked[i].obj = n
             \/ /\ i \in DOMAIN s.tracked /\ again.tracked[i] = s.tracked[i]
                /\ IdOf(s, s.tracked[i].obj) # id
        /\ \E i \in DOMAIN again.tracked : again.tracked[i] = [obj |-> n, snapshot |-> p]
    BY <2>1, FetchTracks
  <2> QED BY <2>2 DEF id
<1>5. \A i \in DOMAIN again.tracked : again.tracked[i].obj = n
  BY <1>4 DEF IdOf, Writable
<1>6. Writable(again) \subseteq {n}
  BY <1>2, <1>5 DEF Writable
<1>7. a \in Sessions(Items) /\ a.objs = WithObject(again.objs, n, q) /\ a.pending = again.pending
  <2>1. q = WithVal(again.objs[n], new)
    BY <1>3 DEF WithVal
  <2>2. \A t \in Sessions(Items) : \A m \in DOMAIN t.objs : \A v : \A y \in Items :
          y = WithVal(t.objs[m], v)
            => /\ Assign(t, m, v) \in Sessions(Items)
               /\ Assign(t, m, v).objs = WithObject(t.objs, m, y)
               /\ Assign(t, m, v).pending = t.pending
    BY AssignType
  <2> HIDE DEF q
  <2> QED BY ZenonT(60), <1>1, <1>2, <1>3, <2>1, <2>2
<1>8. a.tracked = again.tracked
  BY <1>2, SameTracked
<1>9. DOMAIN a.objs = DOMAIN again.objs /\ a.objs[n] = q
  BY <1>3, <1>7 DEF WithObject
<1>10. Writable(a) \subseteq {n}
  BY <1>2, <1>5, <1>7, <1>8 DEF Writable
<1>11. ASSUME p # new PROVE \E i \in DOMAIN Writes(a) : a.objs[Writes(a)[i]].id = Profile
  <2>1. PICK i \in DOMAIN a.tracked : a.tracked[i] = [obj |-> n, snapshot |-> p]
    BY <1>4, <1>8
  <2>2. i \in Dirty(a)
    BY <1>9, <1>11, <2>1 DEF Dirty, ValOf
  <2>3. PICK k \in DOMAIN Writes(a) : IdOf(a, Writes(a)[k]) = IdOf(a, a.tracked[i].obj)
    BY <1>7, <2>2, WritesExactly
  <2> QED BY <1>9, <2>1, <2>3 DEF IdOf
<1> QED BY <1>2, <1>3, <1>6, <1>7, <1>9, <1>10, <1>11

\* What ensure_issuer_public_key leaves of its handler: the only thing to store is
\* the profile as it was stored, with the handler's key.
Ensuring(r, l, st, f) ==
  /\ f.op = r.op /\ f \in Requests(Names, Items)
  /\ At(f) = IF r.op = "approve" THEN "log" ELSE "load"
  /\ \E n : /\ ToStore(f) \subseteq {n}
            /\ f.session.objs[n].id = Profile
            /\ f.session.objs[n].val = [st[Profile] EXCEPT !.key = l.key]
  /\ \/ st[Profile].key = l.key
     \/ f.pc = "flush" /\ \E i \in DOMAIN f.writing : f.session.objs[f.writing[i]].id = Profile

\* EnsureKey does that.
LEMMA EnsureFacts ==
  ASSUME Inv, Inv', Current, NEW h \in Handlers, EnsureKey(h)
  PROVE  Ensuring(req[h], local[h], store, req'[h])
<1> DEFINE r == req[h]
           l == local[h]
           s == r.session
           p == store[Profile]
           again == Fetch(s, Profile, p)
           n == Newest(again)
           new == [p EXCEPT !.key = l.key]
           a == Assign(again, n, new)
           kept == IF ~Outdated(h) THEN again
                   ELSE Assign(again, n, [ValOf(again, n) EXCEPT !.key = l.key])
           next == IF r.op = "approve" THEN "log" ELSE "load"
           q == [r EXCEPT !.session = kept]
           f == IF kept = again THEN [q EXCEPT !.pc = next] ELSE Flush(q, next)
<1>1. /\ r \in Requests(Names, Items) /\ s \in Sessions(Items) /\ s.pending = <<>>
      /\ ToStore(r) = Writable(s) /\ r.pc \in Middle /\ l.key \in Keys
  <2>1. r.pc = "ensure" /\ r.pc \in Middle
    BY DEF EnsureKey, Middle
  <2>2. At(r) = "ensure" /\ Control(r, l)
    BY <2>1, MiddleFacts
  <2> QED BY <2>1, <2>2, MiddleFacts DEF Control
<1>2. \A m \in Writable(s) : s.objs[m].id = Profile
  BY <1>1 DEF Current, CurrentOK, OnlyProfile
<1>3. p \in Profiles /\ new \in Profiles /\ new.key = l.key /\ (p.key = l.key => new = p)
  <2>1. p \in Profiles
    BY StoreFacts
  <2> QED BY <1>1, <2>1 DEF Profiles
<1>4. req' = [req EXCEPT ![h] = f] /\ req'[h] = f
  BY DEF EnsureKey, Inv
<1>5. Outdated(h) <=> p.key # l.key
  BY DEF Outdated
<1> HIDE DEF p, new, again, n, a
<1>6. /\ again \in Sessions(Items) /\ again.pending = <<>>
      /\ again.objs = Append(s.objs, [id |-> Profile, val |-> p])
      /\ again.objs[n] = [id |-> Profile, val |-> p]
      /\ Writable(again) \subseteq {n}
      /\ a \in Sessions(Items) /\ a.pending = <<>>
      /\ DOMAIN a.objs = DOMAIN again.objs
      /\ a.objs[n] = [id |-> Profile, val |-> new]
      /\ Writable(a) \subseteq {n}
      /\ p # new => \E i \in DOMAIN Writes(a) : a.objs[Writes(a)[i]].id = Profile
  <2>1. again = Fetch(s, Profile, p) /\ n = Newest(again) /\ a = Assign(again, n, new)
    BY DEF again, n, a
  <2> HIDE DEF s
  <2> QED BY SMTT(40), <1>1, <1>2, <1>3, <2>1, Refetched
<1>7. ValOf(again, n) = p /\ a.objs[n].val = new /\ again.objs[n].val = p
      /\ a.objs[n].id = Profile /\ again.objs[n].id = Profile
  <2>1. again.objs[n] = [id |-> Profile, val |-> p] /\ a.objs[n] = [id |-> Profile, val |-> new]
    BY <1>6
  <2> QED BY <2>1 DEF ValOf
<1>8. kept = IF p.key = l.key THEN again ELSE a
  BY <1>5, <1>7 DEF a, new
<1> HIDE DEF kept
<1>9. /\ kept \in Sessions(Items) /\ kept.pending = <<>> /\ Writable(kept) \subseteq {n}
      /\ kept.objs[n].id = Profile /\ kept.objs[n].val = new
      /\ DOMAIN kept.objs = DOMAIN again.objs
  <2>1. CASE p.key = l.key
    <3>1. kept = again /\ new = p
      BY <1>3, <1>8, <2>1
    <3> QED BY <1>6, <1>7, <3>1
  <2>2. CASE p.key # l.key
    <3>1. kept = a
      BY <1>8, <2>2
    <3> QED BY <1>6, <1>7, <3>1
  <2> QED BY <2>1, <2>2
<1>10. DOMAIN s.objs \subseteq DOMAIN kept.objs
  <2> DEFINE g == s.objs
             o == [id |-> Profile, val |-> p]
             e == again.objs
  <2>1. g \in Seq(Items) /\ o \in Items /\ e = Append(g, o)
    BY <1>1, <1>3, <1>6, ProfileIsItem DEF Sessions
  <2> HIDE DEF g, o, e
  <2>2. DOMAIN e = DOMAIN g \cup {Len(e)}
    BY <2>1, AppendFacts
  <2> QED BY <1>9, <2>2 DEF g, e
<1>11. Goes(r, kept, next, f)
  <2>1. next \in Middle \cup {"log", "answer"}
    BY DEF Middle
  <2> HIDE DEF next
  <2> QED BY <1>1, <1>9, <1>10, <2>1 DEF Goes
<1>12. f = Flush(q, next) \/ f = [q EXCEPT !.pc = next]
  OBVIOUS
<1> HIDE DEF f, next
<1>13. /\ At(f) = next /\ f.op = r.op /\ f.session = kept
       /\ \/ f.pc = next /\ kept.pending = <<>>
          \/ f.pc = "flush" /\ f.then = next /\ f.writing = Writes(kept)
  BY <1>11, Onward
<1>14. ToStore(f) \subseteq Writable(kept)
  <2>1. \A i \in DOMAIN Writes(kept) : Writes(kept)[i] \in Writable(kept)
    BY <1>9, WritesExactly
  <2>2. next # "flush"
    BY DEF next
  <2> QED BY <1>13, <2>1, <2>2 DEF ToStore
<1>15. f \in Requests(Names, Items)
  BY <1>4 DEF Inv
<1>16. ASSUME p.key # l.key
       PROVE  f.pc = "flush" /\ \E i \in DOMAIN f.writing : f.session.objs[f.writing[i]].id = Profile
  <2>1. kept = a /\ p # new
    BY <1>3, <1>8, <1>16
  <2>2. kept # again
    BY <1>7, <2>1
  <2>3. PICK i \in DOMAIN Writes(kept) : kept.objs[Writes(kept)[i]].id = Profile
    BY <1>6, <2>1
  <2>4. f = Flush(q, next)
    BY <2>2 DEF f
  <2>5. Writes(kept) # <<>>
    BY <2>3
  <2>6. f.pc = "flush"
    <3>1. r \in Shape(Names, Items)
      BY <1>1 DEF Requests
    <3>2. q \in Shape(Names, Items) /\ q.session = kept
      BY <1>9, <3>1 DEF Shape
    <3> HIDE DEF q
    <3>3. f = [q EXCEPT !.pc = "flush", !.then = next, !.writing = Writes(kept)]
      BY <2>4, <2>5, <3>2 DEF Flush
    <3> QED BY <3>2, <3>3 DEF Shape
  <2>7. next # "flush"
    BY DEF next
  <2> QED BY <1>13, <2>3, <2>6, <2>7
<1>17. Ensuring(r, l, store, f)
  BY <1>9, <1>13, <1>14, <1>15, <1>16 DEF Ensuring, next, p, new
<1> QED BY <1>4, <1>17

\* ensure_issuer_public_key's copy of the profile is blocked if the profile is.
LEMMA EnsureCurrent ==
  ASSUME Inv, Inv', Current, NEW h \in Handlers, EnsureKey(h)
  PROVE  Current'
<1> DEFINE f == req'[h]
<1>1. Ensuring(req[h], local[h], store, f)
  BY EnsureFacts
<1>2. PICK n : /\ ToStore(f) \subseteq {n} /\ f.session.objs[n].id = Profile
               /\ f.session.objs[n].val = [store[Profile] EXCEPT !.key = local[h].key]
  BY <1>1 DEF Ensuring
<1>3. /\ f.session.objs[n].val.blocked = store[Profile].blocked
      /\ f.session.objs[n].val.approved = store[Profile].approved
  <2>1. store[Profile] \in Profiles
    BY StoreFacts
  <2> QED BY <1>2, <2>1 DEF Profiles
<1>4. req' = [req EXCEPT ![h] = f] /\ store' = store /\ stale' = stale \ {<<h, Profile>>}
  BY DEF EnsureKey, Inv
<1>5. At(f) \in {"log", "load"}
  BY <1>1 DEF Ensuring
<1> HIDE DEF f
<1>6. f.pc # "idle"
  BY <1>5 DEF At
<1>7. Keeps(f.session.objs[n], store) /\ SameApproval(f.session.objs[n], store)
  BY <1>2, <1>3, CredentialsAssumption DEF Keeps, SameApproval, Profile
<1>8. CurrentOK(h, f, store, stale')
  BY <1>2, <1>6, <1>7 DEF CurrentOK, Agrees, Recent, Approving, OnlyProfile
<1>9. \A g \in Handlers \ {h} : \A d : <<g, d>> \in stale => <<g, d>> \in stale'
  BY <1>4
<1> QED BY <1>4, <1>8, <1>9, CurrentStep

\* Request f may store what r may, and objects of New.
Adds(r, f, New) ==
  \A m \in ToStore(f) : \/ m \in ToStore(r) /\ f.session.objs[m] = r.session.objs[m]
                        \/ f.session.objs[m] \in New

\* A handler that adds objects which undo nothing.
LEMMA AddsCurrent ==
  ASSUME Inv, Current, NEW h \in Handlers, NEW f, req' = [req EXCEPT ![h] = f], store' = store,
         NEW New, Adds(req[h], f, New), f.pc \in {"flush", "answer"}, ~Superseded(req[h]),
         \A o \in New : Keeps(o, store) /\ o.id # Profile,
         \A o, p \in New : o.id \in Changing /\ o.id = p.id => o.val = p.val,
         \A o \in New : \A m \in ToStore(req[h]) :
           o.id \in Changing => req[h].session.objs[m].id # o.id,
         \A g \in Handlers \ {h} : \A d : <<g, d>> \in stale => <<g, d>> \in stale',
         \A m \in ToStore(req[h]) :
           <<h, req[h].session.objs[m].id>> \in stale => <<h, req[h].session.objs[m].id>> \in stale'
  PROVE  Current'
<1> DEFINE r == req[h]
<1>1. CurrentOK(h, r, store, stale)
  BY DEF Current
<1>2. Agrees(f)
  <2> SUFFICES ASSUME NEW m \in ToStore(f), NEW n \in ToStore(f),
                      f.session.objs[m].id \in Changing,
                      f.session.objs[m].id = f.session.objs[n].id
               PROVE  f.session.objs[m].val = f.session.objs[n].val
    BY DEF Agrees
  <2>1. CASE m \in ToStore(r) /\ n \in ToStore(r) /\ f.session.objs[m] = r.session.objs[m]
             /\ f.session.objs[n] = r.session.objs[n]
    BY <1>1, <2>1 DEF CurrentOK, Agrees
  <2>2. CASE f.session.objs[m] \in New /\ f.session.objs[n] \in New
    BY <2>2
  <2>3. CASE f.session.objs[m] \in New /\ n \in ToStore(r) /\ f.session.objs[n] = r.session.objs[n]
    BY <2>3
  <2>4. CASE f.session.objs[n] \in New /\ m \in ToStore(r) /\ f.session.objs[m] = r.session.objs[m]
    BY <2>4
  <2> QED BY <2>1, <2>2, <2>3, <2>4 DEF Adds
<1>3. Recent(h, f, store, stale')
  <2> SUFFICES ASSUME NEW m \in ToStore(f)
               PROVE  \/ Keeps(f.session.objs[m], store)
                      \/ <<h, f.session.objs[m].id>> \in stale'
    BY DEF Recent
  <2>1. CASE f.session.objs[m] \in New
    BY <2>1
  <2>2. CASE m \in ToStore(r) /\ f.session.objs[m] = r.session.objs[m]
    BY <1>1, <2>2 DEF CurrentOK, Recent
  <2> QED BY <2>1, <2>2 DEF Adds
<1>4. Approving(f, store)
  BY <1>1 DEF CurrentOK, Approving, SameApproval, Adds
<1>5. CurrentOK(h, f, store, stale')
  BY <1>2, <1>3, <1>4 DEF CurrentOK, OnlyProfile, Middle
<1> QED BY <1>5, CurrentStep

\* A credential that is signed was not stored before.
LEMMA SignCurrent ==
  ASSUME Inv, Current, NEW h \in Handlers, Sign(h)
  PROVE  Current'
<1> DEFINE r == req[h]
           key == local[h].key
           doc == [status |-> "active", key |-> key]
           n == Len(r.session.objs) + 1
<1>1. PICK c \in Credentials :
        /\ store[c] = Absent
        /\ req' = [req EXCEPT ![h] = Flush([r EXCEPT !.session = AddNew(r.session, c, doc)], "log")]
  BY DEF Sign
<1> DEFINE o == [id |-> c, val |-> doc]
           s == AddNew(r.session, c, doc)
           f == Flush([r EXCEPT !.session = s], "log")
<1>2. r.pc = "sign" /\ r.pc \in Middle /\ store' = store /\ stale' = stale
  BY DEF Sign, Middle
<1>3. /\ r \in Requests(Names, Items) /\ r.session.pending = <<>> /\ key \in Keys
      /\ ToStore(r) = Writable(r.session)
  BY <1>2, MiddleFacts DEF Control
<1>4. Goes(r, s, "log", f) /\ Signing(r, key, c, s, n, f)
  <2> HIDE DEF r, key
  <2> QED BY <1>2, <1>3, SignFacts
<1>5. req' = [req EXCEPT ![h] = f]
  BY <1>1
<1> HIDE DEF f, s, n
<1>6. s \in Sessions(Items)
  BY <1>4 DEF Signing
<1>7. \A m \in ToStore(f) : m \in Writable(s)
  BY <1>4, <1>6, WritesExactly DEF Signing, ToStore
<1>8. ToStore(r) \subseteq DOMAIN r.session.objs
  BY <1>3, StoresHeld
<1>9. Adds(r, f, {o})
  BY <1>3, <1>4, <1>7, <1>8 DEF Adds, Signing
<1>10. /\ f.pc \in {"flush", "answer"} /\ ~Superseded(r)
       /\ \A m \in ToStore(r) : r.session.objs[m].id = Profile
  BY <1>2, <1>4 DEF Signing, Superseded, Current, CurrentOK, OnlyProfile
<1>11. Keeps(o, store) /\ o.id = c /\ c # Profile
  BY <1>1, CredentialsAssumption DEF Keeps, Revoked, Profile
<1> HIDE DEF o
<1> DEFINE New == {o}
<1>12. /\ \A e \in New : Keeps(e, store) /\ e.id # Profile
       /\ \A e, d \in New : e.id \in Changing /\ e.id = d.id => e.val = d.val
       /\ \A e \in New : \A m \in ToStore(r) : e.id \in Changing => r.session.objs[m].id # e.id
  BY <1>10, <1>11
<1>13. Adds(r, f, New)
  BY <1>9
<1> HIDE DEF New, r
<1> QED BY <1>2, <1>5, <1>10, <1>12, <1>13, AddsCurrent DEF r

\* A credential that is signed again is as it is stored.
LEMMA ResignCurrent ==
  ASSUME Inv, Current, NEW h \in Handlers, Resign(h)
  PROVE  Current'
<1> DEFINE r == req[h]
           l == local[h]
<1>1. PICK found \in SetToSeqs(ToResign) :
        req' = [req EXCEPT ![h] =
                  Flush([r EXCEPT !.session = AllResigned(r.session, found, l.key)], "answer")]
  BY DEF Resign
<1> DEFINE s == AllResigned(r.session, found, l.key)
           f == Flush([r EXCEPT !.session = s], "answer")
           New == {Again(c, l.key) : c \in ToResign}
<1>2. /\ r.pc = "resign" /\ r.pc \in Middle /\ store' = store
      /\ stale' = stale \ ({h} \X Credentials)
  BY DEF Resign, Middle
<1>3. /\ r \in Requests(Names, Items) /\ r.session.pending = <<>> /\ l.key \in Keys
      /\ ToStore(r) = Writable(r.session) /\ Control(r, l)
  BY <1>2, MiddleFacts DEF Control
<1>4. req' = [req EXCEPT ![h] = f]
  BY <1>1
<1>5. Goes(r, s, "answer", f) /\ Resigning(r, l.key, s, f)
  <2> HIDE DEF r, l
  <2> QED BY <1>2, <1>3, ResignFacts
<1> HIDE DEF f, s
<1>6. s \in Sessions(Items) /\ f.session = s /\ f.pc \in {"flush", "answer"}
  BY <1>5 DEF Resigning
<1>7. \A m \in ToStore(f) : m \in Writable(s)
  BY <1>5, <1>6, WritesExactly DEF Resigning, ToStore
<1>8. Adds(r, f, New)
  BY <1>3, <1>5, <1>6, <1>7 DEF Adds, Resigning
<1>9. ~Superseded(r) /\ \A m \in ToStore(r) : r.session.objs[m].id = Profile
  BY <1>2 DEF Superseded, Current, CurrentOK, OnlyProfile
<1>10. ASSUME NEW c \in ToResign
       PROVE  /\ c \in Credentials /\ c # Profile
              /\ Again(c, l.key).id = c /\ Keeps(Again(c, l.key), store)
  <2>1. c \in Credentials /\ store[c] \in Documents /\ c # Profile
    BY StoreFacts, CredentialsAssumption DEF ToResign, Profile
  <2>2. Again(c, l.key).id = c /\ Again(c, l.key).val.status = store[c].status
    BY <2>1 DEF Again, Resigned, Documents
  <2> QED BY <2>1, <2>2 DEF Keeps, Revoked
<1>11. /\ \A o \in New : Keeps(o, store) /\ o.id # Profile
       /\ \A o, p \in New : o.id = p.id => o = p
  BY <1>10
<1> HIDE DEF New
<1>12. /\ \A g \in Handlers \ {h} : \A d : <<g, d>> \in stale => <<g, d>> \in stale'
       /\ <<h, Profile>> \in stale => <<h, Profile>> \in stale'
  BY <1>2, CredentialsAssumption DEF Profile
<1> HIDE DEF r, l
<1>13. /\ \A o \in New : Keeps(o, store) /\ o.id # Profile
       /\ \A o, p \in New : o.id \in Changing /\ o.id = p.id => o.val = p.val
       /\ \A o \in New : \A m \in ToStore(r) :
            o.id \in Changing => r.session.objs[m].id # o.id
       /\ \A m \in ToStore(r) :
            <<h, r.session.objs[m].id>> \in stale => <<h, r.session.objs[m].id>> \in stale'
  BY <1>9, <1>11, <1>12
<1>14. req' = [req EXCEPT ![h] = f] /\ store' = store /\ f.pc \in {"flush", "answer"}
  BY <1>2, <1>4, <1>6
<1> QED BY <1>8, <1>9, <1>12, <1>13, <1>14, AddsCurrent DEF r

\* What log_event adds is no profile and no credential.
Logging(r, l, f) ==
  /\ Adds(r, f, {o \in Items : o.id \in {"audit", "claims"}})
  /\ f.op = r.op /\ f.pc = "flush" /\ f.then = "answer"

\* Log does that.
LEMMA LogFacts ==
  ASSUME Inv, NEW h \in Handlers, Log(h)
  PROVE  Logging(req[h], local[h], req'[h])
<1> DEFINE r == req[h]
           l == local[h]
           t == r.session
           u == AddNew(t, "claims", l.cred)
           a == [r EXCEPT !.session = u]
           ev == <<r.op, l.cred>>
           b == IF r.op = "issue" THEN a ELSE r
           f == LogEvent(b, ev, "answer")
           New == {o \in Items : o.id \in {"audit", "claims"}}
<1>1. /\ r \in Requests(Names, Items) /\ t \in Sessions(Items) /\ t.objs \in Seq(Items)
      /\ r.pc = "log" /\ At(r) = "log" /\ Control(r, l) /\ l \in Locals
      /\ ToStore(r) = Writable(t)
  BY HandlerFacts DEF Log, HandlerOK, Requests, Shape, Sessions, At, ToStore
<1>2. r.op \in Ops /\ ev \in Events /\ (r.op = "issue" => l.cred \in Credentials)
  BY <1>1 DEF Control, Events, Locals
<1>3. AuditItem(ev) \in Items
  BY <1>2, AuditIsItem
<1>4. req'[h] = f
  BY DEF Log, Inv
<1>5. /\ b \in Requests(Names, Items) /\ b.op = r.op
      /\ DOMAIN t.objs \subseteq DOMAIN b.session.objs
      /\ \A m \in Writable(b.session) : \/ m \in Writable(t) /\ b.session.objs[m] = t.objs[m]
                                        \/ b.session.objs[m] \in New
  <2>1. CASE r.op # "issue"
    <3>1. b = r
      BY <2>1
    <3> QED BY <1>1, <3>1
  <2>2. CASE r.op = "issue"
    <3> DEFINE k == Len(t.objs) + 1
               o == ClaimsItem(l.cred)
    <3>1. o \in Items /\ o \in New
      BY <1>2, <2>2, ClaimsIsItem DEF ClaimsItem
    <3>2. /\ u \in Sessions(Items) /\ u.objs = Append(t.objs, o)
          /\ Writable(u) \subseteq Writable(t) \cup {k}
      <4> DEFINE id == "claims"
                 v == l.cred
      <4>1. [id |-> id, val |-> v] \in Items /\ t \in Sessions(Items)
        BY <1>1, <3>1 DEF ClaimsItem
      <4> HIDE DEF id, v, t
      <4>2. /\ AddNew(t, id, v) \in Sessions(Items)
            /\ AddNew(t, id, v).objs = Append(t.objs, [id |-> id, val |-> v])
            /\ Writable(AddNew(t, id, v)) \subseteq Writable(t) \cup {Len(t.objs) + 1}
        BY <4>1, AddNewType, AddNewStores
      <4> QED BY <4>2 DEF ClaimsItem, id, v
    <3>3. DOMAIN u.objs = DOMAIN t.objs \cup {k} /\ u.objs[k] = o /\ \A m \in DOMAIN t.objs : u.objs[m] = t.objs[m]
      <4> DEFINE g == t.objs
                 q == u.objs
      <4>1. g \in Seq(Items) /\ q = Append(g, o)
        BY <1>1, <3>2
      <4> HIDE DEF g, q, o
      <4>2. Len(q) = Len(g) + 1 /\ DOMAIN q = DOMAIN g \cup {Len(q)}
            /\ q[Len(q)] = o /\ \A m \in DOMAIN g : q[m] = g[m]
        BY <3>1, <4>1, AppendFacts
      <4> QED BY <4>2 DEF g, q
    <3> HIDE DEF u, k, o
    <3>4. r \in Shape(Names, Items) /\ Sound(r)
      BY <1>1 DEF Requests
    <3>5. /\ a \in Shape(Names, Items) /\ a.session = u /\ a.op = r.op /\ a.pc = r.pc
          /\ a.then = r.then /\ a.writing = r.writing
      BY <3>2, <3>4 DEF Shape
    <3>6. b = a
      BY <2>2
    <3> HIDE DEF a, b
    <3>7. a \in Requests(Names, Items)
      BY <3>3, <3>4, <3>5 DEF Requests, Sound
    <3>8. Writable(t) \subseteq DOMAIN t.objs
      BY <1>1 DEF Writable, Sessions
    <3> QED BY <3>1, <3>2, <3>3, <3>5, <3>6, <3>7, <3>8
  <2> QED BY <2>1, <2>2
<1> HIDE DEF b
<1> DEFINE w == b.session.objs
           k == Len(w) + 1
<1>6. w \in Seq(Items) /\ b.session \in Sessions(Items)
  BY <1>5 DEF Requests, Shape, Sessions
<1>7. /\ f \in Requests(Names, Items) /\ f.session.objs = Append(w, AuditItem(ev))
      /\ f.op = b.op /\ f.pc = "flush" /\ f.then = "answer"
      /\ ToStore(f) \subseteq Writable(b.session) \cup {k}
  <2> DEFINE e == ev
             pc == "answer"
             q == LogEvent(b, e, pc)
  <2>1. pc \in Names /\ pc # "flush" /\ f = q /\ AuditItem(e) \in Items
    BY <1>3 DEF Names
  <2> HIDE DEF e, pc, Recording
  <2>2. Recording(Names, Items, b, e, pc, q)
    BY <1>5, <2>1, LogEventType, NamesBasic
  <2>3. ToStore(q) \subseteq Writable(b.session) \cup {Len(b.session.objs) + 1}
    BY <1>5, <2>1, LogStores, NamesBasic
  <2> QED BY <2>1, <2>2, <2>3 DEF e, pc, Recording
<1> DEFINE objs == f.session.objs
<1>8. /\ objs[k] = AuditItem(ev) /\ \A m \in DOMAIN w : objs[m] = w[m]
  <2>1. objs = Append(w, AuditItem(ev))
    BY <1>7
  <2> HIDE DEF objs, ev, w
  <2>2. Len(objs) = Len(w) + 1 /\ objs[Len(objs)] = AuditItem(ev) /\ \A m \in DOMAIN w : objs[m] = w[m]
    BY <1>3, <1>6, <2>1, AppendFacts
  <2> QED BY <2>2
<1>9. Writable(b.session) \subseteq DOMAIN w
  BY <1>6 DEF Writable, Sessions
<1>10. AuditItem(ev) \in New
  BY <1>3 DEF AuditItem
<1> HIDE DEF f, New, ev, k
<1>11. Adds(r, f, New)
  BY <1>1, <1>5, <1>7, <1>8, <1>9, <1>10 DEF Adds
<1> QED BY <1>4, <1>5, <1>7, <1>11 DEF Logging, New

\* log_event leaves the copies as current as they are.
LEMMA LogCurrent ==
  ASSUME Inv, Current, NEW h \in Handlers, Log(h)
  PROVE  Current'
<1> DEFINE f == req'[h]
           New == {o \in Items : o.id \in {"audit", "claims"}}
<1>1. Adds(req[h], f, New) /\ f.pc \in {"flush", "answer"}
  BY LogFacts DEF Logging
<1>2. req' = [req EXCEPT ![h] = f] /\ store' = store /\ stale' = stale /\ ~Superseded(req[h])
  BY DEF Log, Inv, Superseded
<1>3. \A o \in New : Keeps(o, store) /\ o.id \notin Changing /\ o.id # Profile
  BY CredentialsAssumption DEF Keeps, Changing, Profile
<1> HIDE DEF f, New
<1> QED BY <1>1, <1>2, <1>3, AddsCurrent

\* What a write stores is among what its handler may store.
LEMMA WriteFacts ==
  ASSUME Inv, NEW h \in Handlers, Write(h)
  PROVE  LET r == req[h]
             o == NextObject(r)
             f == AfterWrite(r)
         IN  /\ r.pc = "flush" /\ req' = [req EXCEPT ![h] = f] /\ stale \subseteq stale'
             /\ \E n \in ToStore(r) : o = r.session.objs[n]
             /\ ToStore(f) \subseteq ToStore(r) /\ f.session.objs = r.session.objs
             /\ f.pc = "flush" \/ ToStore(f) = {}
             /\ o.id \in Changing => store' = [store EXCEPT ![o.id] = o.val]
             /\ o.id \notin Changing => store' = store
<1> DEFINE r == req[h]
           o == NextObject(r)
           f == AfterWrite(r)
<1>1. r.pc = "flush" /\ r \in Requests(Names, Items) /\ r.writing \in Seq(Nat)
  BY HandlerFacts DEF Write, HandlerOK, Shape
<1>2. /\ r.pc = "flush" /\ req' = [req EXCEPT ![h] = f] /\ stale \subseteq stale'
  BY DEF Write
<1>3. DOMAIN store = Changing
  BY StoreFacts DEF Changing
<1>4. /\ o.id \in Changing => store' = [store EXCEPT ![o.id] = o.val]
      /\ o.id \notin Changing => store' = store
  BY <1>3 DEF Write
<1>5. o = r.session.objs[r.writing[1]] /\ 1 \in DOMAIN r.writing
  BY <1>1, NextObjectType, NamesBasic
<1>6. f.session.objs = r.session.objs
  BY <1>1, AfterWriteType, NamesBasic
<1>7. /\ ToStore(f) \subseteq ToStore(r) /\ r.writing[1] \in ToStore(r)
      /\ f.pc = "flush" \/ ToStore(f) = {}
  BY <1>1, WriteStores, NamesBasic
<1> QED BY <1>2, <1>4, <1>5, <1>6, <1>7

\* A write that blocks the issuer or revokes a credential makes the others'
\* copies stale; this handler stores no other value.
LEMMA WriteCurrent ==
  ASSUME Inv, Current, NEW h \in Handlers, Write(h)
  PROVE  Current'
<1> DEFINE r == req[h]
           o == NextObject(r)
           f == AfterWrite(r)
<1>1. /\ r.pc = "flush" /\ req' = [req EXCEPT ![h] = f] /\ stale \subseteq stale'
      /\ ToStore(f) \subseteq ToStore(r) /\ f.session.objs = r.session.objs
      /\ f.pc = "flush" \/ ToStore(f) = {}
      /\ o.id \in Changing => store' = [store EXCEPT ![o.id] = o.val]
      /\ o.id \notin Changing => store' = store
  BY WriteFacts
<1>2. PICK k \in ToStore(r) : o = r.session.objs[k]
  BY WriteFacts
<1>3. stale' = IF \/ o.id = Profile /\ o.val.blocked /\ ~store[Profile].blocked
                  \/ o.id \in Credentials /\ o.val.status = "revoked"
               THEN stale \cup ((Active \ {h}) \X {o.id}) ELSE stale
  BY DEF Write
<1>4. DOMAIN store = Changing /\ Profile \in Changing /\ Credentials \subseteq Changing
  BY StoreFacts DEF Changing
<1> HIDE DEF o, f
<1>5. /\ o.id \in Changing => store'[o.id] = o.val
      /\ \A d \in Changing : d # o.id => store'[d] = store[d]
  BY <1>1, <1>4
<1>6. Agrees(r) /\ Recent(h, r, store, stale) /\ Approving(r, store) /\ ~Superseded(r)
  BY <1>1 DEF Current, CurrentOK, Superseded
<1>7. Agrees(f)
  BY <1>1, <1>6 DEF Agrees
<1>8. Recent(h, f, store', stale')
  <2> SUFFICES ASSUME NEW n \in ToStore(f), <<h, f.session.objs[n].id>> \notin stale'
               PROVE  Keeps(f.session.objs[n], store')
    BY DEF Recent
  <2> DEFINE p == f.session.objs[n]
  <2>1. n \in ToStore(r) /\ p = r.session.objs[n] /\ <<h, p.id>> \notin stale
    BY <1>1
  <2>2. Keeps(p, store)
    BY <1>1, <1>6, <2>1 DEF Recent, Superseded
  <2>3. p.id \in Changing /\ p.id = o.id => p.val = o.val
    BY <1>2, <1>6, <2>1 DEF Agrees
  <2> HIDE DEF p
  <2>4. ASSUME p.id = o.id PROVE Keeps(p, store')
    BY <1>4, <1>5, <2>3, <2>4 DEF Keeps, Revoked
  <2>5. ASSUME p.id # o.id PROVE Keeps(p, store')
    BY <1>4, <1>5, <2>2, <2>5 DEF Keeps, Revoked
  <2> QED BY <2>4, <2>5 DEF p
<1>9. store'[Profile].approved = store[Profile].approved
  BY <1>2, <1>4, <1>5, <1>6 DEF Approving, SameApproval
<1>10. Approving(f, store')
  BY <1>1, <1>6, <1>9 DEF Approving, SameApproval
<1>11. CurrentOK(h, f, store', stale')
  BY <1>1, <1>7, <1>8, <1>10 DEF CurrentOK, OnlyProfile, Middle
<1>12. ASSUME NEW g \in Handlers \ {h}, NEW n \in ToStore(req[g])
       PROVE  LET q == req[g].session.objs[n]
              IN  /\ Keeps(q, store) => Keeps(q, store') \/ <<g, q.id>> \in stale'
                  /\ <<g, q.id>> \in stale => <<g, q.id>> \in stale'
  <2> DEFINE q == req[g].session.objs[n]
  <2>1. g \in Active
    BY DEF Active, Current, CurrentOK
  <2>2. ASSUME Keeps(q, store), ~Keeps(q, store') PROVE <<g, q.id>> \in stale'
    <3> HIDE DEF q
    <3>1. q.id \in Changing /\ q.id = o.id
      BY <1>4, <1>5, <2>2 DEF Keeps, Revoked
    <3>2. \/ o.id = Profile /\ o.val.blocked /\ ~store[Profile].blocked
          \/ o.id \in Credentials /\ o.val.status = "revoked"
      BY <1>5, <2>2, <3>1 DEF Keeps, Revoked
    <3> QED BY <1>3, <2>1, <3>1, <3>2
  <2> QED BY <1>1, <2>2
<1> QED BY <1>1, <1>11, <1>12, <1>9, CurrentFrame

\* An idle handler stores nothing.
LEMMA IdleCurrent ==
  ASSUME NEW h \in Handlers, NEW st, NEW stl
  PROVE  CurrentOK(h, Idle, st, stl)
BY IdleStores DEF CurrentOK, Agrees, Recent, Approving, OnlyProfile

\* Every step preserves the second layer.
LEMMA NextCurrent == Inv /\ Inv' /\ Current /\ [Next]_vars => Current'
<1> SUFFICES ASSUME Inv, Inv', Current, [Next]_vars PROVE Current'
  OBVIOUS
<1>1. ASSUME NEW h \in Handlers, Answer(h) \/ Fail(h) PROVE Current'
  <2>1. req' = [req EXCEPT ![h] = Idle] /\ store' = store /\ stale' = stale
    BY <1>1 DEF Answer, Fail
  <2> QED BY <2>1, IdleCurrent, CurrentStep
<1>2. CASE Redeploy
  <2>1. req' = [h \in Handlers |-> Idle] /\ store' = store /\ stale' = stale
    BY <1>2 DEF Redeploy
  <2> QED BY <2>1, IdleCurrent DEF Current
<1>3. CASE UNCHANGED vars
  BY <1>3 DEF vars, Current
<1> QED BY <1>1, <1>2, <1>3, BeginsCurrent, ResignCurrent, KeysCurrent, EnsureCurrent, SignCurrent,
           LogCurrent, WriteCurrent DEF Next

\* The second layer holds in every reachable state.
LEMMA CopiesCurrent == Spec => []Current
<1>1. Init => Current
  <2> SUFFICES ASSUME Init PROVE Current
    OBVIOUS
  <2>1. req = [h \in Handlers |-> Idle]
    BY DEF Init
  <2> QED BY <2>1, IdleCurrent DEF Current
<1> QED BY <1>1, NextCurrent, Invariance, PTL DEF Spec

\* A step that undoes a block or a revocation is the write of a handler that read
\* the document before.
LEMMA UndoneStep ==
  ASSUME Inv, Current, [Next]_vars, NEW d \in Changing, store'[d] # store[d],
         ~Keeps([id |-> d, val |-> store'[d]], store)
  PROVE  \E h \in Handlers : /\ <<h, d>> \in stale
                             /\ req[h].pc = "flush" /\ NextObject(req[h]).id = d
<1>1. PICK h \in Handlers : Write(h)
  BY DEF Next, vars, Approve, Block, Issue, Resync, Resign, Revoke, LoadKey, GenerateKey, SaveKey,
         EnsureKey, Sign, Log, Answer, Fail, Redeploy
<1> DEFINE r == req[h]
           o == NextObject(r)
<1>2. /\ r.pc = "flush"
      /\ o.id \in Changing => store' = [store EXCEPT ![o.id] = o.val]
      /\ o.id \notin Changing => store' = store
  BY <1>1, WriteFacts
<1>3. PICK k \in ToStore(r) : o = r.session.objs[k]
  BY <1>1, WriteFacts
<1>4. DOMAIN store = Changing
  BY StoreFacts DEF Changing
<1>5. Keeps(o, store) \/ <<h, o.id>> \in stale \/ (o.id = Profile /\ Superseded(r))
  BY <1>3 DEF Current, CurrentOK, Recent
<1> HIDE DEF o
<1>6. o.id = d /\ o.val = store'[d]
  BY <1>2, <1>4
<1>7. ~Keeps(o, store)
  BY <1>6 DEF Keeps
<1> QED BY <1>2, <1>5, <1>6, <1>7 DEF Superseded, o

\* admin.py, lines 53-54, for any number of administrators: approve_issuer answers
\* that the issuer is approved, but no handler and no interleaving of them ever
\* changes whether the stored profile is.
THEOREM ApprovalsDropped == Spec => ApprovalNeverStored
<1> DEFINE A == store'[Profile].approved = store[Profile].approved
<1>1. Inv /\ Current /\ [Next]_vars => [A]_vars
  <2> SUFFICES ASSUME Inv, Current, [Next]_vars, store' # store PROVE A
    OBVIOUS
  <2>1. PICK h \in Handlers : Write(h)
    BY DEF Next, vars, Approve, Block, Issue, Resync, Resign, Revoke, LoadKey, GenerateKey, SaveKey,
           EnsureKey, Sign, Log, Answer, Fail, Redeploy
  <2> DEFINE r == req[h]
             o == NextObject(r)
  <2>2. /\ r.pc = "flush"
        /\ o.id \in Changing => store' = [store EXCEPT ![o.id] = o.val]
        /\ o.id \notin Changing => store' = store
    BY <2>1, WriteFacts
  <2>3. PICK n \in ToStore(r) : o = r.session.objs[n]
    BY <2>1, WriteFacts
  <2>4. SameApproval(o, store)
    BY <2>2, <2>3 DEF Current, CurrentOK, Approving, Superseded
  <2>5. DOMAIN store = Changing /\ Profile \in Changing
    BY StoreFacts DEF Changing
  <2> HIDE DEF o
  <2> QED BY <2>2, <2>4, <2>5 DEF SameApproval
<1> QED BY <1>1, Invariance, CopiesCurrent, PTL DEF Spec, ApprovalNeverStored

\* A block (block_issuer, admin.py, line 75) is undone only by a handler that read
\* the profile before the block was stored and stores its whole copy after it,
\* for any number of handlers.
THEOREM BlocksUndone == Spec => BlockUndoneOnlyByOverlap
<1> DEFINE A == store[Profile].blocked /\ ~store'[Profile].blocked
                  => \E h \in Handlers : /\ <<h, Profile>> \in stale
                                         /\ req[h].pc = "flush" /\ NextObject(req[h]).id = Profile
<1>1. Inv /\ Current /\ [Next]_vars => [A]_vars
  <2> SUFFICES ASSUME Inv, Current, [Next]_vars, store[Profile].blocked, ~store'[Profile].blocked
               PROVE  \E h \in Handlers : /\ <<h, Profile>> \in stale
                                          /\ req[h].pc = "flush" /\ NextObject(req[h]).id = Profile
    OBVIOUS
  <2>1. Profile \in Changing /\ store'[Profile] # store[Profile]
    BY DEF Changing
  <2>2. ~Keeps([id |-> Profile, val |-> store'[Profile]], store)
    BY DEF Keeps
  <2> QED BY <2>1, <2>2, UndoneStep
<1> QED BY <1>1, Invariance, CopiesCurrent, PTL DEF Spec, BlockUndoneOnlyByOverlap

\* A revocation (issuer.py, lines 150-153) is undone only by a handler that read the
\* credential before the revocation was stored, for any number of handlers.
THEOREM RevocationsUndone == Spec => RevocationUndoneOnlyByOverlap
<1> DEFINE A == \A c \in Credentials :
                  store[c] # Absent /\ store[c].status = "revoked" /\ store'[c].status # "revoked"
                    => \E h \in Handlers : /\ <<h, c>> \in stale
                                           /\ req[h].pc = "flush" /\ NextObject(req[h]).id = c
<1>1. Inv /\ Current /\ [Next]_vars => [A]_vars
  <2> SUFFICES ASSUME Inv, Current, [Next]_vars, NEW c \in Credentials, store[c] # Absent,
                      store[c].status = "revoked", store'[c].status # "revoked"
               PROVE  \E h \in Handlers : /\ <<h, c>> \in stale
                                          /\ req[h].pc = "flush" /\ NextObject(req[h]).id = c
    OBVIOUS
  <2>1. c \in Changing /\ store'[c] # store[c]
    BY DEF Changing
  <2>2. ~Keeps([id |-> c, val |-> store'[c]], store)
    BY DEF Keeps, Revoked
  <2> QED BY <2>1, <2>2, UndoneStep
<1> QED BY <1>1, Invariance, CopiesCurrent, PTL DEF Spec, RevocationUndoneOnlyByOverlap

-----------------------------------------------------------------------------
\* The key of request r with local variables l is the one of the profile.
Ensured(r, l) == l.stage >= 2 \/ (l.stage = 1 /\ At(r) = "load")

\* How far a request has come with its key.
Stages(r, l) ==
  /\ r.op = "issue" /\ At(r) \in {"sign", "log", "answer"} => l.stage >= 2
  /\ r.op = "issue" /\ At(r) \in {"log", "answer"} => l.cred \in Credentials
  /\ r.op = "resync" /\ At(r) \in {"resign", "answer"} => l.stage >= 2
  /\ l.stage >= 1 => At(r) \notin {"generate", "save"}

\* The documents that carry that key, or will after a flush.
Settled(r, l) ==
  {d \in Changing : \/ d = Profile /\ Ensured(r, l)
                    \/ d = l.cred /\ r.op = "issue" /\ At(r) \in {"log", "answer"}
                    \/ d \in Credentials /\ r.op = "resync" /\ At(r) = "answer"}
Carried(r, l, st, d) ==
  /\ \A n \in ToStore(r) : r.session.objs[n].id = d => r.session.objs[n].val.key = l.key
  /\ \/ d \in Credentials /\ st[d] = Absent /\ r.op = "resync"
     \/ r.pc = "flush" /\ \E i \in DOMAIN r.writing : r.session.objs[r.writing[i]].id = d
     \/ st[d].key = l.key

Alone(r, l, st, file) ==
  /\ Stages(r, l)
  /\ l.stage >= 1 => l.key \in Keys /\ file = l.key
  /\ \A d \in Settled(r, l) : Carried(r, l, st, d)

\* The third layer of the invariant: a handler that has run by itself so far is
\* alone with the key file and the documents.
Undisturbed ==
  \A h \in Handlers \ overlapped :
    req[h].pc # "idle" =>
      /\ \A g \in Handlers : req[g].pc # "idle" => g = h
      /\ Alone(req[h], local[h], store, pem)

\* A step of a handler that is running.
LEMMA UndisturbedStep ==
  ASSUME Inv, Undisturbed, NEW h \in Handlers, req[h].pc # "idle", NEW f,
         req' = [req EXCEPT ![h] = f], overlapped' = overlapped,
         h \notin overlapped => Alone(f, local'[h], store', pem')
  PROVE  Undisturbed'
<1> SUFFICES ASSUME NEW g \in Handlers \ overlapped, req'[g].pc # "idle"
             PROVE  /\ \A k \in Handlers : req'[k].pc # "idle" => k = g
                    /\ Alone(req'[g], local'[g], store', pem')
  BY DEF Undisturbed
<1>1. \A k \in Handlers \ {h} : req'[k] = req[k]
  BY DEF Inv
<1>2. g = h
  BY <1>1 DEF Undisturbed
<1>3. req'[h] = f
  BY DEF Inv
<1> QED BY <1>1, <1>2, <1>3 DEF Undisturbed

\* A handler that begins has nothing settled.
LEMMA BeginsUndisturbed ==
  ASSUME Inv, Undisturbed, NEW h \in Handlers, NEW op \in Ops \cup {"resync"},
         NEW s \in Sessions(Items), NEW pc \in {"log", "load"}, op \in {"issue", "resync"} => pc = "load",
         req' = [req EXCEPT ![h] = Start(op, s, pc)], NEW l, l.stage = 0,
         local' = [local EXCEPT ![h] = l], Begins(h)
  PROVE  Undisturbed'
<1> DEFINE r == Start(op, s, pc)
<1>1. r.pc = pc /\ r.op = op /\ pc # "flush"
  <2>1. op \in Names /\ pc \in Names /\ pc # "flush"
    BY DEF Names
  <2> QED BY <2>1, StartType, NamesBasic
<1> HIDE DEF r
<1>2. req'[h] = r /\ local'[h] = l /\ \A k \in Handlers \ {h} : req'[k] = req[k]
  BY DEF Inv, r
<1>3. At(r) = pc
  BY <1>1 DEF At
<1>4. ASSUME NEW st, NEW file PROVE Alone(r, l, st, file)
  <2>1. Stages(r, l)
    BY <1>1, <1>3 DEF Stages
  <2>2. Settled(r, l) = {}
    BY <1>1, <1>3 DEF Settled, Ensured
  <2> QED BY <2>1, <2>2 DEF Alone
<1> SUFFICES ASSUME NEW g \in Handlers \ overlapped', req'[g].pc # "idle"
             PROVE  /\ \A k \in Handlers : req'[k].pc # "idle" => k = g
                    /\ Alone(req'[g], local'[g], store', pem')
  BY DEF Undisturbed
<1>5. overlapped' = IF Active = {} THEN overlapped \ {h} ELSE overlapped \cup Active \cup {h}
  BY DEF Begins
<1>6. g = h
  BY <1>2, <1>5 DEF Active
<1>7. \A k \in Handlers \ {h} : req[k].pc = "idle"
  BY <1>5, <1>6 DEF Active
<1> QED BY <1>2, <1>4, <1>6, <1>7

\* The handlers that begin.
LEMMA BeginningsUndisturbed ==
  ASSUME Inv, Undisturbed, NEW h \in Handlers,
         Approve(h) \/ Block(h) \/ Issue(h) \/ Resync(h) \/ \E c \in Credentials : Revoke(h, c)
  PROVE  Undisturbed'
<1> DEFINE p == store[Profile]
<1>1. p \in Profiles /\ [id |-> Profile, val |-> p] \in Items
  BY StoreFacts, ProfileIsItem
<1> HIDE DEF p
<1>2. NoLocals.stage = 0
  BY DEF NoLocals
<1>3. ASSUME NEW new \in Profiles
      PROVE  Assign(Fetch(NoSession, Profile, p), 1, new) \in Sessions(Items)
  <2>1. [id |-> Profile, val |-> new] \in Items
    BY ProfileIsItem
  <2> QED BY <1>1, <2>1, FirstObject
<1>4. CASE Approve(h)
  <2> DEFINE new == [p EXCEPT !.approved = TRUE, !.blocked = FALSE]
             s == Assign(Fetch(NoSession, Profile, p), 1, new)
  <2>1. new \in Profiles
    BY <1>1 DEF Profiles
  <2>2. req' = [req EXCEPT ![h] = Start("approve", s, "load")]
        /\ local' = [local EXCEPT ![h] = NoLocals] /\ Begins(h)
    BY <1>4 DEF Approve, p
  <2>3. "approve" \in Ops \cup {"resync"} /\ "approve" \notin {"issue", "resync"}
    BY DEF Ops
  <2> HIDE DEF new
  <2>4. s \in Sessions(Items)
    BY <1>3, <2>1
  <2> HIDE DEF s
  <2> QED BY <1>2, <2>2, <2>3, <2>4, BeginsUndisturbed
<1>5. CASE Block(h)
  <2> DEFINE new == [p EXCEPT !.blocked = TRUE]
             s == Assign(Fetch(NoSession, Profile, p), 1, new)
  <2>1. new \in Profiles
    BY <1>1 DEF Profiles
  <2>2. req' = [req EXCEPT ![h] = Start("block", s, "log")]
        /\ local' = [local EXCEPT ![h] = NoLocals] /\ Begins(h)
    BY <1>5 DEF Block, p
  <2>3. "block" \in Ops \cup {"resync"} /\ "block" \notin {"issue", "resync"}
    BY DEF Ops
  <2> HIDE DEF new
  <2>4. s \in Sessions(Items)
    BY <1>3, <2>1
  <2> HIDE DEF s
  <2> QED BY <1>2, <2>2, <2>3, <2>4, BeginsUndisturbed
<1>6. CASE Issue(h)
  <2> DEFINE s == Fetch(NoSession, Profile, p)
  <2>1. s \in Sessions(Items)
    BY <1>1, NoSessionType, FetchType
  <2>2. req' = [req EXCEPT ![h] = Start("issue", s, "load")]
        /\ local' = [local EXCEPT ![h] = NoLocals] /\ Begins(h)
    BY <1>6 DEF Issue, p
  <2>3. "issue" \in Ops \cup {"resync"}
    BY DEF Ops
  <2> HIDE DEF s
  <2> QED BY <1>2, <2>1, <2>2, <2>3, BeginsUndisturbed
<1>7. CASE Resync(h)
  <2>1. NoSession \in Sessions(Items)
    BY NoSessionType
  <2>2. req' = [req EXCEPT ![h] = Start("resync", NoSession, "load")]
        /\ local' = [local EXCEPT ![h] = NoLocals] /\ Begins(h)
    BY <1>7 DEF Resync
  <2> QED BY <1>2, <2>1, <2>2, BeginsUndisturbed
<1>8. CASE \E c \in Credentials : Revoke(h, c)
  <2>1. PICK c \in Credentials : Revoke(h, c)
    BY <1>8
  <2> DEFINE v == store[c]
             new == [v EXCEPT !.status = "revoked"]
             s == Assign(Fetch(NoSession, c, v), 1, new)
             l == [NoLocals EXCEPT !.cred = c]
  <2>2. v \in Documents /\ new \in Documents
    <3>1. v \in Documents
      BY <2>1, StoreFacts DEF Revoke
    <3> QED BY <3>1 DEF Documents
  <2>3. req' = [req EXCEPT ![h] = Start("revoke", s, "log")]
        /\ local' = [local EXCEPT ![h] = l] /\ Begins(h)
    BY <2>1 DEF Revoke
  <2>4. s \in Sessions(Items)
    <3>1. [id |-> c, val |-> new] \in Items /\ [id |-> c, val |-> v] \in Items
      BY <2>2, DocumentIsItem
    <3> HIDE DEF v, new
    <3> QED BY <3>1, FirstObject
  <2>5. "revoke" \in Ops \cup {"resync"} /\ "revoke" \notin {"issue", "resync"}
    BY DEF Ops
  <2>6. l.stage = 0
    BY DEF NoLocals
  <2> HIDE DEF s, l
  <2> QED BY <2>3, <2>4, <2>5, <2>6, BeginsUndisturbed
<1> QED BY <1>4, <1>5, <1>6, <1>7, <1>8

\* A handler that runs by itself: what the layer says of it.
LEMMA AloneFacts ==
  ASSUME Inv, Undisturbed, NEW h \in Handlers, req[h].pc # "idle", h \notin overlapped
  PROVE  LET r == req[h]
             l == local[h]
         IN  /\ Stages(r, l) /\ (l.stage >= 1 => l.key \in Keys /\ pem = l.key)
             /\ \A d \in Settled(r, l) : Carried(r, l, store, d)
             /\ r \in Requests(Names, Items) /\ Control(r, l) /\ l \in Locals
             /\ l.stage \in 0..3 /\ l.stage \in Nat
BY HandlerFacts DEF Undisturbed, Alone, HandlerOK, Locals

\* A handler that goes on with a key: the one it had, unless it had none.
LEMMA KeyAlone ==
  ASSUME Inv, Undisturbed, NEW h \in Handlers, h \notin overlapped, req[h].pc \in {"load", "save"},
         NEW k \in Keys, WithKey(h, k, AfterKey(h)), UNCHANGED <<store, overlapped>>, pem' = k,
         local[h].stage >= 1 => k = local[h].key
  PROVE  Alone(req'[h], local'[h], store', pem')
<1> DEFINE r == req[h]
           l == local[h]
           pc == AfterKey(h)
           f == [r EXCEPT !.pc = pc]
           m == l.stage + 1
           e == [l EXCEPT !.key = k, !.stage = m]
<1>1. /\ Stages(r, l) /\ (l.stage >= 1 => l.key \in Keys /\ pem = l.key)
      /\ \A d \in Settled(r, l) : Carried(r, l, store, d)
      /\ r \in Requests(Names, Items) /\ Control(r, l) /\ l \in Locals
      /\ l.stage \in 0..3 /\ l.stage \in Nat
  BY AloneFacts
<1>2. r.pc # "flush" /\ At(r) = r.pc
  BY DEF At
<1>3. /\ r.op \in {"approve", "issue", "resync"} /\ l.stage \in 0..2
      /\ r.op = "resync" => l.stage \in 0..1
      /\ r.op = "approve" => l.stage = 0
      /\ l.stage >= 1 => r.pc = "load"
  BY <1>1, <1>2 DEF Control, Stages
<1>4. req'[h] = f /\ local'[h] = e /\ store' = store
  BY DEF WithKey, Inv
<1>5. r \in Shape(Names, Items)
  BY <1>1 DEF Requests
<1>6. f.pc = pc /\ f.op = r.op /\ f.session = r.session
  BY <1>5 DEF Shape
<1>7. pc \in {"resign", "sign", "ensure"}
  BY DEF AfterKey
<1>8. At(f) = pc
  BY <1>6, <1>7 DEF At
<1>9. ToStore(f) = ToStore(r)
  BY <1>2, <1>6, <1>7 DEF ToStore
<1>10. e.key = k /\ e.stage = m
  <2> HIDE DEF m
  <2> QED BY <1>1 DEF Locals
<1>11. m >= 1 /\ (m >= 2 => l.stage >= 1) /\ (pc \in {"resign", "sign"} => m >= 2)
  BY <1>3 DEF AfterKey
<1> HIDE DEF f, e, m, pc
<1>12. Stages(f, e)
  BY <1>7, <1>8, <1>10, <1>11 DEF Stages
<1>13. ASSUME NEW d \in Settled(f, e) PROVE Carried(f, e, store, d)
  <2>1. d = Profile /\ e.stage >= 2
    BY <1>7, <1>8, <1>13 DEF Settled, Ensured
  <2>2. l.stage >= 1 /\ r.pc = "load" /\ k = l.key
    BY <1>3, <1>10, <1>11, <2>1
  <2>3. Profile \in Settled(r, l)
    <3>1. Ensured(r, l)
      BY <1>2, <1>3, <2>2 DEF Ensured
    <3> QED BY <3>1 DEF Settled, Changing
  <2>4. Carried(r, l, store, Profile)
    BY <1>1, <2>3
  <2> QED BY <1>2, <1>6, <1>9, <1>10, <2>1, <2>2, <2>4 DEF Carried
<1>14. pem' = e.key /\ e.key \in Keys
  BY <1>10
<1> QED BY <1>4, <1>12, <1>13, <1>14 DEF Alone

\* The steps around the key file.
LEMMA KeysUndisturbed ==
  ASSUME Inv, Inv', Undisturbed, NEW h \in Handlers, LoadKey(h) \/ GenerateKey(h) \/ SaveKey(h)
  PROVE  Undisturbed'
<1> DEFINE r == req[h]
           l == local[h]
<1>1. r.pc \in {"load", "generate", "save"} /\ UNCHANGED <<store, overlapped>>
  BY DEF LoadKey, GenerateKey, SaveKey
<1>2. req' = [req EXCEPT ![h] = req'[h]]
  BY DEF LoadKey, GenerateKey, SaveKey, WithKey, Inv
<1>3. ASSUME h \notin overlapped PROVE Alone(req'[h], local'[h], store', pem')
  <2>1. /\ Stages(r, l) /\ (l.stage >= 1 => l.key \in Keys /\ pem = l.key)
        /\ r \in Requests(Names, Items) /\ Control(r, l) /\ l \in Locals
        /\ l.stage \in 0..3 /\ l.stage \in Nat
    BY <1>1, <1>3, AloneFacts
  <2>2. At(r) = r.pc
    BY <1>1 DEF At
  <2>3. CASE LoadKey(h) /\ pem \in Keys /\ WithKey(h, pem, AfterKey(h))
    <3>1. pem' = pem /\ r.pc = "load"
      BY <2>3 DEF LoadKey
    <3> QED BY <1>1, <1>3, <2>1, <2>3, <3>1, KeyAlone
  <2>4. CASE SaveKey(h)
    <3>1. r.pc = "save" /\ l.key \in Keys
      BY <2>1, <2>2, <2>4 DEF SaveKey, Control
    <3>2. pem' = l.key /\ WithKey(h, l.key, AfterKey(h))
      BY <2>4 DEF SaveKey
    <3> QED BY <1>1, <1>3, <3>1, <3>2, KeyAlone
  <2>5. CASE \/ LoadKey(h) /\ pem = NoKey /\ req' = [req EXCEPT ![h].pc = "generate"] /\ local' = local
             \/ GenerateKey(h)
    <3> DEFINE f == req'[h]
               e == local'[h]
    <3>1. \E pc \in {"generate", "save"} : f = [r EXCEPT !.pc = pc]
      BY <2>5 DEF GenerateKey, Inv
    <3>2. r \in Shape(Names, Items)
      BY <2>1 DEF Requests
    <3>3. f.pc \in {"generate", "save"} /\ At(f) = f.pc
      <4>1. f.pc \in {"generate", "save"}
        BY <3>1, <3>2 DEF Shape
      <4> QED BY <4>1 DEF At
    <3>4. l.stage = 0
      <4>1. NoKey \notin Keys
        BY KeysAssumption DEF NoKey
      <4>2. l.stage >= 1 => r.pc = "load" /\ pem \in Keys
        BY <1>1, <2>1, <2>2 DEF Stages
      <4>3. ~(l.stage >= 1)
        BY <2>5, <4>1, <4>2 DEF GenerateKey
      <4> QED BY <2>1, <4>3
    <3>5. e.stage = l.stage
      <4>1. local' = local \/ \E k : local' = [local EXCEPT ![h].key = k]
        BY <2>5 DEF GenerateKey
      <4>2. CASE local' = local
        BY <4>2
      <4>3. CASE \E k : local' = [local EXCEPT ![h].key = k]
        <5>1. PICK k : local' = [local EXCEPT ![h].key = k]
          BY <4>3
        <5>2. e = [l EXCEPT !.key = k]
          BY <5>1 DEF Inv
        <5> QED BY <2>1, <5>2 DEF Locals
      <4> QED BY <4>1, <4>2, <4>3
    <3> HIDE DEF f, e
    <3>6. Stages(f, e) /\ Settled(f, e) = {}
      BY <3>3, <3>4, <3>5 DEF Stages, Settled, Ensured
    <3>7. Alone(f, e, store', pem')
      BY <3>4, <3>5, <3>6 DEF Alone
    <3> QED BY <3>7 DEF f, e
  <2> QED BY <2>3, <2>4, <2>5 DEF LoadKey
<1> QED BY <1>1, <1>2, <1>3, UndisturbedStep

\* ensure_issuer_public_key leaves the profile with the handler's key, or about
\* to have it.
LEMMA EnsureUndisturbed ==
  ASSUME Inv, Inv', Current, Undisturbed, NEW h \in Handlers, EnsureKey(h)
  PROVE  Undisturbed'
<1> DEFINE r == req[h]
           l == local[h]
           f == req'[h]
<1>1. /\ r.pc = "ensure" /\ UNCHANGED <<store, overlapped, pem>> /\ local'[h] = l
      /\ req' = [req EXCEPT ![h] = f]
  BY DEF EnsureKey, Inv
<1>2. ASSUME h \notin overlapped PROVE Alone(f, l, store, pem)
  <2>1. /\ Stages(r, l) /\ (l.stage >= 1 => l.key \in Keys /\ pem = l.key)
        /\ r \in Requests(Names, Items) /\ Control(r, l)
    BY <1>1, <1>2, AloneFacts
  <2>2. Ensuring(r, l, store, f)
    BY EnsureFacts
  <2>3. /\ f.op = r.op /\ At(f) = IF r.op = "approve" THEN "log" ELSE "load"
        /\ \/ store[Profile].key = l.key
           \/ f.pc = "flush" /\ \E i \in DOMAIN f.writing : f.session.objs[f.writing[i]].id = Profile
    BY <2>2 DEF Ensuring
  <2>4. PICK n : /\ ToStore(f) \subseteq {n}
                 /\ f.session.objs[n].val = [store[Profile] EXCEPT !.key = l.key]
    BY <2>2 DEF Ensuring
  <2>5. f.session.objs[n].val.key = l.key
    <3>1. store[Profile] \in Profiles
      BY StoreFacts
    <3> QED BY <2>4, <3>1 DEF Profiles
  <2> HIDE DEF f
  <2>6. Carried(f, l, store, Profile)
    BY <2>3, <2>4, <2>5 DEF Carried
  <2>7. Settled(f, l) \subseteq {Profile}
    BY <2>3 DEF Settled
  <2>8. Stages(f, l)
    BY <2>3 DEF Stages
  <2> QED BY <2>1, <2>6, <2>7, <2>8 DEF Alone
<1> HIDE DEF f, l
<1> QED BY <1>1, <1>2, UndisturbedStep

\* What signing leaves carries the handler's key.
LEMMA SignUndisturbed ==
  ASSUME Inv, Inv', Current, Undisturbed, NEW h \in Handlers, Sign(h)
  PROVE  Undisturbed'
<1> DEFINE r == req[h]
           l == local[h]
           key == local[h].key
           doc == [status |-> "active", key |-> key]
           n == Len(r.session.objs) + 1
<1>1. PICK c \in Credentials :
        /\ store[c] = Absent
        /\ req' = [req EXCEPT ![h] = Flush([r EXCEPT !.session = AddNew(r.session, c, doc)], "log")]
        /\ local' = [local EXCEPT ![h].cred = c]
  BY DEF Sign
<1> DEFINE o == [id |-> c, val |-> doc]
           s == AddNew(r.session, c, doc)
           f == Flush([r EXCEPT !.session = s], "log")
           e == [l EXCEPT !.cred = c]
<1>2. r.pc = "sign" /\ r.pc \in Middle /\ UNCHANGED <<store, overlapped, pem>> /\ At(r) = "sign"
  BY DEF Sign, Middle, At
<1>3. /\ r \in Requests(Names, Items) /\ r.session.pending = <<>> /\ key \in Keys
      /\ ToStore(r) = Writable(r.session) /\ r.op = "issue"
  BY <1>2, MiddleFacts DEF Control
<1>4. Goes(r, s, "log", f) /\ Signing(r, key, c, s, n, f)
  <2> HIDE DEF r, key
  <2> QED BY <1>2, <1>3, SignFacts
<1>5. req' = [req EXCEPT ![h] = f] /\ local'[h] = e
  BY <1>1 DEF Inv
<1>6. e.cred = c /\ e.key = l.key /\ e.stage = l.stage
  BY HandlerFacts DEF Locals
<1> HIDE DEF f, s, n, e
<1>7. /\ s \in Sessions(Items) /\ f.session = s /\ f.op = r.op /\ At(f) = "log"
      /\ f.pc = "flush" /\ f.writing = Writes(s) /\ s.objs[n] = o
  BY <1>4 DEF Signing
<1>8. \A m \in ToStore(f) : \/ m \in ToStore(r) /\ f.session.objs[m] = r.session.objs[m]
                            \/ f.session.objs[m] = o
  <2>1. \A m \in ToStore(f) : m \in Writable(s)
    BY <1>7, WritesExactly DEF ToStore
  <2>2. ToStore(r) \subseteq DOMAIN r.session.objs
    BY <1>3, StoresHeld
  <2> QED BY <1>3, <1>4, <1>7, <2>1, <2>2 DEF Signing
<1>9. \A m \in ToStore(r) : r.session.objs[m].id = Profile
  BY <1>2 DEF Current, CurrentOK, OnlyProfile
<1>10. c # Profile /\ o.id = c /\ o.val.key = l.key
  BY CredentialsAssumption DEF Profile
<1>11. \E i \in DOMAIN f.writing : f.session.objs[f.writing[i]].id = c
  BY <1>4, <1>7, <1>10 DEF Signing
<1> HIDE DEF o
<1>12. ASSUME h \notin overlapped PROVE Alone(f, e, store, pem)
  <2>1. /\ Stages(r, l) /\ (l.stage >= 1 => l.key \in Keys /\ pem = l.key)
        /\ \A d \in Settled(r, l) : Carried(r, l, store, d)
    BY <1>2, <1>12, AloneFacts
  <2>2. l.stage >= 2
    BY <1>2, <1>3, <2>1 DEF Stages
  <2>3. Profile \in Settled(r, l)
    BY <2>2 DEF Settled, Changing, Ensured
  <2>4. Carried(r, l, store, Profile)
    BY <2>1, <2>3
  <2>5. Carried(f, e, store, Profile)
    BY <1>2, <1>3, <1>6, <1>8, <1>10, <2>4 DEF Carried
  <2>6. Carried(f, e, store, c)
    BY <1>6, <1>7, <1>8, <1>9, <1>10, <1>11 DEF Carried
  <2>7. Settled(f, e) \subseteq {Profile, c}
    BY <1>3, <1>6, <1>7 DEF Settled
  <2>8. Stages(f, e)
    BY <1>3, <1>6, <1>7, <2>2 DEF Stages
  <2> QED BY <1>6, <2>1, <2>5, <2>6, <2>7, <2>8 DEF Alone
<1> QED BY <1>2, <1>5, <1>12, UndisturbedStep

\* Signing again leaves every credential with the handler's key.
LEMMA ResignUndisturbed ==
  ASSUME Inv, Inv', Current, Undisturbed, NEW h \in Handlers, Resign(h)
  PROVE  Undisturbed'
<1> DEFINE r == req[h]
           l == local[h]
<1>1. PICK found \in SetToSeqs(ToResign) :
        req' = [req EXCEPT ![h] =
                  Flush([r EXCEPT !.session = AllResigned(r.session, found, l.key)], "answer")]
  BY DEF Resign
<1> DEFINE s == AllResigned(r.session, found, l.key)
           f == Flush([r EXCEPT !.session = s], "answer")
<1>2. /\ r.pc = "resign" /\ r.pc \in Middle /\ UNCHANGED <<store, overlapped, pem>>
      /\ local' = local /\ At(r) = "resign"
  BY DEF Resign, Middle, At
<1>3. /\ r \in Requests(Names, Items) /\ r.session.pending = <<>> /\ l.key \in Keys
      /\ ToStore(r) = Writable(r.session) /\ r.op = "resync"
  BY <1>2, MiddleFacts DEF Control
<1>4. req' = [req EXCEPT ![h] = f]
  BY <1>1
<1>5. Goes(r, s, "answer", f) /\ Resigning(r, l.key, s, f)
  <2> HIDE DEF r, l
  <2> QED BY <1>2, <1>3, ResignFacts
<1> HIDE DEF f, s
<1>6. /\ s \in Sessions(Items) /\ f.session = s /\ f.op = r.op /\ At(f) = "answer"
      /\ \/ f.pc = "answer" /\ Writes(s) = <<>>
         \/ f.pc = "flush" /\ f.writing = Writes(s)
  BY <1>5 DEF Resigning
<1>7. \A m \in ToStore(f) : m \in Writable(s)
  BY <1>6, WritesExactly DEF ToStore
<1>8. \A m \in ToStore(f) : \/ m \in ToStore(r) /\ f.session.objs[m] = r.session.objs[m]
                            \/ \E c \in ToResign : f.session.objs[m] = Again(c, l.key)
  BY <1>3, <1>5, <1>6, <1>7 DEF Resigning
<1>9. \A m \in ToStore(r) : r.session.objs[m].id = Profile
  BY <1>2 DEF Current, CurrentOK, OnlyProfile
<1>10. ASSUME NEW c \in ToResign
       PROVE  c \in Credentials /\ Again(c, l.key).id = c /\ Again(c, l.key).val.key = l.key
  <2>1. c \in Credentials /\ store[c] \in Documents
    BY StoreFacts DEF ToResign
  <2> QED BY <2>1 DEF Again, Resigned, Documents
<1>11. Profile \notin Credentials
  BY CredentialsAssumption DEF Profile
<1>12. ASSUME h \notin overlapped PROVE Alone(f, l, store, pem)
  <2>1. /\ Stages(r, l) /\ (l.stage >= 1 => l.key \in Keys /\ pem = l.key)
        /\ \A d \in Settled(r, l) : Carried(r, l, store, d)
    BY <1>2, <1>12, AloneFacts
  <2>2. l.stage >= 2
    BY <1>2, <1>3, <2>1 DEF Stages
  <2>3. Profile \in Settled(r, l)
    BY <2>2 DEF Settled, Changing, Ensured
  <2>4. Carried(r, l, store, Profile)
    BY <2>1, <2>3
  <2>5. Carried(f, l, store, Profile)
    BY <1>2, <1>8, <1>10, <1>11, <2>4 DEF Carried
  <2>6. ASSUME NEW c \in Credentials PROVE Carried(f, l, store, c)
    <3>1. \A m \in ToStore(f) : f.session.objs[m].id = c => f.session.objs[m].val.key = l.key
      BY <1>8, <1>9, <1>10, <1>11
    <3>2. CASE store[c] = Absent
      BY <1>3, <1>6, <3>1, <3>2 DEF Carried
    <3>3. CASE store[c] # Absent
      <4>1. \/ store[c].key = l.key
            \/ \E i \in DOMAIN Writes(s) : s.objs[Writes(s)[i]].id = c
        BY <1>5, <3>3 DEF Resigning, ToResign
      <4> QED BY <1>6, <3>1, <4>1 DEF Carried
    <3> QED BY <3>2, <3>3
  <2>7. Settled(f, l) \subseteq {Profile} \cup Credentials
    BY DEF Settled, Changing
  <2>8. Stages(f, l)
    BY <1>3, <1>6, <2>2 DEF Stages
  <2> QED BY <2>1, <2>5, <2>6, <2>7, <2>8 DEF Alone
<1> QED BY <1>2, <1>4, <1>12, UndisturbedStep

\* log_event adds no profile and no credential.
LEMMA LogUndisturbed ==
  ASSUME Inv, Inv', Undisturbed, NEW h \in Handlers, Log(h)
  PROVE  Undisturbed'
<1> DEFINE r == req[h]
           l == local[h]
           f == req'[h]
<1>1. /\ r.pc = "log" /\ UNCHANGED <<store, overlapped, pem>> /\ local'[h] = l
      /\ req' = [req EXCEPT ![h] = f] /\ At(r) = "log"
  BY DEF Log, Inv, At
<1>2. Logging(r, l, f)
  BY LogFacts
<1>3. f.op = r.op /\ At(f) = "answer"
  BY <1>2 DEF Logging, At
<1>4. \A m \in ToStore(f) : \/ m \in ToStore(r) /\ f.session.objs[m] = r.session.objs[m]
                            \/ f.session.objs[m].id \in {"audit", "claims"}
  BY <1>2 DEF Logging, Adds
<1> HIDE DEF f
<1>5. ASSUME h \notin overlapped PROVE Alone(f, l, store, pem)
  <2>1. /\ Stages(r, l) /\ (l.stage >= 1 => l.key \in Keys /\ pem = l.key)
        /\ \A d \in Settled(r, l) : Carried(r, l, store, d)
        /\ Control(r, l)
    BY <1>1, <1>5, AloneFacts
  <2>2. r.op # "resync"
    BY <1>1, <2>1 DEF Control, Ops
  <2>3. Settled(f, l) \subseteq Settled(r, l)
    BY <1>1, <1>3, <2>2 DEF Settled, Ensured
  <2>4. ASSUME NEW d \in Settled(f, l) PROVE Carried(f, l, store, d)
    <3>1. Carried(r, l, store, d) /\ d \notin {"audit", "claims"}
      <4>1. d \in Changing /\ d \in Settled(r, l)
        BY <2>3 DEF Settled
      <4> QED BY <2>1, <4>1, CredentialsAssumption DEF Changing, Profile
    <3> QED BY <1>1, <1>3, <1>4, <3>1 DEF Carried
  <2>5. Stages(f, l)
    BY <1>1, <1>3, <2>1, <2>2 DEF Stages
  <2> QED BY <2>1, <2>4, <2>5 DEF Alone
<1> HIDE DEF l
<1> QED BY <1>1, <1>5, UndisturbedStep

\* Once it is stored, a document carries the key of the object stored.
LEMMA WriteUndisturbed ==
  ASSUME Inv, Inv', Undisturbed, NEW h \in Handlers, Write(h)
  PROVE  Undisturbed'
<1> DEFINE r == req[h]
           l == local[h]
           o == NextObject(r)
           f == AfterWrite(r)
<1>1. /\ r.pc = "flush" /\ req' = [req EXCEPT ![h] = f]
      /\ ToStore(f) \subseteq ToStore(r) /\ f.session.objs = r.session.objs
      /\ o.id \in Changing => store' = [store EXCEPT ![o.id] = o.val]
      /\ o.id \notin Changing => store' = store
  BY WriteFacts
<1>2. PICK k \in ToStore(r) : o = r.session.objs[k]
  BY WriteFacts
<1>3. UNCHANGED <<overlapped, pem, local>> /\ DOMAIN store = Changing
  BY StoreFacts DEF Write, Changing
<1>4. r \in Requests(Names, Items) /\ r.writing \in Seq(Nat)
  BY HandlerFacts DEF HandlerOK, Shape
<1>5. /\ f.op = r.op
      /\ \/ /\ f.pc = "flush" /\ f.then = r.then /\ f.writing = Tail(r.writing)
            /\ f.session = r.session /\ Len(r.writing) > 1
         \/ /\ f.pc = r.then /\ r.then # "flush" /\ Len(r.writing) = 1
            /\ f.session.pending = <<>> /\ f.writing = <<>>
  BY <1>1, <1>4, AfterWriteType, NamesBasic
<1>6. o = r.session.objs[r.writing[1]]
  BY <1>1, <1>4, NextObjectType, NamesBasic
<1> HIDE DEF o, f
<1>7. At(f) = At(r)
  BY <1>1, <1>5 DEF At
<1>8. Settled(f, l) = Settled(r, l) /\ (Stages(r, l) => Stages(f, l))
  BY <1>5, <1>7 DEF Settled, Ensured, Stages
<1>9. /\ o.id \in Changing => store'[o.id] = o.val
      /\ \A d \in Changing : d # o.id => store'[d] = store[d]
  BY <1>1, <1>3
<1>10. ASSUME NEW d, NEW j \in DOMAIN r.writing, r.session.objs[r.writing[j]].id = d
       PROVE  d = o.id \/ (f.pc = "flush" /\ \E i \in DOMAIN f.writing : r.session.objs[f.writing[i]].id = d)
  <2>1. CASE j = 1
    BY <1>6, <1>10, <2>1
  <2>2. CASE j # 1
    <3>1. Len(r.writing) # 1
      BY <1>4, <2>2
    <3>2. f.pc = "flush" /\ f.writing = Tail(r.writing) /\ Len(r.writing) > 1
      BY <1>5, <3>1
    <3>3. j - 1 \in DOMAIN f.writing /\ f.writing[j - 1] = r.writing[j]
      BY <1>4, <2>2, <3>2, TailFacts
    <3> QED BY <1>10, <3>2, <3>3
  <2> QED BY <2>1, <2>2
<1>11. ASSUME h \notin overlapped PROVE Alone(f, l, store', pem)
  <2>1. /\ Stages(r, l) /\ (l.stage >= 1 => l.key \in Keys /\ pem = l.key)
        /\ \A d \in Settled(r, l) : Carried(r, l, store, d)
    BY <1>1, <1>11, AloneFacts
  <2>2. ASSUME NEW d \in Settled(f, l) PROVE Carried(f, l, store', d)
    <3>1. Carried(r, l, store, d) /\ d \in Changing
      BY <1>8, <2>1 DEF Settled
    <3>2. \A n \in ToStore(f) : f.session.objs[n].id = d => f.session.objs[n].val.key = l.key
      BY <1>1, <3>1 DEF Carried
    <3>3. CASE d = o.id
      <4>1. o.val.key = l.key
        BY <1>2, <3>1, <3>3 DEF Carried
      <4>2. store'[d].key = l.key
        BY <1>9, <3>1, <3>3, <4>1
      <4> QED BY <3>2, <4>2 DEF Carried
    <3>4. CASE d # o.id
      <4>1. store'[d] = store[d]
        BY <1>9, <3>1, <3>4
      <4>2. CASE \E j \in DOMAIN r.writing : r.session.objs[r.writing[j]].id = d
        <5>1. f.pc = "flush" /\ \E i \in DOMAIN f.writing : f.session.objs[f.writing[i]].id = d
          BY <1>1, <1>10, <3>4, <4>2
        <5> QED BY <3>2, <5>1 DEF Carried
      <4>3. CASE ~\E j \in DOMAIN r.writing : r.session.objs[r.writing[j]].id = d
        BY <1>5, <3>1, <3>2, <4>1, <4>3 DEF Carried
      <4> QED BY <4>2, <4>3
    <3> QED BY <3>3, <3>4
  <2> QED BY <1>8, <2>1, <2>2 DEF Alone
<1>12. local'[h] = l /\ pem' = pem /\ overlapped' = overlapped
  BY <1>3
<1> HIDE DEF l
<1> QED BY <1>1, <1>11, <1>12, UndisturbedStep

\* Every step preserves the third layer.
LEMMA NextUndisturbed == Inv /\ Inv' /\ Current /\ Undisturbed /\ [Next]_vars => Undisturbed'
<1> SUFFICES ASSUME Inv, Inv', Current, Undisturbed, [Next]_vars PROVE Undisturbed'
  OBVIOUS
<1>1. ASSUME NEW h \in Handlers, Answer(h) \/ Fail(h) PROVE Undisturbed'
  <2>1. req' = [req EXCEPT ![h] = Idle] /\ UNCHANGED <<store, local, overlapped, pem>>
    BY <1>1 DEF Answer, Fail
  <2>2. Idle.pc = "idle"
    BY DEF Idle
  <2> QED BY <2>1, <2>2 DEF Undisturbed, Inv
<1>2. CASE Redeploy
  <2>1. req' = [h \in Handlers |-> Idle]
    BY <1>2 DEF Redeploy
  <2>2. Idle.pc = "idle"
    BY DEF Idle
  <2> QED BY <2>1, <2>2 DEF Undisturbed
<1>3. CASE UNCHANGED vars
  BY <1>3 DEF vars, Undisturbed
<1> QED BY <1>1, <1>2, <1>3, BeginningsUndisturbed, ResignUndisturbed, KeysUndisturbed,
           EnsureUndisturbed, SignUndisturbed, LogUndisturbed, WriteUndisturbed DEF Next

\* The three layers hold in every reachable state.
THEOREM Layers == Spec => [](Inv /\ Current /\ Undisturbed)
<1>1. Init => Undisturbed
  <2> SUFFICES ASSUME Init PROVE Undisturbed
    OBVIOUS
  <2>1. req = [h \in Handlers |-> Idle] /\ Idle.pc = "idle"
    BY DEF Init, Idle
  <2> QED BY <2>1 DEF Undisturbed
<1> QED BY <1>1, NextUndisturbed, Invariance, CopiesCurrent, PTL DEF Spec

\* A handler that has answered by itself has left what it settled with one key.
LEMMA UndisturbedImplies == Inv /\ Undisturbed => FreshCredentialVerifies /\ ResyncRepairs
<1> SUFFICES ASSUME Inv, Undisturbed, NEW h \in Handlers \ overlapped, req[h].pc = "answer"
             PROVE  /\ req[h].op = "issue" => store[local[h].cred].key = store[Profile].key
                    /\ req[h].op = "resync" =>
                         \A c \in Credentials : store[c] # Absent => store[c].key = store[Profile].key
  BY DEF FreshCredentialVerifies, ResyncRepairs
<1> DEFINE r == req[h]
           l == local[h]
<1>1. /\ Stages(r, l) /\ At(r) = "answer"
      /\ \A d \in Settled(r, l) : Carried(r, l, store, d)
  BY AloneFacts DEF At
<1>2. Profile \notin Credentials
  BY CredentialsAssumption DEF Profile
<1>3. ASSUME l.stage >= 2 PROVE store[Profile].key = l.key
  <2>1. Profile \in Settled(r, l)
    BY <1>3 DEF Settled, Changing, Ensured
  <2> QED BY <1>1, <1>2, <2>1 DEF Carried
<1>4. CASE r.op = "issue"
  <2>1. l.stage >= 2 /\ l.cred \in Credentials
    BY <1>1, <1>4 DEF Stages
  <2>2. l.cred \in Settled(r, l)
    BY <1>1, <1>4, <2>1 DEF Settled, Changing
  <2>3. store[l.cred].key = l.key
    BY <1>1, <1>4, <2>2 DEF Carried
  <2> QED BY <1>3, <1>4, <2>1, <2>3
<1>5. CASE r.op = "resync"
  <2>1. l.stage >= 2
    BY <1>1, <1>5 DEF Stages
  <2>2. ASSUME NEW c \in Credentials, store[c] # Absent PROVE store[c].key = l.key
    <3>1. c \in Settled(r, l)
      BY <1>1, <1>5 DEF Settled, Changing
    <3> QED BY <1>1, <2>2, <3>1 DEF Carried
  <2> QED BY <1>3, <1>5, <2>1, <2>2
<1> QED BY <1>4, <1>5

\* issue_credential, line 50: a credential that was issued while no other handler
\* ran verifies when it is handed out, for any number of keys and however often
\* the key file was lost.
THEOREM FreshVerifies == Spec => []FreshCredentialVerifies
BY Layers, UndisturbedImplies, PTL

\* README.md, line 83: a resync that runs by itself leaves every credential of the
\* issuer verifying, for any number of credentials.
THEOREM Repairs == Spec => []ResyncRepairs
BY Layers, UndisturbedImplies, PTL

-----------------------------------------------------------------------------
(* Without loss of the key file *)

\* Object o, if it is a document, carries one of keys ks, and is the profile or one
\* of credentials cs.
Carries(o, ks, cs) ==
  /\ o.id = Profile => o.val.key \in ks
  /\ o.id \in Credentials => o.val.key \in ks /\ o.id \in cs

\* So does everything that is stored, and everything that a handler may store.
Sealed(ks, cs) ==
  /\ store[Profile].key \in ks
  /\ \A c \in Credentials : store[c] # Absent => store[c].key \in ks /\ c \in cs
  /\ \A h \in Handlers : \A n \in ToStore(req[h]) : Carries(req[h].session.objs[n], ks, cs)

\* The key file and all documents have one key; or the issuer was never approved,
\* and nothing is issued.
OneKey ==
  \/ \E k \in Keys :
       /\ pem = k /\ Sealed({k}, Credentials)
       /\ \A h \in Handlers : /\ local[h].key \in {NoKey, k}
                              /\ At(req[h]) \notin {"generate", "save"}
  \/ /\ ~store[Profile].approved /\ Sealed(Keys \cup {NoKey}, {})
     /\ \A h \in Handlers : req[h].op # "issue"

\* A step that stores nothing and leaves its handler such objects.
LEMMA SealedStep ==
  ASSUME Inv, NEW ks, NEW cs, Sealed(ks, cs), NEW h \in Handlers, NEW f,
         req' = [req EXCEPT ![h] = f], store' = store,
         \A n \in ToStore(f) : Carries(f.session.objs[n], ks, cs)
  PROVE  Sealed(ks, cs)'
<1>1. \A g \in Handlers : IF g = h THEN req'[g] = f ELSE req'[g] = req[g]
  BY DEF Inv
<1> QED BY <1>1 DEF Sealed

\* A handler that begins holds what it has just read, with another mark.
LEMMA BeginsSealed ==
  ASSUME Inv, NEW ks, NEW cs, Sealed(ks, cs), NEW h \in Handlers,
         Approve(h) \/ Block(h) \/ Issue(h) \/ Resync(h) \/ \E c \in Credentials : Revoke(h, c)
  PROVE  /\ Sealed(ks, cs)'
         /\ At(req'[h]) \in {"load", "log"}
         /\ req'[h].op = "issue" => Issue(h)
<1> DEFINE p == store[Profile]
<1>1. p \in Profiles /\ [id |-> Profile, val |-> p] \in Items /\ p.key \in ks
  BY StoreFacts, ProfileIsItem DEF Sealed
<1> HIDE DEF p
<1>2. ASSUME NEW op \in Ops \cup {"resync"}, NEW s \in Sessions(Items), NEW pc \in {"log", "load"},
             \A n \in DOMAIN s.objs : Carries(s.objs[n], ks, cs),
             req' = [req EXCEPT ![h] = Start(op, s, pc)], store' = store
      PROVE  Sealed(ks, cs)' /\ At(req'[h]) \in {"load", "log"} /\ req'[h].op = op
  <2> DEFINE r == Start(op, s, pc)
  <2>1. r.session = s /\ r.pc = pc /\ r.op = op /\ r \in Requests(Names, Items)
    <3>1. op \in Names /\ pc \in Names /\ pc # "flush" /\ s \in Sessions(Items)
      BY DEF Names
    <3> QED BY ONLY <3>1, StartType, NamesBasic DEF r
  <2>2. req' = [req EXCEPT ![h] = r] /\ req'[h] = r
    BY <1>2 DEF Inv
  <2> HIDE DEF r
  <2>3. \A n \in ToStore(r) : Carries(r.session.objs[n], ks, cs)
    BY <1>2, <2>1, StoresHeld
  <2> QED BY <1>2, <2>1, <2>2, <2>3, SealedStep DEF At
<1>3. ASSUME NEW new \in Profiles, new.key = p.key, NEW s, s = Assign(Fetch(NoSession, Profile, p), 1, new)
      PROVE  s \in Sessions(Items) /\ \A n \in DOMAIN s.objs : Carries(s.objs[n], ks, cs)
  <2> DEFINE o == [id |-> Profile, val |-> new]
  <2>1. o \in Items
    BY ProfileIsItem
  <2>2. s \in Sessions(Items) /\ \A n \in DOMAIN s.objs : s.objs[n] = o
    BY <1>1, <1>3, <2>1, FirstObject
  <2>3. Carries(o, ks, cs)
    BY <1>1, <1>3, CredentialsAssumption DEF Carries, Profile
  <2> HIDE DEF o
  <2> QED BY <2>2, <2>3
<1>4. CASE Approve(h)
  <2> DEFINE new == [p EXCEPT !.approved = TRUE, !.blocked = FALSE]
             s == Assign(Fetch(NoSession, Profile, p), 1, new)
  <2>1. new \in Profiles /\ new.key = p.key
    BY <1>1 DEF Profiles
  <2>2. req' = [req EXCEPT ![h] = Start("approve", s, "load")] /\ store' = store
    BY <1>4 DEF Approve, p
  <2> HIDE DEF new
  <2>3. s \in Sessions(Items) /\ \A n \in DOMAIN s.objs : Carries(s.objs[n], ks, cs)
    BY <1>3, <2>1
  <2>4. "approve" \in Ops \cup {"resync"}
    BY DEF Ops
  <2> HIDE DEF s
  <2> QED BY <1>2, <2>2, <2>3, <2>4
<1>5. CASE Block(h)
  <2> DEFINE new == [p EXCEPT !.blocked = TRUE]
             s == Assign(Fetch(NoSession, Profile, p), 1, new)
  <2>1. new \in Profiles /\ new.key = p.key
    BY <1>1 DEF Profiles
  <2>2. req' = [req EXCEPT ![h] = Start("block", s, "log")] /\ store' = store
    BY <1>5 DEF Block, p
  <2> HIDE DEF new
  <2>3. s \in Sessions(Items) /\ \A n \in DOMAIN s.objs : Carries(s.objs[n], ks, cs)
    BY <1>3, <2>1
  <2>4. "block" \in Ops \cup {"resync"}
    BY DEF Ops
  <2> HIDE DEF s
  <2> QED BY <1>2, <2>2, <2>3, <2>4
<1>6. CASE Issue(h)
  <2> DEFINE s == Fetch(NoSession, Profile, p)
             o == [id |-> Profile, val |-> p]
  <2>1. s \in Sessions(Items) /\ s.objs = Append(NoSession.objs, o)
    BY <1>1, NoSessionType, FetchType
  <2>2. Carries(o, ks, cs)
    BY <1>1, CredentialsAssumption DEF Carries, Profile
  <2>3. req' = [req EXCEPT ![h] = Start("issue", s, "load")] /\ store' = store
    BY <1>6 DEF Issue, p
  <2>4. "issue" \in Ops \cup {"resync"}
    BY DEF Ops
  <2> HIDE DEF s, o
  <2>5. \A n \in DOMAIN s.objs : Carries(s.objs[n], ks, cs)
    BY <2>1, <2>2 DEF NoSession
  <2> QED BY <1>2, <1>6, <2>1, <2>3, <2>4, <2>5
<1>7. CASE Resync(h)
  <2> DEFINE s == NoSession
  <2>1. s \in Sessions(Items) /\ \A n \in DOMAIN s.objs : Carries(s.objs[n], ks, cs)
    BY NoSessionType DEF NoSession
  <2>2. req' = [req EXCEPT ![h] = Start("resync", s, "load")] /\ store' = store
    BY <1>7 DEF Resync
  <2>3. "resync" \in Ops \cup {"resync"}
    OBVIOUS
  <2> HIDE DEF s
  <2> QED BY <1>2, <2>1, <2>2, <2>3
<1>8. CASE \E c \in Credentials : Revoke(h, c)
  <2>1. PICK c \in Credentials : Revoke(h, c)
    BY <1>8
  <2> DEFINE v == store[c]
             new == [v EXCEPT !.status = "revoked"]
             s == Assign(Fetch(NoSession, c, v), 1, new)
             o == [id |-> c, val |-> new]
  <2>2. v \in Documents /\ new \in Documents /\ new.key = v.key /\ v.key \in ks /\ c \in cs
    <3>1. v # Absent
      BY <2>1 DEF Revoke
    <3>2. v \in Documents
      BY <3>1, StoreFacts
    <3> QED BY <3>1, <3>2 DEF Documents, Sealed
  <2>3. o \in Items /\ [id |-> c, val |-> v] \in Items
    BY <2>2, DocumentIsItem
  <2>4. req' = [req EXCEPT ![h] = Start("revoke", s, "log")] /\ store' = store
    BY <2>1 DEF Revoke
  <2>5. Carries(o, ks, cs)
    BY <2>2, CredentialsAssumption DEF Carries, Profile
  <2>6. s \in Sessions(Items) /\ \A n \in DOMAIN s.objs : s.objs[n] = o
    <3> HIDE DEF v, new
    <3> QED BY <2>3, FirstObject
  <2>7. "revoke" \in Ops \cup {"resync"}
    BY DEF Ops
  <2> HIDE DEF s, o
  <2> QED BY <1>2, <2>4, <2>5, <2>6, <2>7
<1> QED BY <1>4, <1>5, <1>6, <1>7, <1>8

\* A handler in the middle goes on without touching its session.
LEMMA MoveSealed ==
  ASSUME Inv, NEW ks, NEW cs, Sealed(ks, cs), NEW h \in Handlers, req[h].pc \in Middle, NEW pc \in Middle,
         req' = [req EXCEPT ![h].pc = pc], store' = store
  PROVE  Sealed(ks, cs)' /\ At(req'[h]) = pc /\ req'[h].op = req[h].op
<1> DEFINE r == req[h]
           f == [r EXCEPT !.pc = pc]
<1>1. r \in Shape(Names, Items) /\ r.pc # "flush" /\ pc # "flush"
  BY HandlerFacts DEF Middle
<1>2. f.session = r.session /\ f.op = r.op /\ f.pc = pc
  BY <1>1 DEF Shape
<1>3. req' = [req EXCEPT ![h] = f] /\ req'[h] = f
  BY DEF Inv
<1> HIDE DEF f
<1>4. ToStore(f) = ToStore(r)
  BY <1>1, <1>2 DEF ToStore
<1>5. \A n \in ToStore(f) : Carries(f.session.objs[n], ks, cs)
  BY <1>2, <1>4 DEF Sealed
<1>6. At(f) = pc
  BY <1>1, <1>2 DEF At
<1> QED BY <1>2, <1>3, <1>5, <1>6, SealedStep

\* ensure_issuer_public_key stores its key, if anything.
LEMMA EnsureSealed ==
  ASSUME Inv, Inv', Current, NEW ks, NEW cs, Sealed(ks, cs), NEW h \in Handlers, EnsureKey(h),
         local[h].key \in Keys => local[h].key \in ks
  PROVE  /\ Sealed(ks, cs)'
         /\ At(req'[h]) \in {"load", "log"}
         /\ req'[h].op = req[h].op
<1> DEFINE r == req[h]
           l == local[h]
           f == req'[h]
<1>1. Ensuring(r, l, store, f)
  BY EnsureFacts
<1>2. req' = [req EXCEPT ![h] = f] /\ store' = store /\ r.pc = "ensure" /\ r.pc \in Middle
  BY DEF EnsureKey, Inv, Middle
<1>3. l.key \in ks
  BY <1>2, MiddleFacts DEF Control
<1>4. PICK n : /\ ToStore(f) \subseteq {n} /\ f.session.objs[n].id = Profile
               /\ f.session.objs[n].val = [store[Profile] EXCEPT !.key = l.key]
  BY <1>1 DEF Ensuring
<1>5. f.session.objs[n].val.key = l.key
  BY <1>4, StoreFacts DEF Profiles
<1>6. f.op = r.op /\ At(f) \in {"load", "log"}
  BY <1>1 DEF Ensuring
<1> HIDE DEF f, l
<1>7. Carries(f.session.objs[n], ks, cs)
  BY <1>3, <1>4, <1>5, CredentialsAssumption DEF Carries, Profile
<1> QED BY <1>2, <1>4, <1>6, <1>7, SealedStep DEF f

\* A handler that adds such objects to what it may store.
LEMMA AddsSealed ==
  ASSUME Inv, NEW ks, NEW cs, Sealed(ks, cs), NEW h \in Handlers, NEW f,
         req' = [req EXCEPT ![h] = f], store' = store,
         NEW New, Adds(req[h], f, New), \A o \in New : Carries(o, ks, cs)
  PROVE  Sealed(ks, cs)'
<1>1. \A n \in ToStore(f) : Carries(f.session.objs[n], ks, cs)
  BY DEF Adds, Sealed
<1> QED BY <1>1, SealedStep

\* A new credential is signed with the handler's key.
LEMMA SignSealed ==
  ASSUME Inv, NEW ks, NEW cs, Sealed(ks, cs), NEW h \in Handlers, Sign(h),
         local[h].key \in Keys => local[h].key \in ks, req[h].op = "issue" => cs = Credentials
  PROVE  /\ Sealed(ks, cs)'
         /\ At(req'[h]) = "log"
         /\ req'[h].op = req[h].op
<1> DEFINE r == req[h]
           key == local[h].key
           doc == [status |-> "active", key |-> key]
           n == Len(r.session.objs) + 1
<1>1. PICK c \in Credentials :
        req' = [req EXCEPT ![h] = Flush([r EXCEPT !.session = AddNew(r.session, c, doc)], "log")]
  BY DEF Sign
<1> DEFINE o == [id |-> c, val |-> doc]
           s == AddNew(r.session, c, doc)
           f == Flush([r EXCEPT !.session = s], "log")
<1>2. r.pc = "sign" /\ r.pc \in Middle /\ store' = store
  BY DEF Sign, Middle
<1>3. /\ r \in Requests(Names, Items) /\ r.session.pending = <<>> /\ key \in Keys
      /\ ToStore(r) = Writable(r.session) /\ r.op = "issue"
  BY <1>2, MiddleFacts DEF Control
<1>4. Goes(r, s, "log", f) /\ Signing(r, key, c, s, n, f)
  <2> HIDE DEF r, key
  <2> QED BY <1>2, <1>3, SignFacts
<1>5. req' = [req EXCEPT ![h] = f] /\ req'[h] = f
  BY <1>1 DEF Inv
<1> HIDE DEF f, s, n
<1>6. s \in Sessions(Items)
  BY <1>4 DEF Signing
<1>7. \A m \in ToStore(f) : m \in Writable(s)
  BY <1>4, <1>6, WritesExactly DEF Signing, ToStore
<1>8. ToStore(r) \subseteq DOMAIN r.session.objs
  BY <1>3, StoresHeld
<1>9. Adds(r, f, {o})
  BY <1>3, <1>4, <1>7, <1>8 DEF Adds, Signing
<1>10. Carries(o, ks, cs)
  BY <1>3, CredentialsAssumption DEF Carries, Profile
<1>11. f.op = r.op /\ At(f) = "log"
  BY <1>4 DEF Signing
<1> HIDE DEF o, r
<1>12. \A e \in {o} : Carries(e, ks, cs)
  BY <1>10
<1> DEFINE New == {o}
<1>13. Adds(r, f, New) /\ \A e \in New : Carries(e, ks, cs)
  BY <1>9, <1>12
<1> HIDE DEF New
<1> QED BY <1>2, <1>5, <1>11, <1>13, AddsSealed DEF r

\* Credentials are signed again with the handler's key.
LEMMA ResignSealed ==
  ASSUME Inv, NEW ks, NEW cs, Sealed(ks, cs), NEW h \in Handlers, Resign(h),
         local[h].key \in Keys => local[h].key \in ks
  PROVE  /\ Sealed(ks, cs)'
         /\ At(req'[h]) = "answer"
         /\ req'[h].op = req[h].op
<1> DEFINE r == req[h]
           l == local[h]
<1>1. PICK found \in SetToSeqs(ToResign) :
        req' = [req EXCEPT ![h] =
                  Flush([r EXCEPT !.session = AllResigned(r.session, found, l.key)], "answer")]
  BY DEF Resign
<1> DEFINE s == AllResigned(r.session, found, l.key)
           f == Flush([r EXCEPT !.session = s], "answer")
           New == {Again(c, l.key) : c \in ToResign}
<1>2. r.pc = "resign" /\ r.pc \in Middle /\ store' = store
  BY DEF Resign, Middle
<1>3. /\ r \in Requests(Names, Items) /\ r.session.pending = <<>> /\ l.key \in Keys
      /\ ToStore(r) = Writable(r.session)
  BY <1>2, MiddleFacts DEF Control
<1>4. req' = [req EXCEPT ![h] = f] /\ req'[h] = f
  BY <1>1 DEF Inv
<1>5. Goes(r, s, "answer", f) /\ Resigning(r, l.key, s, f)
  <2> HIDE DEF r, l
  <2> QED BY <1>2, <1>3, ResignFacts
<1> HIDE DEF f, s
<1>6. s \in Sessions(Items) /\ f.session = s
  BY <1>5 DEF Resigning
<1>7. \A m \in ToStore(f) : m \in Writable(s)
  BY <1>5, <1>6, WritesExactly DEF Resigning, ToStore
<1>8. Adds(r, f, New)
  BY <1>3, <1>5, <1>6, <1>7 DEF Adds, Resigning
<1>9. ASSUME NEW c \in ToResign PROVE Carries(Again(c, l.key), ks, cs)
  <2>1. c \in Credentials /\ store[c] \in Documents /\ c # Profile /\ c \in cs
    BY StoreFacts, CredentialsAssumption DEF ToResign, Profile, Sealed
  <2>2. Again(c, l.key).id = c /\ Again(c, l.key).val.key = l.key
    BY <2>1 DEF Again, Resigned, Documents
  <2> QED BY <1>3, <2>1, <2>2 DEF Carries
<1>10. f.op = r.op /\ At(f) = "answer"
  BY <1>5 DEF Resigning
<1>11. \A o \in New : Carries(o, ks, cs)
  BY <1>9
<1> HIDE DEF New, r
<1> QED BY <1>2, <1>4, <1>8, <1>10, <1>11, AddsSealed DEF r

\* log_event adds no document.
LEMMA LogSealed ==
  ASSUME Inv, NEW ks, NEW cs, Sealed(ks, cs), NEW h \in Handlers, Log(h)
  PROVE  /\ Sealed(ks, cs)'
         /\ At(req'[h]) = "answer"
         /\ req'[h].op = req[h].op
<1> DEFINE f == req'[h]
           New == {o \in Items : o.id \in {"audit", "claims"}}
<1>1. Adds(req[h], f, New) /\ f.op = req[h].op /\ At(f) = "answer"
  BY LogFacts DEF Logging, At
<1>2. req' = [req EXCEPT ![h] = f] /\ store' = store
  BY DEF Log, Inv
<1>3. \A o \in New : Carries(o, ks, cs)
  BY CredentialsAssumption DEF Carries, Profile
<1> HIDE DEF f, New
<1> QED BY <1>1, <1>2, <1>3, AddsSealed DEF f

\* What is stored was held.
LEMMA WriteSealed ==
  ASSUME Inv, NEW ks, NEW cs, Sealed(ks, cs), NEW h \in Handlers, Write(h)
  PROVE  /\ Sealed(ks, cs)'
         /\ At(req'[h]) = At(req[h])
         /\ req'[h].op = req[h].op
<1> DEFINE r == req[h]
           o == NextObject(r)
           f == AfterWrite(r)
<1>1. /\ r.pc = "flush" /\ req' = [req EXCEPT ![h] = f]
      /\ ToStore(f) \subseteq ToStore(r) /\ f.session.objs = r.session.objs
      /\ o.id \in Changing => store' = [store EXCEPT ![o.id] = o.val]
      /\ o.id \notin Changing => store' = store
  BY WriteFacts
<1>2. PICK k \in ToStore(r) : o = r.session.objs[k]
  BY WriteFacts
<1>3. r \in Requests(Names, Items)
  BY HandlerFacts DEF HandlerOK
<1>4. /\ f.op = r.op
      /\ \/ f.pc = "flush" /\ f.then = r.then
         \/ f.pc = r.then /\ r.then # "flush"
  BY <1>1, <1>3, AfterWriteType, NamesBasic
<1> HIDE DEF o, f
<1>5. At(f) = At(r)
  BY <1>1, <1>4 DEF At
<1>6. Carries(o, ks, cs)
  BY <1>2 DEF Sealed
<1>7. \A n \in ToStore(f) : Carries(f.session.objs[n], ks, cs)
  BY <1>1 DEF Sealed
<1>8. \A g \in Handlers : IF g = h THEN req'[g] = f ELSE req'[g] = req[g]
  BY <1>1 DEF Inv
<1>9. DOMAIN store = {Profile} \cup Credentials
  BY StoreFacts
<1>10. /\ store'[Profile].key \in ks
       /\ \A c \in Credentials : store'[c] # Absent => store'[c].key \in ks /\ c \in cs
  <2>1. CASE o.id \in Changing
    <3>1. store' = [store EXCEPT ![o.id] = o.val]
      BY <1>1, <2>1
    <3> QED BY <1>6, <1>9, <3>1 DEF Carries, Sealed, Changing
  <2>2. CASE o.id \notin Changing
    BY <1>1, <2>2 DEF Sealed
  <2> QED BY <2>1, <2>2
<1>11. Sealed(ks, cs)'
  BY <1>7, <1>8, <1>10 DEF Sealed
<1> QED BY <1>4, <1>5, <1>8, <1>11

\* A step of handler h leaves the other handlers as they are.
LEMMA OthersStay ==
  ASSUME Inv, NEW h \in Handlers, NEW f, req' = [req EXCEPT ![h] = f]
  PROVE  req'[h] = f /\ \A g \in Handlers \ {h} : req'[g] = req[g]
BY DEF Inv

\* Every step of a handler keeps what it may store sealed, goes on in the same
\* request, and generates no key unless there is no file.
LEMMA HandlerSealed ==
  ASSUME Inv, Inv', Current, NEW ks, NEW cs, Sealed(ks, cs), NEW h \in Handlers,
         local[h].key \in Keys => local[h].key \in ks, req[h].op = "issue" => cs = Credentials,
         \/ Approve(h) \/ Block(h) \/ Issue(h) \/ Resync(h) \/ Resign(h)
         \/ \E c \in Credentials : Revoke(h, c)
         \/ LoadKey(h) \/ GenerateKey(h) \/ SaveKey(h) \/ EnsureKey(h) \/ Sign(h)
         \/ Log(h) \/ Write(h) \/ Answer(h) \/ Fail(h)
  PROVE  /\ Sealed(ks, cs)'
         /\ \A g \in Handlers \ {h} : req'[g] = req[g] /\ local'[g] = local[g]
         /\ req'[h].op = "issue" => req[h].op = "issue" \/ Issue(h)
         /\ At(req'[h]) \in {"generate", "save"} =>
              At(req[h]) \in {"generate", "save"} \/ (req[h].pc = "load" /\ pem = NoKey)
         /\ pem' # pem => req[h].pc \in {"generate", "save"}
         /\ local'[h].key \in {NoKey, local[h].key, pem} \/ req[h].pc = "generate"
<1>1. local \in [Handlers -> Locals]
  BY StoreFacts
<1>2. \A l \in Locals : \A c : [l EXCEPT !.cred = c].key = l.key
  BY DEF Locals
<1>3. CASE Approve(h) \/ Block(h) \/ Issue(h) \/ Resync(h) \/ \E c \in Credentials : Revoke(h, c)
  <2>1. /\ Sealed(ks, cs)' /\ At(req'[h]) \in {"load", "log"}
        /\ req'[h].op = "issue" => Issue(h)
    BY <1>3, BeginsSealed
  <2>2. /\ \E f : req' = [req EXCEPT ![h] = f]
        /\ \E l : local' = [local EXCEPT ![h] = l] /\ l.key = NoKey
        /\ pem' = pem
    <3>1. NoLocals.key = NoKey /\ \A c \in Credentials : [NoLocals EXCEPT !.cred = c].key = NoKey
      BY DEF NoLocals
    <3>2. CASE Approve(h) \/ Block(h) \/ Issue(h) \/ Resync(h)
      BY <3>1, <3>2 DEF Approve, Block, Issue, Resync
    <3>3. CASE \E c \in Credentials : Revoke(h, c)
      BY <3>1, <3>3 DEF Revoke
    <3> QED BY <1>3, <3>2, <3>3
  <2>3. local'[h].key = NoKey /\ \A g \in Handlers \ {h} : local'[g] = local[g]
    BY <1>1, <2>2
  <2> QED BY <2>1, <2>2, <2>3, OthersStay
<1>4. CASE LoadKey(h) \/ GenerateKey(h) \/ SaveKey(h)
  <2>1. /\ store' = store /\ req[h].pc \in Middle /\ At(req[h]) = req[h].pc
    BY <1>4, HandlerFacts DEF LoadKey, GenerateKey, SaveKey, Middle
  <2>2. AfterKey(h) \in Middle \ {"generate", "save"} /\ {"generate", "save"} \subseteq Middle
    BY DEF AfterKey, Middle
  <2>3. PICK pc \in Middle :
          /\ req' = [req EXCEPT ![h].pc = pc]
          /\ pc \in {"generate", "save"} =>
               req[h].pc \in {"generate", "save"} \/ (req[h].pc = "load" /\ pem = NoKey)
    BY <1>4, <2>2 DEF LoadKey, GenerateKey, SaveKey, WithKey
  <2>4. Sealed(ks, cs)' /\ At(req'[h]) = pc /\ req'[h].op = req[h].op
    BY <2>1, <2>3, MoveSealed
  <2>5. \A g \in Handlers \ {h} : req'[g] = req[g] /\ local'[g] = local[g]
    BY <1>1, <1>4, <2>3, OthersStay DEF LoadKey, GenerateKey, SaveKey, WithKey
  <2>6. local'[h].key \in {local[h].key, pem} \/ req[h].pc = "generate"
    BY <1>1, <1>4 DEF LoadKey, GenerateKey, SaveKey, WithKey, Locals
  <2>7. pem' # pem => req[h].pc \in {"generate", "save"}
    BY <1>4 DEF LoadKey, GenerateKey, SaveKey
  <2> QED BY <2>1, <2>3, <2>4, <2>5, <2>6, <2>7
<1>5. CASE EnsureKey(h)
  <2>1. Sealed(ks, cs)' /\ At(req'[h]) \in {"load", "log"} /\ req'[h].op = req[h].op
    BY <1>5, EnsureSealed
  <2>2. (\E f : req' = [req EXCEPT ![h] = f]) /\ UNCHANGED <<local, pem>>
    BY <1>5 DEF EnsureKey
  <2> QED BY <2>1, <2>2, OthersStay
<1>6. CASE Sign(h)
  <2>1. Sealed(ks, cs)' /\ At(req'[h]) = "log" /\ req'[h].op = req[h].op
    BY <1>6, SignSealed
  <2>2. /\ \E f : req' = [req EXCEPT ![h] = f]
        /\ \E c : local' = [local EXCEPT ![h] = [local[h] EXCEPT !.cred = c]]
        /\ pem' = pem
    BY <1>6 DEF Sign
  <2>3. local'[h].key = local[h].key /\ \A g \in Handlers \ {h} : local'[g] = local[g]
    BY <1>1, <1>2, <2>2
  <2> QED BY <2>1, <2>2, <2>3, OthersStay
<1>7. CASE Resign(h) \/ Log(h)
  <2>1. Sealed(ks, cs)' /\ At(req'[h]) = "answer" /\ req'[h].op = req[h].op
    BY <1>7, ResignSealed, LogSealed
  <2>2. (\E f : req' = [req EXCEPT ![h] = f]) /\ UNCHANGED <<local, pem>>
    BY <1>7 DEF Resign, Log
  <2> QED BY <2>1, <2>2, OthersStay
<1>8. CASE Write(h)
  <2>1. Sealed(ks, cs)' /\ At(req'[h]) = At(req[h]) /\ req'[h].op = req[h].op
    BY <1>8, WriteSealed
  <2>2. (\E f : req' = [req EXCEPT ![h] = f]) /\ UNCHANGED <<local, pem>>
    BY <1>8 DEF Write
  <2> QED BY <2>1, <2>2, OthersStay
<1>9. CASE Answer(h) \/ Fail(h)
  <2>1. req' = [req EXCEPT ![h] = Idle] /\ UNCHANGED <<store, local, pem>>
    BY <1>9 DEF Answer, Fail
  <2>2. Sealed(ks, cs)'
    BY <2>1, IdleStores, SealedStep
  <2>3. Idle.op = "none" /\ At(Idle) = "idle"
    BY DEF Idle, At
  <2> QED BY <2>1, <2>2, <2>3, OthersStay
<1> QED BY <1>3, <1>4, <1>5, <1>6, <1>7, <1>8, <1>9

\* If no key file is lost, every step keeps the one key.
LEMMA NextOneKey ==
  ASSUME ~PemLost, Inv, Inv', Current, OneKey, [Next]_vars,
         store'[Profile].approved = store[Profile].approved
  PROVE  OneKey'
<1> DEFINE Step(h) ==
             \/ Approve(h) \/ Block(h) \/ Issue(h) \/ Resync(h) \/ Resign(h)
             \/ \E c \in Credentials : Revoke(h, c)
             \/ LoadKey(h) \/ GenerateKey(h) \/ SaveKey(h) \/ EnsureKey(h) \/ Sign(h)
             \/ Log(h) \/ Write(h) \/ Answer(h) \/ Fail(h)
<1>1. CASE UNCHANGED vars
  BY <1>1 DEF vars, OneKey, Sealed
<1>2. ASSUME NEW h \in Handlers, Step(h) PROVE OneKey'
  <2>1. local[h].key \in Keys \cup {NoKey} /\ (req[h].pc \in Middle => At(req[h]) = req[h].pc)
    BY HandlerFacts DEF Locals
  <2>2. ASSUME NEW k \in Keys, pem = k, Sealed({k}, Credentials),
               \A g \in Handlers : local[g].key \in {NoKey, k} /\ At(req[g]) \notin {"generate", "save"}
        PROVE  OneKey'
    <3>1. local[h].key \in Keys => local[h].key \in {k}
      BY <2>2, KeysAssumption DEF NoKey
    <3>2. /\ Sealed({k}, Credentials)'
          /\ \A g \in Handlers \ {h} : req'[g] = req[g] /\ local'[g] = local[g]
          /\ At(req'[h]) \in {"generate", "save"} =>
               At(req[h]) \in {"generate", "save"} \/ (req[h].pc = "load" /\ pem = NoKey)
          /\ pem' # pem => req[h].pc \in {"generate", "save"}
          /\ local'[h].key \in {NoKey, local[h].key, pem} \/ req[h].pc = "generate"
      <4> HIDE DEF Step
      <4> QED BY <1>2, <2>2, <3>1, HandlerSealed DEF Step
    <3>3. req[h].pc \notin {"generate", "save"} /\ pem # NoKey
      BY <2>1, <2>2, KeysAssumption DEF NoKey, Middle
    <3>4. pem' = k /\ \A g \in Handlers : local'[g].key \in {NoKey, k} /\ At(req'[g]) \notin {"generate", "save"}
      BY <2>2, <3>2, <3>3
    <3> QED BY <3>2, <3>4 DEF OneKey
  <2>3. ASSUME ~store[Profile].approved, Sealed(Keys \cup {NoKey}, {}),
               \A g \in Handlers : req[g].op # "issue"
        PROVE  OneKey'
    <3>1. /\ Sealed(Keys \cup {NoKey}, {})'
          /\ \A g \in Handlers \ {h} : req'[g] = req[g] /\ local'[g] = local[g]
          /\ req'[h].op = "issue" => req[h].op = "issue" \/ Issue(h)
      <4> HIDE DEF Step
      <4> QED BY <1>2, <2>1, <2>3, HandlerSealed DEF Step
    <3>2. ~Issue(h)
      BY <2>3 DEF Issue
    <3>3. \A g \in Handlers : req'[g].op # "issue"
      BY <2>3, <3>1, <3>2
    <3> QED BY <2>3, <3>1, <3>3 DEF OneKey
  <2> QED BY <2>2, <2>3 DEF OneKey
<1>3. ~Redeploy
  BY DEF Redeploy
<1> QED BY <1>1, <1>2, <1>3 DEF Next

\* issuer_crypto.py, lines 4-5, for an issuer whose key file is never lost: every
\* credential verifies with the stored public key, at any time, however many
\* handlers issue, revoke, approve, block and sign again. So signatures do not
\* survive only where the file does not.
THEOREM SignaturesLast == ASSUME ~PemLost PROVE Spec => []SignaturesSurvive
<1>1. Init => OneKey
  <2>1. SUFFICES ASSUME Init PROVE OneKey
    OBVIOUS
  <2>2. /\ \A h \in Handlers : req[h] = Idle /\ local[h] = NoLocals
        /\ ToStore(Idle) = {} /\ At(Idle) = "idle" /\ Idle.op = "none" /\ NoLocals.key = NoKey
    BY <2>1, IdleStores DEF Init, Idle, At, NoLocals
  <2>3. PICK k \in Keys :
          \/ /\ pem = NoKey
             /\ store = [d \in {Profile} \cup Credentials |->
                           IF d = Profile
                           THEN [approved |-> FALSE, blocked |-> FALSE, key |-> NoKey]
                           ELSE Absent]
          \/ /\ pem = k
             /\ store = [d \in {Profile} \cup Credentials |->
                           IF d = Profile
                           THEN [approved |-> TRUE, blocked |-> FALSE, key |-> k]
                           ELSE Absent]
    BY <2>1 DEF Init
  <2>4. \A c \in Credentials : store[c] = Absent
    BY <2>3, CredentialsAssumption DEF Profile
  <2>5. CASE pem = NoKey /\ store[Profile] = [approved |-> FALSE, blocked |-> FALSE, key |-> NoKey]
    <3>1. Sealed(Keys \cup {NoKey}, {})
      BY <2>2, <2>4, <2>5 DEF Sealed
    <3> QED BY <2>2, <2>5, <3>1 DEF OneKey
  <2>6. CASE pem = k /\ store[Profile] = [approved |-> TRUE, blocked |-> FALSE, key |-> k]
    <3>1. Sealed({k}, Credentials)
      BY <2>2, <2>4, <2>6 DEF Sealed
    <3> QED BY <2>2, <2>6, <3>1 DEF OneKey
  <2> QED BY <2>3, <2>5, <2>6
<1>2. ASSUME Inv, Inv', Current, OneKey, [Next]_vars,
             [store'[Profile].approved = store[Profile].approved]_vars
      PROVE  OneKey'
  <2>1. store'[Profile].approved = store[Profile].approved
    BY <1>2 DEF vars
  <2> QED BY <1>2, <2>1, NextOneKey
<1>3. Inv /\ OneKey => SignaturesSurvive
  BY DEF OneKey, Sealed, SignaturesSurvive
<1> QED BY <1>1, <1>2, <1>3, Invariance, CopiesCurrent, ApprovalsDropped, PTL DEF Spec, ApprovalNeverStored
===============================================================================
