----------------------------- MODULE AnchoringProofs -----------------------------
(***************************************************************************)
(* What holds of Anchoring for any number of handlers, requests and        *)
(* outside transactions, in two layers.                                    *)
(*                                                                         *)
(* Inv: what a handler holds of the credential and of its transaction is   *)
(* on record already, or its records are the next things this handler      *)
(* stores; and the registries have what a receipt confirms.                *)
(* Kept: somebody looks after every transaction, or its records are        *)
(* stored; no handler but a stale one has missed the revocation.           *)
(***************************************************************************)
EXTENDS Anchoring, RequestProofs

\* The places of a handler, and what it can hold.
Anchorings == {"anchor", "anchor_revocation"}
Ops == Anchorings \cup {"revoke"}
Names == Basic \cup Ops \cup {"nonce", "send", "wait", "log"}
Credentials == [status : {"active", "revoked"}, tx : Nat]
Records == [op : Anchorings, tx : Nat, block : Nat, confirmed : BOOLEAN]
Events == Ops \X Nat
Items == [id : {Credential}, val : Credentials] \cup [id : {"anchor"}, val : Records]
           \cup [id : {"audit"}, val : Events]
Receipts == [status : {0, 1}, block : Nat]

\* The transaction of an operation.
CallOf(op) == Call(IF op = "anchor" THEN "credentials" ELSE "revocations", "anchorRecord", Commitment)

\* The revocation, and the transaction tx of operation op, are on record.
RevocationLogged(ins) == <<"audit", <<"revoke", NoTx>>>> \in ins
Documented(op, tx, ins) ==
  /\ \E a \in Records : <<"anchor", a>> \in ins /\ a.op = op /\ a.tx = tx
  /\ <<"audit", <<op, tx>>>> \in ins

\* The record a is that of a transaction that was mined.
RecordOK(a, snt, rcp) ==
  /\ a.tx \in DOMAIN rcp /\ a.tx \in DOMAIN snt
  /\ snt[a.tx] = CallOf(a.op)
  /\ a.block = rcp[a.tx].block /\ a.confirmed = (rcp[a.tx].status = 1)

\* What object o of request r, which uses nonce n, rests on.
Held(r, n, o, ins, snt, rcp) ==
  /\ o.id = "anchor" => RecordOK(o.val, snt, rcp)
  /\ o.id = Credential =>
       /\ o.val.tx # NoTx => \/ Documented("anchor", o.val.tx, ins)
                             \/ r.pc = "flush" /\ r.op = "anchor" /\ o.val.tx = n
       /\ o.val.status = "revoked" => RevocationLogged(ins) \/ r.op = "revoke"

\* What request r still has to store: its records come first.
Storing(r, n, ins) ==
  IF r.op = "revoke"
  THEN RevocationLogged(ins) \/ NextObject(r) = AuditItem(<<"revoke", NoTx>>)
  ELSE \/ Documented(r.op, n, ins)
       \/ /\ \E a \in Records : <<"anchor", a>> \in ins /\ a.op = r.op /\ a.tx = n
          /\ NextObject(r) = AuditItem(<<r.op, n>>)
       \/ /\ \E a \in Records : NextObject(r) = [id |-> "anchor", val |-> a] /\ a.op = r.op /\ a.tx = n
          /\ 2 \in DOMAIN r.writing
          /\ r.session.objs[r.writing[2]] = AuditItem(<<r.op, n>>)

\* The part of a handler with request r and nonce n.
HandlerOK(r, n, ins, snt, rcp) ==
  /\ r \in Requests(Names, Items) /\ n \in Nat
  /\ r.pc \in {"idle", "nonce", "send", "wait", "flush"}
  /\ r.pc \in {"nonce", "send", "wait"} => r.op \in Anchorings /\ r.session.pending = <<>>
                                           /\ Len(r.session.objs) = 1 /\ r.session.objs[1].id = Credential
  /\ r.pc = "flush" => r.op \in Ops /\ r.then = "idle" /\ Storing(r, n, ins)
  /\ r.pc = "idle" \/ r.op = "revoke" => n = NoTx
  /\ r.pc = "idle" => r.session.objs = <<>>
  /\ r.pc = "wait" \/ (r.pc = "flush" /\ r.op # "revoke") => n \in DOMAIN snt /\ snt[n] = CallOf(r.op)
  /\ r.op = "anchor_revocation" => RevocationLogged(ins)
  /\ \A m \in DOMAIN r.session.objs : Held(r, n, r.session.objs[m], ins, snt, rcp)

\* The part of the database.
StoreOK(st, ins, snt, rcp) ==
  /\ st \in Credentials
  /\ st.tx # NoTx => Documented("anchor", st.tx, ins)
  /\ st.status = "revoked" => RevocationLogged(ins)
  /\ ins \subseteq ({"anchor"} \X Records) \cup ({"audit"} \X Events)
  /\ \A a \in Records : <<"anchor", a>> \in ins => RecordOK(a, snt, rcp)

\* What the registries can be.
Chains ==
  [issuers     : [hash : Hashes \cup {ZeroHash}, approved : BOOLEAN, blocked : BOOLEAN, at : Nat],
   credentials : [hash : Hashes \cup {ZeroHash}, byIssuer : BOOLEAN, at : Nat, exists : BOOLEAN],
   revocations : [hash : Hashes \cup {ZeroHash}, at : Nat, revoked : BOOLEAN],
   paused      : SUBSET Registry]

\* What a receipt r of a call says of registries c.
ReceiptOK(c, call, r) ==
  /\ r.status = 1 /\ call = CallOf("anchor")
       => VerifyIntegrity(c, Commitment) /\ c.credentials.at = r.block
  /\ r.status = 1 /\ call = CallOf("anchor_revocation")
       => /\ c.revocations.at >= r.block
          /\ c.revocations.at = r.block => c.revocations.hash = Commitment
  /\ r.status # 1 => r.block \notin {c.credentials.at, c.revocations.at}

\* The registries, the transactions and their receipts, in block number n.
ChainOK(c, n, ins, snt, rcp) ==
  /\ c \in Chains /\ n \in Nat
  /\ snt \in Seq({CallOf(op) : op \in Anchorings}) /\ rcp \in Seq(Receipts)
  /\ DOMAIN rcp \subseteq DOMAIN snt
  /\ \A tx \in DOMAIN snt : snt[tx] = CallOf("anchor_revocation") => RevocationLogged(ins)
  /\ c.credentials.at <= n /\ c.revocations.at <= n
  /\ \A t, u \in DOMAIN rcp : rcp[t].block = rcp[u].block => t = u
  /\ \A tx \in DOMAIN rcp : rcp[tx].block <= n /\ ReceiptOK(c, snt[tx], rcp[tx])

\* The first layer of the inductive invariant.
Inv ==
  /\ StoreOK(store, inserted, sent, receipts)
  /\ ChainOK(chain, block, inserted, sent, receipts)
  /\ req \in [Handlers -> Requests(Names, Items)] /\ nonce \in [Handlers -> Nat]
  /\ \A h \in Handlers : HandlerOK(req[h], nonce[h], inserted, sent, receipts)

\* Handler h has sent transaction tx, and has not ended.
At(h, tx) == nonce[h] = tx /\ req[h].pc \in {"wait", "flush"}

\* The second layer.
Kept ==
  /\ abandoned \subseteq {NoTx} \cup DOMAIN sent
  /\ \A tx \in DOMAIN sent : \/ \E h \in Handlers : At(h, tx)
                             \/ tx \in abandoned
                             \/ \E op \in Anchorings : Documented(op, tx, inserted)
  /\ \A g, h \in Handlers : nonce[g] = nonce[h] /\ req[g].pc = "wait" /\ req[h].pc = "wait" => g = h
  /\ \A h \in Handlers : h \notin stale /\ store.status = "revoked" =>
       \A m \in DOMAIN req[h].session.objs :
         req[h].session.objs[m].id = Credential => req[h].session.objs[m].val.status = "revoked"

\* The names of this model cover those of every request.
LEMMA NamesBasic == Basic \subseteq Names
BY DEF Names

\* The id of an object tells what its value is.
LEMMA ItemFacts ==
  ASSUME NEW o \in Items
  PROVE  /\ o.id = Credential => o.val \in Credentials
         /\ o.id = "anchor" => o.val \in Records
         /\ o.id = "audit" => o.val \in Events
         /\ o.id \in {Credential, "anchor", "audit"}
         /\ o = [id |-> o.id, val |-> o.val]
BY DEF Items, Credential

\* What may be held in a session.
LEMMA IsItem ==
  /\ \A v \in Credentials : [id |-> Credential, val |-> v] \in Items
  /\ \A a \in Records : [id |-> "anchor", val |-> a] \in Items
  /\ \A e \in Events : AuditItem(e) \in Items
BY DEF Items, AuditItem

-----------------------------------------------------------------------------
(* The registries. *)

\* The calls that are made.
Calls == OutsideCalls \cup {CallOf(op) : op \in Anchorings}
Functions == {"anchorRecord", "anchorRecordWithIssuer", "approveIssuer", "blockIssuer",
              "unblockIssuer", "reverseRevocation", "pause", "unpause"}

\* A call names a registry, one of the functions and a hash.
LEMMA CallFacts ==
  ASSUME NEW call \in Calls
  PROVE  /\ call.to \in {"issuers", "credentials", "revocations"} /\ call.hash \in Hashes \cup {ZeroHash}
         /\ call.function \in Functions
         /\ call.function = "anchorRecordWithIssuer" => call.to = "credentials"
BY CommitmentAssumption DEF Calls, Functions, OutsideCalls, CallOf, Call, Registry

\* What a call can make of registries c.
Registered(c, call, n) == [c EXCEPT !.issuers.hash = call.hash, !.issuers.at = IF @ = 0 THEN n ELSE @]
Approved(c) == [c EXCEPT !.issuers.approved = TRUE, !.issuers.blocked = FALSE]
Blocked(c, blocked) == [c EXCEPT !.issuers.blocked = blocked]
WithRecord(c, record) == [c EXCEPT !.credentials = record]
WithRevocation(c, record) == [c EXCEPT !.revocations = record]
Reversed(c) == [c EXCEPT !.revocations.revoked = FALSE]
Paused(c, paused) == [c EXCEPT !.paused = paused]
RecordOf(call, n) == [hash |-> call.hash, byIssuer |-> call.function = "anchorRecordWithIssuer",
                      at |-> n, exists |-> TRUE]
RevocationOf(call, n) == [hash |-> call.hash, at |-> n, revoked |-> TRUE]

\* The cases of a call.
Effect(c, call, n, d) ==
  \/ d = c
  \/ d = Registered(c, call, n)
  \/ d = WithRevocation(c, RevocationOf(call, n))
  \/ ~c.credentials.exists /\ d = WithRecord(c, RecordOf(call, n))
  \/ d = Approved(c)
  \/ \E b \in BOOLEAN : d = Blocked(c, b)
  \/ d = Reversed(c)
  \/ \E p : p \subseteq c.paused \cup {call.to} /\ d = Paused(c, p)

\* Every call is one of these cases.
LEMMA ExecutedCases ==
  ASSUME NEW c, NEW n, NEW call \in Calls
  PROVE  Effect(c, call, n, Executed(c, call, n))
<1> DEFINE d == Executed(c, call, n)
<1>1. /\ call.to \in {"issuers", "credentials", "revocations"}
      /\ call.function \in Functions
      /\ call.function = "anchorRecordWithIssuer" => call.to = "credentials"
  BY CallFacts
<1>2. CASE ~Succeeds(c, call)
  BY <1>2 DEF Executed, Effect
<1>3. CASE Succeeds(c, call)
  <2>1. CASE call.function = "anchorRecord" /\ call.to = "issuers"
    <3>1. d = Registered(c, call, n)
      BY <1>3, <2>1 DEF Executed, Registered
    <3> QED BY <3>1 DEF Effect
  <2>2. CASE call.function = "anchorRecord" /\ call.to = "revocations"
    <3>1. d = WithRevocation(c, RevocationOf(call, n))
      BY <1>3, <2>2 DEF Executed, WithRevocation, RevocationOf
    <3> QED BY <2>2, <3>1 DEF Effect
  <2>3. CASE call.function \in {"anchorRecord", "anchorRecordWithIssuer"} /\ call.to = "credentials"
    <3>1. d = WithRecord(c, RecordOf(call, n))
      BY <1>3, <2>3 DEF Executed, WithRecord, RecordOf
    <3>2. ~c.credentials.exists
      <4>1. CASE call.function = "anchorRecord"
        BY <1>3, <2>3, <4>1 DEF Succeeds, Required, Anchored
      <4>2. CASE call.function = "anchorRecordWithIssuer"
        BY <1>3, <2>3, <4>2 DEF Succeeds, Required, Anchored
      <4> QED BY <2>3, <4>1, <4>2
    <3> QED BY <3>1, <3>2 DEF Effect
  <2>4. CASE call.function = "approveIssuer"
    <3>1. d = Approved(c)
      BY <1>3, <2>4 DEF Executed, Approved
    <3> QED BY <3>1 DEF Effect
  <2>5. CASE call.function \in {"blockIssuer", "unblockIssuer"}
    <3>1. \E b \in BOOLEAN : d = Blocked(c, b)
      BY <1>3, <2>5 DEF Executed, Blocked
    <3> QED BY <3>1 DEF Effect
  <2>6. CASE call.function = "reverseRevocation"
    <3>1. d = Reversed(c)
      BY <1>3, <2>6 DEF Executed, Reversed
    <3> QED BY <3>1 DEF Effect
  <2>7. CASE call.function \in {"pause", "unpause"}
    <3>1. d = Paused(c, c.paused \cup {call.to}) \/ d = Paused(c, c.paused \ {call.to})
      BY <1>3, <2>7 DEF Executed, Paused
    <3> QED BY <3>1 DEF Effect
  <2> QED BY <1>1, <2>1, <2>2, <2>3, <2>4, <2>5, <2>6, <2>7 DEF Functions
<1> QED BY <1>2, <1>3

\* What may become of registries c in block n: an anchored credential stays, and
\* what is new has the number of the block.
Succession(c, n, d) ==
  /\ c.credentials.exists => d.credentials = c.credentials
  /\ d.credentials.at \in {c.credentials.at, n}
  /\ \/ d.revocations.hash = c.revocations.hash /\ d.revocations.at = c.revocations.at
     \/ d.revocations.at = n

\* A call leaves registries, and nothing it did not write.
LEMMA ExecutedType ==
  ASSUME NEW c \in Chains, NEW n \in Nat, NEW call \in Calls, NEW d, d = Executed(c, call, n)
  PROVE  /\ d \in Chains
         /\ Succession(c, n, d)
<1> USE DEF Succession
<1>1. call.to \in Registry /\ call.hash \in Hashes \cup {ZeroHash}
  BY CallFacts DEF Registry
<1>2. CASE d = c
  BY <1>2
<1>3. CASE d = Registered(c, call, n)
  <2> DEFINE k == IF c.issuers.at = 0 THEN n ELSE c.issuers.at
  <2>1. d = [c EXCEPT !.issuers.hash = call.hash, !.issuers.at = k]
    BY <1>3 DEF Registered
  <2>2. k \in Nat
    BY DEF Chains
  <2> DEFINE e == [c EXCEPT !.issuers.hash = call.hash]
  <2> HIDE DEF k
  <2>3. e \in Chains /\ e.credentials = c.credentials /\ e.revocations = c.revocations
    BY <1>1 DEF Chains
  <2>4. d = [e EXCEPT !.issuers.at = k]
    BY <2>1
  <2> HIDE DEF e
  <2> QED BY <2>2, <2>3, <2>4 DEF Chains
<1>4. CASE d = WithRevocation(c, RevocationOf(call, n))
  <2> DEFINE r == RevocationOf(call, n)
  <2>1. r \in [hash : Hashes \cup {ZeroHash}, at : Nat, revoked : BOOLEAN] /\ r.at = n
    BY <1>1 DEF RevocationOf
  <2> HIDE DEF r
  <2>2. d = WithRevocation(c, r)
    BY <1>4 DEF r
  <2> QED BY <2>1, <2>2 DEF WithRevocation, Chains
<1>5. CASE ~c.credentials.exists /\ d = WithRecord(c, RecordOf(call, n))
  <2> DEFINE r == RecordOf(call, n)
  <2>1. r \in [hash : Hashes \cup {ZeroHash}, byIssuer : BOOLEAN, at : Nat, exists : BOOLEAN] /\ r.at = n
    <3>1. (call.function = "anchorRecordWithIssuer") \in BOOLEAN
      OBVIOUS
    <3> QED BY <1>1, <3>1 DEF RecordOf
  <2> HIDE DEF r
  <2>2. d = WithRecord(c, r)
    BY <1>5 DEF r
  <2> QED BY <1>5, <2>1, <2>2 DEF WithRecord, Chains
<1>6. CASE d = Approved(c)
  BY ZenonT(60), <1>6 DEF Approved, Chains
<1>7. CASE \E b \in BOOLEAN : d = Blocked(c, b)
  BY <1>7 DEF Blocked, Chains
<1>8. CASE d = Reversed(c)
  BY <1>8 DEF Reversed, Chains
<1>9. CASE \E p : p \subseteq c.paused \cup {call.to} /\ d = Paused(c, p)
  BY <1>1, <1>9 DEF Paused, Chains
<1>10. Effect(c, call, n, d)
  BY ExecutedCases
<1> QED BY <1>2, <1>3, <1>4, <1>5, <1>6, <1>7, <1>8, <1>9, <1>10 DEF Effect

\* A transaction of the backend that succeeds is what the registry has then.
LEMMA BackendCalls ==
  ASSUME NEW c \in Chains, NEW n \in Nat, NEW op \in Anchorings, NEW d, d = Executed(c, CallOf(op), n)
  PROVE  /\ op = "anchor" /\ Succeeds(c, CallOf(op))
              => VerifyIntegrity(d, Commitment) /\ d.credentials.at = n /\ ~c.credentials.exists
         /\ op = "anchor_revocation" /\ Succeeds(c, CallOf(op))
              => d.revocations.hash = Commitment /\ d.revocations.at = n
         /\ ~Succeeds(c, CallOf(op)) => d = c
<1> DEFINE call == CallOf(op)
<1>1. /\ call.hash = Commitment /\ call.function = "anchorRecord"
      /\ op = "anchor" => call.to = "credentials"
      /\ op = "anchor_revocation" => call.to = "revocations"
  BY DEF CallOf, Call
<1>2. CASE ~Succeeds(c, call)
  BY <1>2 DEF Executed
<1> HIDE DEF call
<1>3. CASE op = "anchor" /\ Succeeds(c, call)
  <2>1. d = WithRecord(c, RecordOf(call, n))
    BY <1>1, <1>3 DEF Executed, WithRecord, RecordOf, call
  <2>2. ~c.credentials.exists
    BY <1>1, <1>3 DEF Succeeds, Required, Anchored
  <2> QED BY <1>1, <1>3, <2>1, <2>2 DEF Chains, VerifyIntegrity, WithRecord, RecordOf, call
<1>4. CASE op = "anchor_revocation" /\ Succeeds(c, call)
  <2>1. d = WithRevocation(c, RevocationOf(call, n))
    BY <1>1, <1>4 DEF Executed, WithRevocation, RevocationOf, call
  <2> QED BY <1>1, <1>4, <2>1 DEF Chains, WithRevocation, RevocationOf, call
<1> QED BY <1>2, <1>3, <1>4 DEF Anchorings, call

\* A receipt goes on saying what the registries have.
LEMMA ReceiptKept ==
  ASSUME NEW c \in Chains, NEW d \in Chains, NEW n \in Nat, Succession(c, n, d),
         NEW call, NEW r \in Receipts, r.block < n, ReceiptOK(c, call, r)
  PROVE  ReceiptOK(d, call, r)
<1>1. c.credentials.at \in Nat /\ c.revocations.at \in Nat /\ d.revocations.at \in Nat /\ r.block \in Nat
  BY DEF Chains, Receipts
<1>2. ASSUME r.status = 1, call = CallOf("anchor")
      PROVE  VerifyIntegrity(d, Commitment) /\ d.credentials.at = r.block
  BY <1>2 DEF ReceiptOK, Succession, VerifyIntegrity
<1>3. ASSUME r.status = 1, call = CallOf("anchor_revocation")
      PROVE  /\ d.revocations.at >= r.block
             /\ d.revocations.at = r.block => d.revocations.hash = Commitment
  BY <1>1, <1>3 DEF ReceiptOK, Succession
<1>4. ASSUME r.status # 1
      PROVE  r.block \notin {d.credentials.at, d.revocations.at}
  BY <1>1, <1>4 DEF ReceiptOK, Succession
<1> QED BY <1>2, <1>3, <1>4 DEF ReceiptOK

\* The receipt of a call of the backend says what the registries have then.
LEMMA ReceiptNew ==
  ASSUME NEW c \in Chains, NEW n \in Nat, NEW op \in Anchorings, NEW d, d = Executed(c, CallOf(op), n),
         d \in Chains, c.credentials.at < n, c.revocations.at < n,
         NEW r \in Receipts, r.block = n, r.status = 1 <=> Succeeds(c, CallOf(op))
  PROVE  ReceiptOK(d, CallOf(op), r)
<1> DEFINE call == CallOf(op)
<1>1. /\ op = "anchor" /\ Succeeds(c, call)
           => VerifyIntegrity(d, Commitment) /\ d.credentials.at = n /\ ~c.credentials.exists
      /\ op = "anchor_revocation" /\ Succeeds(c, call)
           => d.revocations.hash = Commitment /\ d.revocations.at = n
      /\ ~Succeeds(c, call) => d = c
  BY BackendCalls
<1>2. call = CallOf("anchor") => op = "anchor"
  BY DEF CallOf, Call, Anchorings
<1>3. call = CallOf("anchor_revocation") => op = "anchor_revocation"
  BY DEF CallOf, Call, Anchorings
<1>4. c.credentials.at \in Nat /\ c.revocations.at \in Nat
  BY DEF Chains
<1> HIDE DEF call
<1>5. ReceiptOK(d, call, r)
  BY <1>1, <1>2, <1>3, <1>4 DEF ReceiptOK, call
<1> QED BY <1>5 DEF call

-----------------------------------------------------------------------------
(* Single steps of the handlers. *)

\* What the invariant says, part by part.
LEMMA Facts ==
  ASSUME Inv
  PROVE  /\ store \in Credentials /\ chain \in Chains /\ block \in Nat
         /\ sent \in Seq({CallOf(op) : op \in Anchorings}) /\ receipts \in Seq(Receipts)
         /\ DOMAIN receipts \subseteq DOMAIN sent
         /\ req \in [Handlers -> Requests(Names, Items)] /\ nonce \in [Handlers -> Nat]
         /\ \A h \in Handlers : /\ HandlerOK(req[h], nonce[h], inserted, sent, receipts)
                                /\ req[h] \in Requests(Names, Items) /\ nonce[h] \in Nat
                                /\ req[h] \in Shape(Names, Items) /\ Sound(req[h])
                                /\ req[h].session \in Sessions(Items)
<1>1. ASSUME NEW h \in Handlers
      PROVE  req[h] \in Shape(Names, Items) /\ Sound(req[h]) /\ req[h].session \in Sessions(Items)
  <2>1. req[h] \in Shape(Names, Items) /\ Sound(req[h])
    BY DEF Inv, HandlerOK, Requests
  <2> QED BY <2>1 DEF Shape
<1> QED BY <1>1 DEF Inv, StoreOK, ChainOK, HandlerOK

\* More records, transactions and receipts disturb neither a handler nor the database.
LEMMA Monotone ==
  ASSUME NEW ins, NEW ins2, NEW snt, NEW snt2, NEW rcp, NEW rcp2,
         ins \subseteq ins2, StartsWith(snt2, snt), StartsWith(rcp2, rcp)
  PROVE  /\ \A op, tx : Documented(op, tx, ins) => Documented(op, tx, ins2)
         /\ \A a : RecordOK(a, snt, rcp) => RecordOK(a, snt2, rcp2)
         /\ \A r, n : HandlerOK(r, n, ins, snt, rcp) => HandlerOK(r, n, ins2, snt2, rcp2)
         /\ \A st : StoreOK(st, ins, snt, rcp) /\ ins2 = ins => StoreOK(st, ins2, snt2, rcp2)
<1>1. /\ \A op, tx : Documented(op, tx, ins) => Documented(op, tx, ins2)
      /\ RevocationLogged(ins) => RevocationLogged(ins2)
  BY DEF Documented, RevocationLogged
<1>2. \A a : RecordOK(a, snt, rcp) => RecordOK(a, snt2, rcp2)
  BY DEF RecordOK, StartsWith
<1>3. ASSUME NEW r, NEW n, HandlerOK(r, n, ins, snt, rcp)
      PROVE  HandlerOK(r, n, ins2, snt2, rcp2)
  <2>1. \A o : Held(r, n, o, ins, snt, rcp) => Held(r, n, o, ins2, snt2, rcp2)
    BY <1>1, <1>2 DEF Held
  <2>2. Storing(r, n, ins) => Storing(r, n, ins2)
    BY <1>1 DEF Storing
  <2> QED BY <1>1, <1>3, <2>1, <2>2 DEF HandlerOK, StartsWith
<1>4. \A st : StoreOK(st, ins, snt, rcp) /\ ins2 = ins => StoreOK(st, ins2, snt2, rcp2)
  BY <1>2 DEF StoreOK
<1> QED BY <1>1, <1>2, <1>3, <1>4

\* A step of one handler.
LEMMA Frame ==
  ASSUME Inv, NEW h \in Handlers, NEW r, NEW n,
         req' = [req EXCEPT ![h] = r], nonce' = [nonce EXCEPT ![h] = n],
         HandlerOK(r, n, inserted', sent', receipts'),
         StoreOK(store', inserted', sent', receipts'),
         ChainOK(chain', block', inserted', sent', receipts'),
         inserted \subseteq inserted', StartsWith(sent', sent), StartsWith(receipts', receipts)
  PROVE  Inv'
<1>1. r \in Requests(Names, Items) /\ n \in Nat
  BY DEF HandlerOK
<1>2. req' \in [Handlers -> Requests(Names, Items)] /\ nonce' \in [Handlers -> Nat]
  BY <1>1 DEF Inv
<1>3. ASSUME NEW g \in Handlers PROVE HandlerOK(req'[g], nonce'[g], inserted', sent', receipts')
  <2>1. CASE g = h
    BY <2>1 DEF Inv
  <2>2. CASE g # h
    <3>1. req'[g] = req[g] /\ nonce'[g] = nonce[g]
      BY <2>2 DEF Inv
    <3>2. HandlerOK(req[g], nonce[g], inserted, sent, receipts)
      BY DEF Inv
    <3>3. HandlerOK(req[g], nonce[g], inserted', sent', receipts')
      BY <3>2, Monotone
    <3> QED BY <3>1, <3>3
  <2> QED BY <2>1, <2>2
<1> QED BY <1>2, <1>3 DEF Inv

\* A step of one handler that sends and stores nothing.
LEMMA QuietFrame ==
  ASSUME Inv, NEW h \in Handlers, NEW r, NEW n,
         req' = [req EXCEPT ![h] = r], nonce' = [nonce EXCEPT ![h] = n],
         UNCHANGED <<database, ledger, sent>>,
         HandlerOK(r, n, inserted, sent, receipts)
  PROVE  Inv'
<1>1. /\ store' = store /\ inserted' = inserted /\ chain' = chain /\ block' = block
      /\ receipts' = receipts /\ sent' = sent
  BY DEF database, ledger
<1>2. StoreOK(store, inserted, sent, receipts) /\ ChainOK(chain, block, inserted, sent, receipts)
  BY DEF Inv
<1>3. StartsWith(sent, sent) /\ StartsWith(receipts, receipts)
  BY DEF StartsWith
<1> QED BY <1>1, <1>2, <1>3, Frame

\* A handler that does nothing holds nothing.
LEMMA IdleOK ==
  /\ \A ins, snt, rcp : HandlerOK(Idle, NoTx, ins, snt, rcp)
  /\ Idle.session.objs = <<>> /\ Idle.pc = "idle"
<1>1. /\ Idle \in Requests(Names, Items) /\ Idle.pc = "idle" /\ Idle.op = "none"
      /\ Idle.session.objs = <<>>
  BY IdleType, NamesBasic
<1>2. DOMAIN Idle.session.objs = {}
  BY <1>1
<1> QED BY <1>1, <1>2 DEF HandlerOK, NoTx, Ops, Anchorings

\* Handler h ends.
Ended(h) == req' = [req EXCEPT ![h] = Idle] /\ nonce' = [nonce EXCEPT ![h] = NoTx]

\* A handler that gives up, is refused or fails leaves everything as it is.
LEMMA EndOK ==
  ASSUME Inv, NEW h \in Handlers, End(h), UNCHANGED <<database, ledger, sent>>
  PROVE  Inv' /\ Ended(h)
<1>1. Ended(h)
  BY DEF End, Ended
<1> QED BY <1>1, IdleOK, QuietFrame DEF Ended

\* Handler h takes a request and has read the credential or revokes it.
Begun(h) ==
  /\ req[h].pc = "idle" /\ req' = [req EXCEPT ![h] = req'[h]]
  /\ nonce' = [nonce EXCEPT ![h] = nonce[h]]
  /\ req'[h].pc \in {"nonce", "flush"}
  /\ \A m \in DOMAIN req'[h].session.objs :
       req'[h].session.objs[m].id = Credential =>
         req'[h].session.objs[m].val.status \in {store.status, "revoked"}
  /\ UNCHANGED <<database, ledger, sent, stale, abandoned>>

\* Taking a request with r.
LEMMA BeginOK ==
  ASSUME Inv, NEW h \in Handlers, NEW r, Begin(h, r),
         r.pc \in {"nonce", "flush"}, HandlerOK(r, NoTx, inserted, sent, receipts),
         \A m \in DOMAIN r.session.objs :
           r.session.objs[m].id = Credential => r.session.objs[m].val.status \in {store.status, "revoked"}
  PROVE  Inv' /\ Begun(h)
<1>1. /\ req[h].pc = "idle" /\ req' = [req EXCEPT ![h] = r] /\ nonce' = nonce
      /\ UNCHANGED <<database, ledger, sent, stale, abandoned>>
  BY DEF Begin, Idles
<1>2. nonce[h] = NoTx /\ req'[h] = r /\ nonce' = [nonce EXCEPT ![h] = nonce[h]]
  BY <1>1, Facts DEF HandlerOK
<1>3. Begun(h)
  BY <1>1, <1>2 DEF Begun
<1>4. Inv'
  BY <1>1, <1>2, QuietFrame
<1> QED BY <1>3, <1>4

\* The credential as it is stored may be held by a handler.
LEMMA StoredHeld ==
  ASSUME Inv
  PROVE  \A r, n : Held(r, n, [id |-> Credential, val |-> store], inserted, sent, receipts)
BY DEF Inv, StoreOK, Held, Credential

\* A handler that has read the credential.
LEMMA ReadOK ==
  ASSUME Inv, NEW h \in Handlers, NEW op \in Anchorings, Begin(h, Read(op, "nonce")),
         op = "anchor_revocation" => store.status = "revoked"
  PROVE  Inv' /\ Begun(h)
<1> DEFINE s == Fetch(NoSession, Credential, store)
           o == [id |-> Credential, val |-> store]
           r == Start(op, s, "nonce")
<1>1. o \in Items
  BY Facts, IsItem
<1>2. s \in Sessions(Items) /\ s.objs = Append(<<>>, o) /\ s.pending = <<>>
  <2>1. NoSession \in Sessions(Items) /\ NoSession.objs = <<>> /\ NoSession.pending = <<>>
    BY NoSessionType DEF NoSession
  <2> QED BY <1>1, <2>1, FetchType
<1>3. Len(s.objs) = 1 /\ s.objs[1] = o /\ \A m \in DOMAIN s.objs : s.objs[m] = o
  <2> HIDE DEF o, s
  <2>1. \A q : q = Append(<<>>, o) => Len(q) = 1 /\ q[1] = o /\ \A m \in DOMAIN q : q[m] = o
    BY <1>1
  <2> QED BY <1>2, <2>1
<1> HIDE DEF s
<1>4. r \in Requests(Names, Items) /\ r.session = s /\ r.pc = "nonce" /\ r.op = op
  <2>1. op \in Names /\ "nonce" \in Names /\ "nonce" # "flush" /\ Basic \subseteq Names
    BY NamesBasic DEF Names, Ops
  <2> QED BY SMTT(40), <1>2, <2>1, StartType
<1>5. op = "anchor_revocation" => RevocationLogged(inserted)
  BY DEF Inv, StoreOK
<1>6. o.id = Credential /\ o.val = store
  OBVIOUS
<1>7. Held(r, NoTx, o, inserted, sent, receipts)
  BY StoredHeld
<1> HIDE DEF r, o
<1>8. HandlerOK(r, NoTx, inserted, sent, receipts)
  BY <1>2, <1>3, <1>4, <1>5, <1>6, <1>7 DEF HandlerOK, Anchorings, NoTx
<1>9. Begin(h, r)
  BY DEF Read, r, s
<1> QED BY <1>3, <1>4, <1>6, <1>8, <1>9, BeginOK

\* What log_event leaves to store: what is pending, and then its record.
LEMMA LogFacts ==
  ASSUME NEW r \in Requests(Names, Items), NEW e, AuditItem(e) \in Items, NEW f, f = LogEvent(r, e, "idle")
  PROVE  /\ f \in Requests(Names, Items) /\ f.op = r.op /\ f.pc = "flush" /\ f.then = "idle"
         /\ f.session.objs = Append(r.session.objs, AuditItem(e))
         /\ r.session.pending = <<>> => NextObject(f) = AuditItem(e)
         /\ \A n \in DOMAIN r.session.objs :
              r.session.pending = <<n>> =>
                /\ NextObject(f) = r.session.objs[n]
                /\ 2 \in DOMAIN f.writing /\ f.session.objs[f.writing[2]] = AuditItem(e)
<1> DEFINE g == r.session.objs
           o == AuditItem(e)
           q == f.session.objs
           p == r.session.pending
           k == Len(g) + 1
<1>1. /\ f \in Requests(Names, Items) /\ q = Append(g, o)
      /\ f.op = r.op /\ f.pc = "flush" /\ f.then = "idle"
      /\ StartsWith(f.writing, Append(p, k))
  <2>1. "idle" \in Names /\ "idle" # "flush" /\ Basic \subseteq Names
    BY NamesBasic DEF Basic
  <2>2. Recording(Names, Items, r, e, "idle", f)
    BY <2>1, LogEventType
  <2> QED BY <2>2 DEF Recording
<1>2. g \in Seq(Items) /\ o \in Items
  <2>1. r.session \in Sessions(Items)
    BY DEF Requests, Shape
  <2> QED BY <2>1 DEF Sessions
<1>3. NextObject(f) = q[f.writing[1]]
  BY <1>1, NextObjectType, NamesBasic
<1> HIDE DEF g, o, q, p
<1>4. Len(q) = k /\ q[k] = o /\ (\A m \in DOMAIN g : q[m] = g[m]) /\ k \in Nat /\ DOMAIN g \subseteq Nat
  BY <1>1, <1>2, AppendFacts
<1> HIDE DEF k
<1>5. ASSUME p = <<>> PROVE NextObject(f) = o
  <2>1. \A w : w = Append(p, k) => 1 \in DOMAIN w /\ w[1] = k
    BY <1>4, <1>5
  <2>2. f.writing[1] = k
    BY <1>1, <2>1 DEF StartsWith
  <2> QED BY <1>3, <1>4, <2>2
<1>6. ASSUME NEW n \in DOMAIN g, p = <<n>>
      PROVE  NextObject(f) = g[n] /\ 2 \in DOMAIN f.writing /\ q[f.writing[2]] = o
  <2>1. \A w : w = Append(p, k) => 1 \in DOMAIN w /\ w[1] = n /\ 2 \in DOMAIN w /\ w[2] = k
    BY <1>4, <1>6
  <2>2. f.writing[1] = n /\ 2 \in DOMAIN f.writing /\ f.writing[2] = k
    BY <1>1, <2>1 DEF StartsWith
  <2> QED BY <1>3, <1>4, <1>6, <2>2
<1> QED BY <1>1, <1>5, <1>6 DEF g, o, q, p

\* A revocation: its record is the first thing it stores.
LEMMA RevokeOK ==
  ASSUME Inv, NEW h \in Handlers, Revoke(h)
  PROVE  Inv' /\ Begun(h)
<1> DEFINE new == [store EXCEPT !.status = "revoked"]
           p == [id |-> Credential, val |-> new]
           e == <<"revoke", NoTx>>
           s == Assign(Fetch(NoSession, Credential, store), 1, new)
           a == Start("revoke", s, "log")
           r == LogEvent(a, e, "idle")
<1>1. /\ new \in Credentials /\ [id |-> Credential, val |-> store] \in Items /\ p \in Items
      /\ new.tx = store.tx /\ new.status = "revoked" /\ AuditItem(e) \in Items
  <2>1. new \in Credentials /\ store \in Credentials /\ e \in Events
    BY Facts DEF Credentials, Events, NoTx, Ops
  <2> QED BY <2>1, IsItem, Facts DEF Credentials
<1> HIDE DEF new
<1>2. s \in Sessions(Items) /\ (\A n \in DOMAIN s.objs : s.objs[n] = p) /\ s.pending = <<>>
  BY <1>1, FirstObject
<1> HIDE DEF s
<1>3. a \in Requests(Names, Items) /\ a.session = s /\ a.op = "revoke"
  BY <1>2, StartType, NamesBasic DEF Names, Ops
<1> HIDE DEF a
<1>4. /\ r \in Requests(Names, Items) /\ r.op = "revoke" /\ r.pc = "flush" /\ r.then = "idle"
      /\ r.session.objs = Append(s.objs, AuditItem(e)) /\ NextObject(r) = AuditItem(e)
  <2>1. a.session.pending = <<>> /\ a.session.objs = s.objs
    BY <1>2, <1>3
  <2>2. a \in Requests(Names, Items) /\ AuditItem(e) \in Items
    BY <1>1, <1>3
  <2>3. r = LogEvent(a, e, "idle")
    OBVIOUS
  <2> HIDE DEF e, r
  <2> QED BY <1>3, <2>1, <2>2, <2>3, LogFacts
<1> HIDE DEF r
<1>5. \A m \in DOMAIN r.session.objs : r.session.objs[m] \in {p, AuditItem(e)}
  <2> DEFINE g == s.objs
             o == AuditItem(e)
             q == r.session.objs
  <2>1. g \in Seq(Items) /\ o \in Items /\ q = Append(g, o)
    BY <1>1, <1>2, <1>4 DEF Sessions
  <2>2. \A m \in DOMAIN g : g[m] = p
    BY <1>2
  <2> HIDE DEF g, o, q
  <2>3. \A m \in DOMAIN q : q[m] \in {p, o}
    BY <2>1, <2>2, AppendFacts
  <2> QED BY <2>3 DEF o, q
<1>6. p.id = Credential /\ p.val = new /\ AuditItem(e).id = "audit"
  BY DEF AuditItem
<1>7. Held(r, NoTx, p, inserted, sent, receipts) /\ Held(r, NoTx, AuditItem(e), inserted, sent, receipts)
  <2>1. store.tx # NoTx => Documented("anchor", store.tx, inserted)
    BY DEF Inv, StoreOK
  <2> QED BY <1>1, <1>4, <1>6, <2>1 DEF Held, Credential
<1> HIDE DEF p
<1>8. HandlerOK(r, NoTx, inserted, sent, receipts)
  BY <1>4, <1>5, <1>7 DEF HandlerOK, Storing, Ops, Anchorings, NoTx, e
<1>9. Begin(h, r)
  BY DEF Revoke, r, a, s, new
<1> QED BY <1>1, <1>4, <1>5, <1>6, <1>8, <1>9, BeginOK DEF Credential

\* Handler h goes on, and does not store anything.
Works(h) ==
  /\ req[h].pc \in {"nonce", "send"}
  /\ req' = [req EXCEPT ![h] = req'[h]] /\ nonce' = [nonce EXCEPT ![h] = nonce'[h]]
  /\ req'[h].session = req[h].session /\ req'[h].op = req[h].op
  /\ UNCHANGED <<database, ledger, stale, abandoned>>

\* A request with another place is one that holds the same.
LEMMA MovedType ==
  ASSUME NEW r \in Requests(Names, Items), r.pc # "flush", NEW pc \in {"send", "wait"},
         NEW q, q = [r EXCEPT !.pc = pc]
  PROVE  /\ q \in Requests(Names, Items) /\ q.session = r.session /\ q.op = r.op /\ q.pc = pc
<1>1. r \in Shape(Names, Items) /\ Sound(r)
  BY DEF Requests
<1>2. q \in Shape(Names, Items) /\ q.session = r.session /\ q.op = r.op /\ q.pc = pc /\ q.writing = r.writing
  BY <1>1 DEF Shape, Names
<1>3. Sound(q)
  BY <1>1, <1>2 DEF Sound
<1> QED BY <1>2, <1>3 DEF Requests

\* Reading the nonce.
LEMMA ReadNonceOK ==
  ASSUME Inv, NEW h \in Handlers, ReadNonce(h)
  PROVE  Inv' /\ Works(h) /\ req'[h].pc = "send" /\ sent' = sent
<1> DEFINE q == [req[h] EXCEPT !.pc = "send"]
           n == Len(sent) + 1
<1>1. /\ req[h].pc = "nonce" /\ req' = [req EXCEPT ![h] = q] /\ nonce' = [nonce EXCEPT ![h] = n]
      /\ UNCHANGED <<database, ledger, sent, stale, abandoned>>
  BY DEF ReadNonce
<1>2. /\ HandlerOK(req[h], nonce[h], inserted, sent, receipts) /\ req[h] \in Requests(Names, Items)
      /\ n \in Nat
  BY Facts
<1>3. /\ q \in Requests(Names, Items) /\ q.session = req[h].session /\ q.op = req[h].op /\ q.pc = "send"
  BY <1>1, <1>2, MovedType
<1>4. req'[h] = q /\ nonce'[h] = n
  BY <1>1, Facts
<1> HIDE DEF q, n
<1>5. HandlerOK(q, n, inserted, sent, receipts)
  <2>1. \A o : Held(req[h], nonce[h], o, inserted, sent, receipts) => Held(q, n, o, inserted, sent, receipts)
    BY <1>1, <1>3 DEF Held
  <2> QED BY <1>1, <1>2, <1>3, <2>1 DEF HandlerOK, Anchorings
<1>6. Inv'
  BY <1>1, <1>5, QuietFrame
<1> QED BY <1>1, <1>3, <1>4, <1>6 DEF Works

\* Sending a transaction: its number is new.
LEMMA SendOK ==
  ASSUME Inv, NEW h \in Handlers, Send(h)
  PROVE  /\ Inv' /\ Works(h) /\ req'[h].pc = "wait" /\ nonce' = nonce
         /\ nonce[h] \notin DOMAIN sent /\ DOMAIN sent' = DOMAIN sent \cup {nonce[h]}
<1> DEFINE q == [req[h] EXCEPT !.pc = "wait"]
           n == nonce[h]
           call == CallOf(req[h].op)
<1>1. /\ req[h].pc = "send" /\ req' = [req EXCEPT ![h] = q] /\ nonce' = nonce
      /\ n = Len(sent) + 1
      /\ UNCHANGED <<database, ledger, stale, abandoned>>
  BY DEF Send, Free
<1>2. sent' = Append(sent, call)
  BY DEF Send, Target, CallOf
<1>3. /\ HandlerOK(req[h], n, inserted, sent, receipts) /\ req[h] \in Requests(Names, Items)
      /\ n \in Nat /\ req[h].op \in Anchorings
  BY <1>1, Facts DEF HandlerOK
<1>4. /\ q \in Requests(Names, Items) /\ q.session = req[h].session /\ q.op = req[h].op /\ q.pc = "wait"
  BY <1>1, <1>3, MovedType
<1>5. req'[h] = q /\ nonce' = [nonce EXCEPT ![h] = n] /\ nonce'[h] = nonce[h]
  BY <1>1, Facts
<1>6. /\ sent' \in Seq({CallOf(op) : op \in Anchorings})
      /\ n \notin DOMAIN sent /\ DOMAIN sent' = DOMAIN sent \cup {n} /\ sent'[n] = call
      /\ StartsWith(sent', sent)
  <2> DEFINE C == {CallOf(op) : op \in Anchorings}
  <2>1. sent \in Seq(C) /\ call \in C
    BY <1>3, Facts
  <2> HIDE DEF C, call, n
  <2>2. /\ sent' \in Seq(C) /\ n \notin DOMAIN sent /\ DOMAIN sent' = DOMAIN sent \cup {n}
        /\ sent'[n] = call /\ StartsWith(sent', sent)
    BY <1>1, <1>2, <2>1 DEF StartsWith
  <2> QED BY <2>2 DEF C, n
<1> HIDE DEF q, n, call
<1>7. HandlerOK(q, n, inserted, sent', receipts)
  <2>1. StartsWith(receipts, receipts)
    BY DEF StartsWith
  <2>2. HandlerOK(req[h], n, inserted, sent', receipts)
    BY <1>3, <1>6, <2>1, Monotone
  <2>3. \A o : Held(req[h], n, o, inserted, sent', receipts) => Held(q, n, o, inserted, sent', receipts)
    BY <1>1, <1>4 DEF Held
  <2> QED BY <1>1, <1>4, <1>6, <2>2, <2>3 DEF HandlerOK, Anchorings, call
<1>8. /\ store' = store /\ inserted' = inserted /\ chain' = chain /\ block' = block /\ receipts' = receipts
      /\ StartsWith(receipts, receipts)
  BY <1>1 DEF database, ledger, StartsWith
<1>9. StoreOK(store, inserted, sent', receipts)
  BY <1>6, <1>8, Monotone DEF Inv
<1>10. ChainOK(chain, block, inserted, sent', receipts)
  <2>1. \A tx \in DOMAIN sent : sent'[tx] = sent[tx]
    BY <1>6 DEF StartsWith
  <2>2. call = CallOf("anchor_revocation") => RevocationLogged(inserted)
    <3>1. req[h].op = "anchor_revocation" => RevocationLogged(inserted)
      BY <1>3 DEF HandlerOK
    <3>2. CallOf("anchor") # CallOf("anchor_revocation")
      BY DEF CallOf, Call
    <3> QED BY <1>3, <3>1, <3>2 DEF Anchorings, call
  <2>3. \A tx \in DOMAIN sent' : sent'[tx] = CallOf("anchor_revocation") => RevocationLogged(inserted)
    BY <1>6, <2>1, <2>2 DEF Inv, ChainOK
  <2>4. /\ DOMAIN receipts \subseteq DOMAIN sent /\ \A tx \in DOMAIN receipts : sent'[tx] = sent[tx]
    BY <2>1 DEF Inv, ChainOK
  <2> QED BY <1>6, <2>3, <2>4 DEF Inv, ChainOK
<1>11. Inv'
  BY <1>1, <1>5, <1>6, <1>7, <1>8, <1>9, <1>10, Frame
<1> QED BY <1>1, <1>4, <1>5, <1>6, <1>11 DEF Works, n

\* Handler h has its receipt, and goes on to store what it says.
Receives(h) ==
  /\ req[h].pc = "wait" /\ req' = [req EXCEPT ![h] = req'[h]] /\ nonce' = [nonce EXCEPT ![h] = nonce[h]]
  /\ req'[h].pc = "flush"
  /\ \A m \in DOMAIN req'[h].session.objs :
       req'[h].session.objs[m].id = Credential =>
         \E i \in DOMAIN req[h].session.objs :
           /\ req[h].session.objs[i].id = Credential
           /\ req'[h].session.objs[m].val.status = req[h].session.objs[i].val.status
  /\ UNCHANGED <<database, ledger, sent, stale, abandoned>>

\* A credential that notes the transaction tx.
LEMMA NotedType ==
  ASSUME NEW s \in Sessions(Items), Len(s.objs) = 1, s.objs[1].id = Credential, s.pending = <<>>,
         NEW tx \in Nat, NEW t, NEW anchors \in BOOLEAN,
         t = IF anchors THEN Assign(s, 1, Stamped(ValOf(s, 1), tx)) ELSE s
  PROVE  /\ t \in Sessions(Items) /\ Len(t.objs) = 1 /\ t.pending = <<>>
         /\ t.objs[1].id = Credential /\ t.objs[1].val.status = s.objs[1].val.status
         /\ t.objs[1].val.tx = IF anchors THEN tx ELSE s.objs[1].val.tx
<1> DEFINE o == s.objs[1]
           v == Stamped(o.val, tx)
           y == WithVal(o, v)
           g == s.objs
           q == WithObject(g, 1, y)
<1>1. g \in Seq(Items) /\ 1 \in DOMAIN g /\ o \in Items
  BY DEF Sessions
<1>2. o.val \in Credentials /\ o = [id |-> Credential, val |-> o.val]
  BY <1>1, ItemFacts
<1>3. v \in Credentials /\ v.status = o.val.status /\ v.tx = tx
  BY <1>2 DEF Stamped, Credentials
<1>4. y = [id |-> Credential, val |-> v]
  <2> HIDE DEF v, o
  <2> QED BY <1>2 DEF WithVal
<1>5. y \in Items /\ y.id = Credential /\ y.val = v
  BY <1>3, <1>4, IsItem
<1>6. Len(q) = 1 /\ q[1] = y
  <2> HIDE DEF y, g
  <2>1. Len(g) = 1
    BY DEF g
  <2> QED BY <1>1, <1>5, <2>1 DEF WithObject
<1>7. CASE anchors
  <2>1. t = Assign(s, 1, v)
    BY <1>7 DEF ValOf
  <2> HIDE DEF v
  <2>2. y \in Items /\ y = WithVal(s.objs[1], v) /\ 1 \in DOMAIN s.objs
    BY <1>1, <1>5
  <2> HIDE DEF y
  <2>3. t \in Sessions(Items) /\ t.objs = q /\ t.pending = <<>>
    BY <2>1, <2>2, AssignType DEF q, g
  <2> HIDE DEF q
  <2> QED BY <1>3, <1>5, <1>6, <1>7, <2>3
<1>8. CASE ~anchors
  BY <1>8
<1> QED BY <1>7, <1>8

\* A request whose session has grown.
LEMMA GrownType ==
  ASSUME NEW r \in Requests(Names, Items), NEW s \in Sessions(Items),
         DOMAIN r.session.objs \subseteq DOMAIN s.objs, NEW q, q = [r EXCEPT !.session = s]
  PROVE  q \in Requests(Names, Items) /\ q.session = s /\ q.op = r.op /\ q.pc = r.pc
<1>1. r \in Shape(Names, Items) /\ Sound(r)
  BY DEF Requests
<1>2. /\ q \in Shape(Names, Items) /\ q.session = s /\ q.op = r.op /\ q.pc = r.pc /\ q.then = r.then
      /\ q.writing = r.writing
  BY <1>1 DEF Shape
<1>3. Sound(q)
  BY <1>1, <1>2 DEF Sound
<1> QED BY <1>2, <1>3 DEF Requests

\* The receipt is there: the anchor record, the audit record and then the
\* credential are to be stored.
LEMMA ReceiveOK ==
  ASSUME Inv, NEW h \in Handlers, Receive(h)
  PROVE  Inv' /\ Receives(h)
<1> DEFINE r == req[h]
           s == r.session
           n == nonce[h]
           a == [op |-> r.op, tx |-> n, block |-> receipts[n].block, confirmed |-> Confirmed(receipts[n])]
           anchors == r.op = "anchor"
           t == IF anchors THEN Assign(s, 1, Stamped(ValOf(s, 1), n)) ELSE s
           u == AddNew(t, "anchor", a)
           q == [r EXCEPT !.session = u]
           e == <<r.op, n>>
           f == LogEvent(q, e, "idle")
           o == [id |-> "anchor", val |-> a]
<1>1. /\ r.pc = "wait" /\ n \in DOMAIN receipts /\ nonce' = nonce
      /\ UNCHANGED <<database, ledger, sent, stale, abandoned>>
  BY DEF Receive
<1>2. req' = [req EXCEPT ![h] = f]
  BY DEF Receive
<1>3. /\ HandlerOK(r, n, inserted, sent, receipts) /\ r \in Requests(Names, Items) /\ n \in Nat
      /\ r.op \in Anchorings /\ s \in Sessions(Items)
      /\ Len(s.objs) = 1 /\ s.objs[1].id = Credential /\ s.pending = <<>>
      /\ sent[n] = CallOf(r.op) /\ n \in DOMAIN sent
  BY <1>1, Facts DEF HandlerOK
<1>4. receipts[n] \in Receipts
  BY <1>1, Facts
<1>5. a \in Records /\ RecordOK(a, sent, receipts) /\ a.op = r.op /\ a.tx = n
  <2>1. (receipts[n].status = 1) \in BOOLEAN
    OBVIOUS
  <2> QED BY <1>1, <1>3, <1>4, <2>1 DEF Records, RecordOK, Confirmed, Receipts
<1>6. AuditItem(e) \in Items /\ o \in Items
  <2>1. e \in Events
    BY <1>3 DEF Events, Ops
  <2> QED BY <1>5, <2>1, IsItem
<1>7. /\ t \in Sessions(Items) /\ Len(t.objs) = 1 /\ t.pending = <<>>
      /\ t.objs[1].id = Credential /\ t.objs[1].val.status = s.objs[1].val.status
      /\ t.objs[1].val.tx = IF anchors THEN n ELSE s.objs[1].val.tx
  <2>1. anchors \in BOOLEAN /\ t = IF anchors THEN Assign(s, 1, Stamped(ValOf(s, 1), n)) ELSE s
    OBVIOUS
  <2> HIDE DEF t, anchors, s, n
  <2> QED BY <1>3, <2>1, NotedType
<1> HIDE DEF a, t
<1>8. /\ u \in Sessions(Items) /\ u.objs = Append(t.objs, o) /\ u.pending = Append(t.pending, Len(t.objs) + 1)
  <2> DEFINE id == "anchor"
  <2>1. [id |-> id, val |-> a] \in Items /\ t \in Sessions(Items)
    BY <1>6, <1>7
  <2> HIDE DEF id
  <2>2. /\ AddNew(t, id, a) \in Sessions(Items)
        /\ AddNew(t, id, a).objs = Append(t.objs, [id |-> id, val |-> a])
        /\ AddNew(t, id, a).pending = Append(t.pending, Len(t.objs) + 1)
    BY <2>1, AddNewType
  <2> QED BY <2>2 DEF id
<1> HIDE DEF u, o
<1>9. t.objs \in Seq(Items)
  BY <1>7 DEF Sessions
<1>10. /\ Len(u.objs) = 2 /\ DOMAIN u.objs = {1, 2} /\ u.objs[1] = t.objs[1] /\ u.objs[2] = o
       /\ u.pending = <<2>>
  <2> DEFINE g == t.objs
             w == u.objs
  <2>1. g \in Seq(Items) /\ o \in Items /\ w = Append(g, o) /\ Len(g) = 1
    BY <1>6, <1>7, <1>8, <1>9
  <2>2. u.pending = <<2>>
    <3>1. Append(<<>>, 2) = <<2>>
      OBVIOUS
    <3> QED BY <1>7, <1>8, <3>1
  <2> HIDE DEF g, w, o
  <2>3. DOMAIN g = {1}
    BY <2>1
  <2>4. Len(w) = Len(g) + 1 /\ DOMAIN w = DOMAIN g \cup {Len(w)} /\ w[Len(w)] = o /\ \A m \in DOMAIN g : w[m] = g[m]
    <3>1. g \in Seq(Items) /\ o \in Items /\ w = Append(g, o)
      BY <2>1
    <3> QED BY <3>1, AppendFacts
  <2> QED BY <2>1, <2>2, <2>3, <2>4 DEF g, w
<1>11. q \in Requests(Names, Items) /\ q.session = u /\ q.op = r.op
  <2>1. DOMAIN s.objs \subseteq DOMAIN u.objs
    <3> DEFINE g == s.objs
    <3>1. g \in Seq(Items) /\ Len(g) = 1
      BY <1>3 DEF Sessions
    <3> HIDE DEF g
    <3>2. DOMAIN g = {1}
      BY <3>1
    <3> QED BY <1>10, <3>2 DEF g
  <2> QED BY <1>3, <1>8, <2>1, GrownType
<1> HIDE DEF q, e
<1>12. /\ f \in Requests(Names, Items) /\ f.op = r.op /\ f.pc = "flush" /\ f.then = "idle"
       /\ f.session.objs = Append(u.objs, AuditItem(e))
       /\ NextObject(f) = o /\ 2 \in DOMAIN f.writing /\ f.session.objs[f.writing[2]] = AuditItem(e)
  <2>1. q \in Requests(Names, Items) /\ AuditItem(e) \in Items
    BY <1>6, <1>11
  <2>2. 2 \in DOMAIN q.session.objs /\ q.session.pending = <<2>> /\ q.session.objs = u.objs
    BY <1>10, <1>11
  <2>3. f = LogEvent(q, e, "idle")
    OBVIOUS
  <2> HIDE DEF f
  <2> QED BY SMTT(40), <1>10, <1>11, <2>1, <2>2, <2>3, LogFacts
<1> HIDE DEF f
<1>13. \A m \in DOMAIN f.session.objs : f.session.objs[m] \in {t.objs[1], o, AuditItem(e)}
  <2> DEFINE g == u.objs
             y == AuditItem(e)
             w == f.session.objs
  <2>1. g \in Seq(Items) /\ y \in Items /\ w = Append(g, y)
    BY <1>6, <1>8, <1>12 DEF Sessions
  <2>2. \A m \in DOMAIN g : g[m] \in {t.objs[1], o}
    BY <1>10
  <2> HIDE DEF g, y, w
  <2>3. \A m \in DOMAIN w : w[m] \in {t.objs[1], o, y}
    BY <2>1, <2>2, AppendFacts
  <2> QED BY <2>3 DEF g, y, w
<1>14. o.id = "anchor" /\ o.val = a /\ AuditItem(e).id = "audit"
  BY DEF o, AuditItem
<1>15. Held(f, n, t.objs[1], inserted, sent, receipts)
  <2>1. Held(r, n, s.objs[1], inserted, sent, receipts)
    BY <1>3 DEF HandlerOK
  <2> QED BY <1>1, <1>3, <1>7, <1>12, <2>1 DEF Held, Credential, Anchorings
<1>16. Held(f, n, o, inserted, sent, receipts) /\ Held(f, n, AuditItem(e), inserted, sent, receipts)
  BY <1>5, <1>14 DEF Held, Credential
<1>17. HandlerOK(f, n, inserted, sent, receipts)
  <2>1. Storing(f, n, inserted)
    BY <1>3, <1>5, <1>12, <1>14 DEF Storing, o, e, Anchorings
  <2>2. f.op = "anchor_revocation" => RevocationLogged(inserted)
    BY <1>3, <1>12 DEF HandlerOK
  <2> QED BY <1>3, <1>12, <1>13, <1>15, <1>16, <2>1, <2>2 DEF HandlerOK, Anchorings, Ops
<1>18. nonce' = [nonce EXCEPT ![h] = n] /\ req'[h] = f
  BY <1>1, <1>2, Facts
<1>19. Inv'
  BY <1>1, <1>2, <1>17, <1>18, QuietFrame
<1>20. ASSUME NEW m \in DOMAIN f.session.objs, f.session.objs[m].id = Credential
       PROVE  \E i \in DOMAIN s.objs : s.objs[i].id = Credential /\ f.session.objs[m].val.status = s.objs[i].val.status
  <2>1. f.session.objs[m] = t.objs[1]
    BY <1>13, <1>14, <1>20 DEF Credential
  <2>2. 1 \in DOMAIN s.objs
    BY <1>3 DEF Sessions
  <2> QED BY <1>3, <1>7, <2>1, <2>2
<1>21. req' = [req EXCEPT ![h] = req'[h]]
  BY <1>2, <1>18
<1>22. Receives(h)
  BY <1>1, <1>12, <1>18, <1>20, <1>21 DEF Receives
<1> QED BY <1>19, <1>22

\* Handler h stores the object o.
Stores(h, o) ==
  /\ req[h].pc = "flush" /\ o \in Items
  /\ \E m \in DOMAIN req[h].session.objs : o = req[h].session.objs[m]
  /\ \/ o.id = Credential /\ store' = o.val /\ UNCHANGED inserted
     \/ o.id \in {"anchor", "audit"} /\ inserted' = inserted \cup {<<o.id, o.val>>} /\ UNCHANGED store
  /\ UNCHANGED <<ledger, sent, abandoned>>

\* It was the last one, and what handler h had to document is documented; or
\* there is more to store.
Concludes(h) ==
  Ended(h) /\ (req[h].op \in Anchorings => Documented(req[h].op, nonce[h], inserted'))
GoesOn(h) ==
  /\ req' = [req EXCEPT ![h] = req'[h]] /\ nonce' = [nonce EXCEPT ![h] = nonce[h]]
  /\ req'[h].pc = "flush" /\ req'[h].session.objs = req[h].session.objs

\* The object that is next goes into the credential or into the records, and the
\* database stays as it should be.
LEMMA WriteStore ==
  ASSUME Inv, NEW h \in Handlers, Write(h), NEW o, o = NextObject(req[h])
  PROVE  /\ Stores(h, o) /\ inserted \subseteq inserted'
         /\ StoreOK(store', inserted', sent, receipts)
<1> DEFINE r == req[h]
           n == nonce[h]
<1>1. /\ HandlerOK(r, n, inserted, sent, receipts) /\ r.pc = "flush" /\ r \in Requests(Names, Items)
      /\ StoreOK(store, inserted, sent, receipts) /\ r.op \in Ops
  BY Facts DEF Write, Inv, HandlerOK
<1>2. /\ r.writing[1] \in DOMAIN r.session.objs /\ o = r.session.objs[r.writing[1]] /\ o \in Items
  BY <1>1, NextObjectType, NamesBasic
<1>3. /\ o.id = Credential => o.val \in Credentials
      /\ o.id = "anchor" => o.val \in Records
      /\ o.id = "audit" => o.val \in Events
      /\ o.id \in {Credential, "anchor", "audit"}
  BY <1>2, ItemFacts
<1>4. /\ IF o.id = Credential THEN store' = o.val /\ UNCHANGED inserted
         ELSE inserted' = inserted \cup {<<o.id, o.val>>} /\ UNCHANGED store
      /\ UNCHANGED <<ledger, sent, abandoned>>
  BY DEF Write
<1>5. Stores(h, o)
  BY <1>1, <1>2, <1>3, <1>4 DEF Stores
<1>6. Held(r, n, o, inserted, sent, receipts) /\ Storing(r, n, inserted)
  BY <1>1, <1>2 DEF HandlerOK
<1>7. CASE o.id = Credential
  <2>1. \A e : o # AuditItem(e)
    BY <1>7 DEF AuditItem, Credential
  <2>2. \A a : o # [id |-> "anchor", val |-> a]
    BY <1>7 DEF Credential
  <2>3. IF r.op = "revoke" THEN RevocationLogged(inserted) ELSE Documented(r.op, n, inserted)
    BY <1>6, <2>1, <2>2 DEF Storing
  <2>4. /\ o.val.tx # NoTx => Documented("anchor", o.val.tx, inserted)
        /\ o.val.status = "revoked" => RevocationLogged(inserted)
    BY <1>6, <1>7, <2>3 DEF Held
  <2>5. StoreOK(o.val, inserted, sent, receipts)
    BY <1>1, <1>3, <1>7, <2>4 DEF StoreOK
  <2> QED BY <1>4, <1>5, <1>7, <2>5
<1>8. CASE o.id # Credential
  <2>1. inserted' = inserted \cup {<<o.id, o.val>>} /\ store' = store /\ inserted \subseteq inserted'
    BY <1>4, <1>8
  <2>2. inserted' \subseteq ({"anchor"} \X Records) \cup ({"audit"} \X Events)
    BY <1>1, <1>3, <1>8, <2>1 DEF StoreOK
  <2>3. ASSUME NEW a \in Records, <<"anchor", a>> \in inserted' PROVE RecordOK(a, sent, receipts)
    <3>1. <<"anchor", a>> \in inserted \/ (o.id = "anchor" /\ o.val = a)
      BY <2>1, <2>3
    <3> QED BY <1>1, <1>6, <3>1 DEF StoreOK, Held
  <2>4. /\ store.tx # NoTx => Documented("anchor", store.tx, inserted')
        /\ store.status = "revoked" => RevocationLogged(inserted')
    BY <1>1, <2>1 DEF StoreOK, Documented, RevocationLogged
  <2>5. StoreOK(store', inserted', sent, receipts)
    BY <1>1, <2>1, <2>2, <2>3, <2>4 DEF StoreOK
  <2> QED BY <1>5, <2>1, <2>5
<1> QED BY <1>7, <1>8

\* What the records of a handler are after one of them is stored.
LEMMA Stored ==
  ASSUME Inv, NEW h \in Handlers, NEW o, o = NextObject(req[h]), Stores(h, o),
         NEW f \in Requests(Names, Items), f.op = req[h].op, f.session.objs = req[h].session.objs
  PROVE  /\ req[h].op = "revoke" => RevocationLogged(inserted')
         /\ f.pc = "flush" /\ f.writing = Tail(req[h].writing) /\ Len(req[h].writing) > 1
              => Storing(f, nonce[h], inserted')
         /\ Len(req[h].writing) = 1 /\ req[h].op # "revoke" => Documented(req[h].op, nonce[h], inserted')
<1> DEFINE r == req[h]
           n == nonce[h]
           w == r.writing
           v == f.writing
<1>1. /\ HandlerOK(r, n, inserted, sent, receipts) /\ Storing(r, n, inserted) /\ r.pc = "flush" /\ w \in Seq(Nat)
  BY Facts DEF Stores, HandlerOK, Shape
<1>2. /\ inserted \subseteq inserted'
      /\ o.id \in {"anchor", "audit"} => <<o.id, o.val>> \in inserted'
  BY DEF Stores, Credential
<1>3. \A e : o = AuditItem(e) => <<"audit", e>> \in inserted'
  BY <1>2 DEF AuditItem
<1>4. \A a : o = [id |-> "anchor", val |-> a] => <<"anchor", a>> \in inserted'
  BY <1>2
<1>5. r.op = "revoke" => RevocationLogged(inserted')
  BY <1>1, <1>2, <1>3 DEF Storing, RevocationLogged
<1> DEFINE Halfway == \E a \in Records : <<"anchor", a>> \in inserted' /\ a.op = r.op /\ a.tx = n
<1>6. r.op # "revoke" => \/ Documented(r.op, n, inserted')
                         \/ /\ Halfway /\ 2 \in DOMAIN w
                            /\ r.session.objs[w[2]] = AuditItem(<<r.op, n>>)
  <2>1. CASE Documented(r.op, n, inserted)
    BY <1>2, <2>1 DEF Documented
  <2>2. CASE /\ \E a \in Records : <<"anchor", a>> \in inserted /\ a.op = r.op /\ a.tx = n
             /\ o = AuditItem(<<r.op, n>>)
    BY <1>2, <1>3, <2>2 DEF Documented
  <2>3. CASE /\ \E a \in Records : o = [id |-> "anchor", val |-> a] /\ a.op = r.op /\ a.tx = n
             /\ 2 \in DOMAIN w /\ r.session.objs[w[2]] = AuditItem(<<r.op, n>>)
    BY <1>4, <2>3
  <2> QED BY <1>1, <2>1, <2>2, <2>3 DEF Storing
<1>7. ASSUME f.pc = "flush", v = Tail(w), Len(w) > 1
      PROVE  Storing(f, n, inserted')
  <2>1. CASE r.op = "revoke"
    BY <1>5, <2>1 DEF Storing
  <2>2. CASE r.op # "revoke" /\ Documented(r.op, n, inserted')
    BY <2>2 DEF Storing
  <2>3. CASE r.op # "revoke" /\ Halfway /\ 2 \in DOMAIN w /\ r.session.objs[w[2]] = AuditItem(<<r.op, n>>)
    <3>1. NextObject(f) = f.session.objs[v[1]]
      BY <1>7, NextObjectType, NamesBasic
    <3>2. v[1] = w[2]
      <4> HIDE DEF w, v
      <4>1. \A j \in DOMAIN w : j \in Nat /\ (j # 1 => j - 1 \in DOMAIN v /\ v[j - 1] = w[j])
        BY <1>1, <1>7, TailFacts
      <4> QED BY <2>3, <4>1
    <3> QED BY <2>3, <3>1, <3>2 DEF Storing
  <2> QED BY <1>6, <2>1, <2>2, <2>3
<1>8. ASSUME Len(w) = 1 PROVE 2 \notin DOMAIN w
  <2> HIDE DEF w
  <2> QED BY <1>1, <1>8
<1> QED BY <1>5, <1>6, <1>7, <1>8

\* A write preserves the invariant: what the object rests on was stored before.
LEMMA WriteOK ==
  ASSUME Inv, NEW h \in Handlers, Write(h)
  PROVE  Inv' /\ Stores(h, NextObject(req[h])) /\ (Concludes(h) \/ GoesOn(h))
<1> DEFINE r == req[h]
           n == nonce[h]
           o == NextObject(r)
           f == AfterWrite(r)
<1>1. /\ HandlerOK(r, n, inserted, sent, receipts) /\ r.pc = "flush" /\ r \in Requests(Names, Items)
      /\ r.op \in Ops /\ r.then = "idle"
  BY Facts DEF Write, HandlerOK
<1>2. Stores(h, o) /\ StoreOK(store', inserted', sent, receipts) /\ inserted \subseteq inserted'
  BY WriteStore
<1>3. /\ f \in Requests(Names, Items)
      /\ f.session.objs = r.session.objs /\ f.op = r.op
      /\ \/ /\ f.pc = "flush" /\ f.then = r.then /\ f.writing = Tail(r.writing)
            /\ f.session = r.session /\ Len(r.writing) > 1
         \/ /\ f.pc = r.then /\ r.then # "flush" /\ Len(r.writing) = 1
            /\ f.session.pending = <<>> /\ f.writing = <<>>
  BY <1>1, AfterWriteType, NamesBasic
<1>4. \/ f.pc = "idle" /\ Ended(h)
      \/ f.pc # "idle" /\ req' = [req EXCEPT ![h] = f] /\ nonce' = nonce
  BY DEF Write, Ended
<1> HIDE DEF f
<1>5. /\ r.op = "revoke" => RevocationLogged(inserted')
      /\ f.pc = "flush" /\ f.writing = Tail(r.writing) /\ Len(r.writing) > 1 => Storing(f, n, inserted')
      /\ Len(r.writing) = 1 /\ r.op # "revoke" => Documented(r.op, n, inserted')
  BY <1>2, <1>3, Stored
<1> HIDE DEF o
<1>6. /\ chain' = chain /\ block' = block /\ receipts' = receipts /\ sent' = sent
      /\ StartsWith(sent, sent) /\ StartsWith(receipts, receipts)
  BY <1>2 DEF Stores, ledger, StartsWith
<1>7. ChainOK(chain, block, inserted', sent, receipts)
  <2>1. RevocationLogged(inserted) => RevocationLogged(inserted')
    BY <1>2 DEF RevocationLogged
  <2> QED BY <2>1 DEF Inv, ChainOK
<1>8. CASE f.pc = "idle" /\ Ended(h)
  <2>1. HandlerOK(Idle, NoTx, inserted', sent', receipts')
    BY IdleOK
  <2>2. Inv'
    BY <1>2, <1>6, <1>7, <1>8, <2>1, Frame DEF Ended
  <2>3. Concludes(h)
    BY <1>3, <1>5, <1>8 DEF Concludes, Anchorings
  <2> QED BY <1>2, <2>2, <2>3 DEF o
<1>9. CASE f.pc # "idle" /\ req' = [req EXCEPT ![h] = f] /\ nonce' = nonce
  <2>1. nonce' = [nonce EXCEPT ![h] = n] /\ req'[h] = f
    BY <1>9, Facts
  <2>2. /\ f.pc = "flush" /\ f.then = "idle" /\ Storing(f, n, inserted')
    BY <1>1, <1>3, <1>5, <1>9
  <2>3. HandlerOK(r, n, inserted', sent, receipts)
    BY <1>1, <1>2, <1>6, Monotone
  <2>4. \A y : Held(r, n, y, inserted', sent, receipts) => Held(f, n, y, inserted', sent, receipts)
    BY <1>1, <1>3, <2>2 DEF Held
  <2>5. HandlerOK(f, n, inserted', sent, receipts)
    BY <1>1, <1>3, <2>2, <2>3, <2>4 DEF HandlerOK
  <2>6. Inv'
    BY <1>2, <1>6, <1>7, <1>9, <2>1, <2>5, Frame
  <2>7. GoesOn(h)
    BY <1>3, <1>9, <2>1, <2>2 DEF GoesOn
  <2> QED BY <1>2, <2>6, <2>7 DEF o
<1> QED BY <1>4, <1>8, <1>9

-----------------------------------------------------------------------------
(* Steps of the chain. *)

\* The chain moves on, and nothing else.
Moves == UNCHANGED <<database, sent, req, nonce, stale, abandoned>> /\ StartsWith(receipts', receipts)

\* A step of the chain.
LEMMA ChainFrame ==
  ASSUME Inv, Moves, ChainOK(chain', block', inserted, sent, receipts')
  PROVE  Inv'
<1>1. /\ store' = store /\ inserted' = inserted /\ sent' = sent /\ req' = req /\ nonce' = nonce
      /\ StartsWith(sent, sent) /\ StartsWith(receipts', receipts)
  BY DEF Moves, database, StartsWith
<1>2. StoreOK(store', inserted', sent', receipts')
  BY <1>1, Monotone DEF Inv
<1>3. \A h \in Handlers : HandlerOK(req[h], nonce[h], inserted, sent, receipts')
  BY <1>1, Monotone DEF Inv
<1> QED BY <1>1, <1>2, <1>3 DEF Inv

\* Every transaction is that of an operation.
LEMMA SentCall ==
  ASSUME Inv, NEW tx \in DOMAIN sent
  PROVE  \E op \in Anchorings : sent[tx] = CallOf(op)
<1> DEFINE C == {CallOf(op) : op \in Anchorings}
<1>1. sent \in Seq(C)
  BY Facts
<1> HIDE DEF C
<1>2. sent[tx] \in C
  BY <1>1
<1> QED BY <1>2 DEF C

\* The receipts there are date from blocks before number n, and are right.
ReceiptsBefore(n) ==
  \A tx \in DOMAIN receipts :
    /\ receipts[tx] \in Receipts /\ receipts[tx].block < n
    /\ ReceiptOK(chain, sent[tx], receipts[tx])

\* The next block comes after those of all receipts.
LEMMA Before ==
  ASSUME Inv
  PROVE  ReceiptsBefore(block + 1)
<1>1. receipts \in Seq(Receipts) /\ block \in Nat /\ ChainOK(chain, block, inserted, sent, receipts)
  BY Facts DEF Inv
<1>2. \A tx \in DOMAIN receipts : receipts[tx] \in Receipts
  BY <1>1
<1> QED BY <1>1, <1>2 DEF ChainOK, ReceiptsBefore, Receipts

\* A transaction is mined: its receipt says what the registries have then.
LEMMA MineOK ==
  ASSUME Inv, Mine
  PROVE  Inv' /\ Moves
<1> DEFINE k == Len(receipts) + 1
           call == sent[k]
           n == block + 1
           status == IF Succeeds(chain, call) THEN 1 ELSE 0
           d == Executed(chain, call, n)
           receipt == [status |-> status, block |-> n]
<1>1. /\ Len(receipts) < Len(sent)
      /\ chain' = d /\ receipts' = Append(receipts, receipt) /\ block' = n
      /\ UNCHANGED <<database, sent, req, nonce, stale, abandoned>>
  BY DEF Mine
<1>2. /\ chain \in Chains /\ block \in Nat /\ n \in Nat /\ receipts \in Seq(Receipts)
      /\ ChainOK(chain, block, inserted, sent, receipts)
  BY Facts DEF Inv
<1>3. k \in DOMAIN sent
  BY <1>1, Facts
<1>4. PICK op \in Anchorings : call = CallOf(op)
  BY <1>3, SentCall
<1>5. receipt \in Receipts /\ receipt.block = n /\ (receipt.status = 1 <=> Succeeds(chain, call))
  BY <1>2 DEF Receipts
<1>6. d \in Chains /\ Succession(chain, n, d)
  <2>1. call \in Calls
    BY <1>4 DEF Calls
  <2> HIDE DEF call, n
  <2> QED BY <1>2, <2>1, ExecutedType
<1>7. ReceiptOK(d, call, receipt)
  <2>1. chain.credentials.at < n /\ chain.revocations.at < n
    BY <1>2 DEF ChainOK, Chains
  <2> HIDE DEF n, receipt
  <2>2. d = Executed(chain, CallOf(op), n) /\ (receipt.status = 1 <=> Succeeds(chain, CallOf(op)))
    BY <1>4, <1>5
  <2> HIDE DEF d
  <2>3. ReceiptOK(d, CallOf(op), receipt)
    BY <1>2, <1>5, <1>6, <2>1, <2>2, ReceiptNew
  <2> HIDE DEF call
  <2> QED BY <1>4, <2>3
<1> HIDE DEF d, receipt, call
<1>9. /\ receipts' \in Seq(Receipts) /\ DOMAIN receipts' = DOMAIN receipts \cup {k}
      /\ k \notin DOMAIN receipts /\ receipts'[k] = receipt
      /\ \A tx \in DOMAIN receipts : receipts'[tx] = receipts[tx]
  BY <1>1, <1>2, <1>5
<1>10. StartsWith(receipts', receipts)
  BY <1>9 DEF StartsWith
<1>11. ReceiptsBefore(n)
  BY <1>2, Before
<1>13. \A tx \in DOMAIN receipts : receipts'[tx].block <= n /\ ReceiptOK(d, sent[tx], receipts'[tx])
  BY <1>2, <1>6, <1>9, <1>11, ReceiptKept DEF ReceiptsBefore, Receipts
<1>14. receipts'[k].block <= n /\ ReceiptOK(d, sent[k], receipts'[k])
  BY <1>2, <1>5, <1>7, <1>9 DEF call
<1>15. \A t, u \in DOMAIN receipts' : receipts'[t].block = receipts'[u].block => t = u
  <2>1. \A t \in DOMAIN receipts : receipts[t].block # n
    BY <1>2, <1>11 DEF ReceiptsBefore, Receipts
  <2> QED BY <1>2, <1>5, <1>9, <2>1 DEF ChainOK
<1>12. d.credentials.at <= n /\ d.revocations.at <= n
  BY <1>2, <1>6 DEF ChainOK, Chains, Succession
<1> HIDE DEF n, k
<1>16. ChainOK(d, n, inserted, sent, receipts')
  BY <1>2, <1>3, <1>6, <1>9, <1>12, <1>13, <1>14, <1>15 DEF ChainOK
<1>17. Moves
  BY <1>1, <1>10 DEF Moves
<1> QED BY <1>1, <1>16, <1>17, ChainFrame

\* A transaction of somebody else leaves what the receipts say.
LEMMA OutsideOK ==
  ASSUME Inv, Outside
  PROVE  Inv' /\ Moves
<1> DEFINE n == block + 1
<1>1. PICK call \in OutsideCalls : chain' = Executed(chain, call, n)
  BY DEF Outside
<1>2. block' = n /\ UNCHANGED <<database, receipts, sent, req, nonce, stale, abandoned>>
  BY DEF Outside
<1>3. /\ chain \in Chains /\ block \in Nat /\ n \in Nat /\ receipts \in Seq(Receipts)
      /\ ChainOK(chain, block, inserted, sent, receipts)
  BY Facts DEF Inv
<1>4. chain' \in Chains /\ Succession(chain, n, chain')
  <2>1. call \in Calls
    BY DEF Calls
  <2> HIDE DEF n
  <2> QED BY <1>1, <1>3, <2>1, ExecutedType
<1>5. Moves
  BY <1>2 DEF Moves, StartsWith
<1>6. \A tx \in DOMAIN receipts : receipts[tx].block <= n /\ ReceiptOK(chain', sent[tx], receipts[tx])
  <2>1. ReceiptsBefore(n)
    BY Before
  <2> QED BY <1>3, <1>4, <2>1, ReceiptKept DEF ReceiptsBefore, Receipts
<1>8. chain'.credentials.at <= n /\ chain'.revocations.at <= n
  BY <1>3, <1>4 DEF ChainOK, Chains, Succession
<1>7. ChainOK(chain', n, inserted, sent, receipts)
  BY <1>3, <1>4, <1>6, <1>8 DEF ChainOK
<1> QED BY <1>2, <1>5, <1>7, ChainFrame

-----------------------------------------------------------------------------
(* The first layer. *)

\* The invariant holds at first.
LEMMA InitOK == Init => Inv
<1> SUFFICES ASSUME Init PROVE Inv
  OBVIOUS
<1>1. /\ store = [status |-> "active", tx |-> NoTx] /\ inserted = {} /\ block = 1
      /\ sent = <<>> /\ receipts = <<>>
      /\ req = [h \in Handlers |-> Idle] /\ nonce = [h \in Handlers |-> NoTx]
  BY DEF Init
<1>2. chain \in Chains /\ chain.revocations.at = 0 /\ chain.credentials.at = 0
  <2>1. Deployed \in Chains /\ Deployed.revocations.at = 0 /\ Deployed.credentials.at = 0
    BY DEF Deployed, Chains
  <2>2. CASE chain = Deployed
    BY <2>1, <2>2
  <2>3. CASE chain = [Deployed EXCEPT !.issuers.hash = Commitment, !.issuers.at = 1, !.issuers.approved = TRUE]
    <3> DEFINE a == [Deployed EXCEPT !.issuers.hash = Commitment]
               b == [a EXCEPT !.issuers.at = 1]
    <3>1. a \in Chains /\ a.revocations = Deployed.revocations /\ a.credentials = Deployed.credentials
      BY <2>1, CommitmentAssumption DEF Chains
    <3>2. b \in Chains /\ b.revocations = Deployed.revocations /\ b.credentials = Deployed.credentials
      <4> HIDE DEF a
      <4> QED BY <3>1 DEF Chains
    <3>3. chain = [b EXCEPT !.issuers.approved = TRUE]
      BY <2>3
    <3> HIDE DEF b
    <3> QED BY <2>1, <3>2, <3>3 DEF Chains
  <2> QED BY <2>2, <2>3 DEF Init
<1>3. StoreOK(store, inserted, sent, receipts)
  BY <1>1 DEF StoreOK, Credentials, NoTx
<1>4. ChainOK(chain, block, inserted, sent, receipts)
  <2>1. /\ sent \in Seq({CallOf(op) : op \in Anchorings}) /\ receipts \in Seq(Receipts)
        /\ DOMAIN sent = {} /\ DOMAIN receipts = {}
    BY <1>1
  <2> QED BY <1>1, <1>2, <2>1 DEF ChainOK
<1>5. /\ req \in [Handlers -> Requests(Names, Items)] /\ nonce \in [Handlers -> Nat]
      /\ \A h \in Handlers : HandlerOK(req[h], nonce[h], inserted, sent, receipts)
  <2>1. Idle \in Requests(Names, Items) /\ NoTx \in Nat
    BY IdleType, NamesBasic DEF NoTx
  <2> QED BY <1>1, <2>1, IdleOK
<1> QED BY <1>3, <1>4, <1>5 DEF Inv

\* Every step is of one of these kinds.
LEMMA Cases ==
  ASSUME Inv, Next
  PROVE  /\ Inv'
         /\ \/ \E h \in Handlers :
                 \/ Begun(h)
                 \/ Works(h) /\ ReadNonce(h)
                 \/ Works(h) /\ Send(h)
                 \/ Receives(h)
                 \/ Write(h) /\ Stores(h, NextObject(req[h])) /\ (Concludes(h) \/ GoesOn(h))
                 \/ Ended(h) /\ (Refused(h) \/ GiveUp(h) \/ Fail(h))
            \/ Moves
<1>1. ASSUME NEW h \in Handlers, Revoke(h) \/ AnchorCredential(h) \/ AnchorRevocation(h)
      PROVE  Inv' /\ Begun(h)
  BY <1>1, RevokeOK, ReadOK DEF AnchorCredential, AnchorRevocation, CanAnchorRevocation, Anchorings
<1>2. ASSUME NEW h \in Handlers, Refused(h) \/ GiveUp(h) \/ Fail(h)
      PROVE  Inv' /\ Ended(h)
  <2>1. End(h) /\ UNCHANGED <<database, ledger, sent>>
    BY <1>2 DEF Refused, GiveUp, Fail
  <2> QED BY <2>1, EndOK
<1> QED BY <1>1, <1>2, ReadNonceOK, SendOK, ReceiveOK, WriteOK, MineOK, OutsideOK DEF Next, Proceed

\* The invariant is inductive.
LEMMA NextOK == Inv /\ [Next]_vars => Inv'
<1>1. ASSUME Inv, Next PROVE Inv'
  BY <1>1, Cases
<1>2. ASSUME Inv, UNCHANGED vars PROVE Inv'
  BY <1>2 DEF vars, database, ledger, Inv
<1> QED BY <1>1, <1>2

-----------------------------------------------------------------------------
(* The second layer. *)

\* Request r has not missed the revocation of the credential st.
Current(r, st) ==
  st.status = "revoked" =>
    \A m \in DOMAIN r.session.objs :
      r.session.objs[m].id = Credential => r.session.objs[m].val.status = "revoked"

\* A handler that holds nothing has missed nothing.
LEMMA IdleCurrent ==
  ASSUME Inv, NEW h \in Handlers, req[h].pc = "idle"
  PROVE  (\A st : Current(req[h], st)) /\ \A tx : ~At(h, tx)
<1>1. req[h].session.objs = <<>>
  BY Facts DEF HandlerOK
<1> QED BY <1>1 DEF Current, At

\* A step of handler h that stores nothing keeps the layer, if it answers for
\* every transaction it did answer for or has sent.
LEMMA KeptFrame ==
  ASSUME Inv, Kept, NEW h \in Handlers, NEW r, NEW n,
         req' = [req EXCEPT ![h] = r], nonce' = [nonce EXCEPT ![h] = n],
         UNCHANGED database, abandoned \subseteq abandoned',
         DOMAIN sent \subseteq DOMAIN sent',
         \A a \in abandoned' : a \in abandoned \/ a = NoTx \/ a \in DOMAIN sent',
         \A tx \in DOMAIN sent' : tx \notin DOMAIN sent => At(h, tx)',
         \A tx \in DOMAIN sent : At(h, tx) => At(h, tx)' \/ tx \in abandoned',
         r.pc = "wait" => \A g \in Handlers : g # h /\ req[g].pc = "wait" => nonce[g] # n,
         stale' = stale \/ stale' = stale \ {h},
         h \notin stale' => Current(r, store)
  PROVE  Kept'
<1>1. /\ req'[h] = r /\ nonce'[h] = n
      /\ \A g \in Handlers : g # h => req'[g] = req[g] /\ nonce'[g] = nonce[g]
      /\ store' = store /\ inserted' = inserted
  BY Facts DEF database
<1>2. abandoned' \subseteq {NoTx} \cup DOMAIN sent'
  BY DEF Kept
<1>3. ASSUME NEW tx \in DOMAIN sent'
      PROVE  \/ \E g \in Handlers : At(g, tx)'
             \/ tx \in abandoned'
             \/ \E op \in Anchorings : Documented(op, tx, inserted')
  <2>1. CASE tx \notin DOMAIN sent
    BY <1>3, <2>1
  <2>2. CASE tx \in DOMAIN sent
    <3>1. ASSUME NEW g \in Handlers, g # h, At(g, tx) PROVE At(g, tx)'
      BY <1>1, <3>1 DEF At
    <3> QED BY <1>1, <2>2, <3>1 DEF Kept
  <2> QED BY <2>1, <2>2
<1>4. ASSUME NEW g \in Handlers, NEW k \in Handlers, nonce'[g] = nonce'[k], req'[g].pc = "wait", req'[k].pc = "wait"
      PROVE  g = k
  <2>1. CASE g # h /\ k # h
    BY <1>1, <1>4, <2>1 DEF Kept
  <2>2. CASE g = h /\ k # h
    BY <1>1, <1>4, <2>2
  <2>3. CASE g # h /\ k = h
    BY <1>1, <1>4, <2>3
  <2> QED BY <2>1, <2>2, <2>3
<1>5. ASSUME NEW g \in Handlers, g \notin stale' PROVE Current(req'[g], store')
  <2>1. CASE g = h
    BY <1>1, <1>5, <2>1
  <2>2. CASE g # h
    BY <1>1, <1>5, <2>2 DEF Kept, Current
  <2> QED BY <2>1, <2>2
<1> QED BY <1>2, <1>3, <1>4, <1>5 DEF Kept, Current

\* Steps of a handler before it stores anything.
LEMMA KeptQuiet ==
  ASSUME Inv, Kept, NEW h \in Handlers,
         Begun(h) \/ (Works(h) /\ ReadNonce(h)) \/ (Works(h) /\ Send(h)) \/ Receives(h)
  PROVE  Kept'
<1> DEFINE r == req'[h]
           n == nonce'[h]
<1>1. /\ req' = [req EXCEPT ![h] = r] /\ nonce' = [nonce EXCEPT ![h] = n]
      /\ UNCHANGED database /\ abandoned' = abandoned /\ stale' = stale
  <2>1. req' = [req EXCEPT ![h] = r] /\ UNCHANGED database /\ abandoned' = abandoned /\ stale' = stale
    BY DEF Begun, Works, Receives
  <2>2. nonce' = [nonce EXCEPT ![h] = n]
    <3>1. CASE nonce' = [nonce EXCEPT ![h] = nonce[h]]
      BY <3>1, Facts
    <3>2. CASE nonce' = [nonce EXCEPT ![h] = nonce'[h]]
      BY <3>2
    <3> QED BY <3>1, <3>2 DEF Begun, Works, Receives
  <2> QED BY <2>1, <2>2
<1>2. h \notin stale => Current(req[h], store)
  BY DEF Kept, Current
<1>3. HandlerOK(req[h], nonce[h], inserted, sent, receipts)
  BY Facts
<1>4. CASE Begun(h)
  <2>1. req[h].pc = "idle" /\ r.pc # "wait" /\ sent' = sent /\ Current(r, store)
    BY <1>4 DEF Begun, Current
  <2>2. \A tx : ~At(h, tx)
    BY <2>1 DEF At
  <2> HIDE DEF r, n
  <2> QED BY <1>1, <2>1, <2>2, KeptFrame
<1>5. CASE Works(h) /\ ReadNonce(h)
  <2>1. req[h].pc = "nonce" /\ r.pc = "send" /\ sent' = sent /\ (h \notin stale => Current(r, store))
    <3>1. req[h].pc = "nonce"
      BY <1>5 DEF ReadNonce
    <3>2. r.pc = "send" /\ sent' = sent
      BY <1>5, ReadNonceOK
    <3>3. h \notin stale => Current(r, store)
      BY <1>2, <1>5 DEF Works, Current
    <3> QED BY <3>1, <3>2, <3>3
  <2>2. \A tx : ~At(h, tx)
    BY <2>1 DEF At
  <2> HIDE DEF r, n
  <2> QED BY <1>1, <2>1, <2>2, KeptFrame
<1>6. CASE Works(h) /\ Send(h)
  <2>1. /\ req[h].pc = "send" /\ r.pc = "wait" /\ n = nonce[h]
        /\ n \notin DOMAIN sent /\ DOMAIN sent' = DOMAIN sent \cup {n}
        /\ (h \notin stale => Current(r, store))
    <3>1. req[h].pc = "send"
      BY <1>6 DEF Send
    <3>2. r.pc = "wait" /\ n = nonce[h] /\ n \notin DOMAIN sent /\ DOMAIN sent' = DOMAIN sent \cup {n}
      BY <1>6, SendOK
    <3>3. h \notin stale => Current(r, store)
      BY <1>2, <1>6 DEF Works, Current
    <3> QED BY <3>1, <3>2, <3>3
  <2>2. \A tx : ~At(h, tx)
    BY <2>1 DEF At
  <2>3. nonce'[h] = n /\ req'[h].pc = "wait"
    BY <2>1
  <2>4. \A g \in Handlers : req[g].pc = "wait" => nonce[g] # n
    <3>1. \A g \in Handlers : req[g].pc = "wait" => nonce[g] \in DOMAIN sent
      BY Facts DEF HandlerOK
    <3> QED BY <2>1, <3>1
  <2>5. \A tx \in DOMAIN sent' : tx \notin DOMAIN sent => At(h, tx)'
    BY <2>1, <2>3 DEF At
  <2> HIDE DEF r, n
  <2> QED BY <1>1, <2>1, <2>2, <2>4, <2>5, KeptFrame
<1>7. CASE Receives(h)
  <2>1. /\ req[h].pc = "wait" /\ r.pc = "flush" /\ sent' = sent /\ n = nonce[h]
    BY <1>7, Facts DEF Receives
  <2>2. \A tx : At(h, tx) => At(h, tx)'
    BY <2>1 DEF At
  <2>3. h \notin stale => Current(r, store)
    BY <1>2, <1>7 DEF Receives, Current
  <2> HIDE DEF r, n
  <2> QED BY <1>1, <2>1, <2>2, <2>3, KeptFrame
<1> QED BY <1>4, <1>5, <1>6, <1>7

\* A handler that ends without its receipt or before it has stored everything
\* abandons its transaction.
LEMMA KeptEnded ==
  ASSUME Inv, Kept, NEW h \in Handlers, Ended(h), Refused(h) \/ GiveUp(h) \/ Fail(h)
  PROVE  Kept'
<1>1. /\ UNCHANGED database /\ sent' = sent /\ stale' = stale \ {h}
  BY DEF Refused, GiveUp, Fail, End
<1>2. \/ req[h].pc \in {"wait", "flush"} /\ abandoned' = abandoned \cup {nonce[h]}
      \/ req[h].pc \notin {"wait", "flush"} /\ abandoned' = abandoned
  BY DEF Refused, GiveUp, Fail, Abandon
<1>3. req[h].pc \in {"wait", "flush"} => nonce[h] = NoTx \/ nonce[h] \in DOMAIN sent
  BY Facts DEF HandlerOK
<1>4. \A tx : At(h, tx) => tx \in abandoned'
  BY <1>2 DEF At
<1>5. Current(Idle, store) /\ Idle.pc # "wait"
  BY IdleOK DEF Current
<1> QED BY <1>1, <1>2, <1>3, <1>4, <1>5, KeptFrame DEF Ended

\* A write that ends a request has documented its transaction; a write of the
\* credential makes whoever has read it stale.
LEMMA KeptWrite ==
  ASSUME Inv, Kept, NEW h \in Handlers, Write(h), NEW o, o = NextObject(req[h]), Stores(h, o),
         Concludes(h) \/ GoesOn(h)
  PROVE  Kept'
<1> DEFINE after == AfterWrite(req[h])
<1>1. /\ req' = [req EXCEPT ![h] = req'[h]] /\ \A g \in Handlers : g # h => req'[g] = req[g] /\ nonce'[g] = nonce[g]
      /\ \A g \in Handlers : g # h => g \in DOMAIN req /\ g \in DOMAIN nonce
  BY Facts DEF Concludes, GoesOn, Ended
<1>2. req'[h] = (IF after.pc = "idle" THEN Idle ELSE after)
  BY Facts DEF Write
<1>3. stale' = (IF o.id = Credential THEN stale \cup {g \in Handlers : ~Idles(g)} ELSE stale)
                 \ {g \in {h} : after.pc = "idle"}
  BY DEF Write
<1> HIDE DEF after
<1>4. sent' = sent /\ abandoned' = abandoned /\ inserted \subseteq inserted' /\ req[h].pc = "flush"
      /\ (o.id = Credential \/ store' = store)
  BY DEF Stores
<1>5. \A op, tx : Documented(op, tx, inserted) => Documented(op, tx, inserted')
  BY <1>4 DEF Documented
<1>6. ASSUME NEW tx \in DOMAIN sent
      PROVE  \/ \E g \in Handlers : At(g, tx)'
             \/ tx \in abandoned
             \/ \E op \in Anchorings : Documented(op, tx, inserted')
  <2>1. CASE \E g \in Handlers : g # h /\ At(g, tx)
    BY <1>1, <2>1 DEF At
  <2>2. CASE At(h, tx)
    <3>1. CASE GoesOn(h)
      <4>1. nonce'[h] = nonce[h] /\ req'[h].pc = "flush"
        BY <3>1, Facts DEF GoesOn
      <4> QED BY <2>2, <4>1 DEF At
    <3>2. CASE Concludes(h)
      <4>1. tx # NoTx
        BY <1>6, Facts DEF NoTx
      <4>2. nonce[h] = tx /\ req[h].op \in Anchorings
        BY <1>4, <2>2, <4>1, Facts DEF At, HandlerOK, Ops
      <4> QED BY <3>2, <4>2 DEF Concludes
    <3> QED BY <3>1, <3>2
  <2>3. CASE tx \in abandoned \/ \E op \in Anchorings : Documented(op, tx, inserted)
    BY <1>5, <2>3
  <2> QED BY <2>1, <2>2, <2>3 DEF Kept
<1>7. req'[h].pc # "wait"
  BY Facts, IdleOK DEF Concludes, GoesOn, Ended
<1>8. ASSUME NEW g \in Handlers, NEW k \in Handlers, nonce'[g] = nonce'[k], req'[g].pc = "wait", req'[k].pc = "wait"
      PROVE  g = k
  BY <1>1, <1>7, <1>8 DEF Kept
<1>9. ASSUME NEW g \in Handlers, g \notin stale' PROVE Current(req'[g], store')
  <2>1. CASE g # h
    <3>1. req'[g] = req[g]
      BY <1>1, <2>1
    <3>2. CASE o.id = Credential
      <4>1. req[g].pc = "idle"
        BY <1>3, <1>9, <2>1, <3>2 DEF Idles
      <4> QED BY <3>1, <4>1, IdleCurrent
    <3>3. CASE o.id # Credential
      <4>1. g \notin stale /\ store' = store
        BY <1>3, <1>4, <1>9, <2>1, <3>3
      <4> QED BY <3>1, <4>1 DEF Kept, Current
    <3> QED BY <3>2, <3>3
  <2>2. CASE g = h /\ Concludes(h)
    <3>1. req'[h] = Idle
      BY <2>2, Facts DEF Concludes, Ended
    <3> QED BY <2>2, <3>1, IdleOK DEF Current
  <2>3. CASE g = h /\ GoesOn(h)
    <3>1. after.pc # "idle"
      BY <1>2, <2>3, IdleOK DEF GoesOn
    <3>2. o.id # Credential /\ h \notin stale
      BY <1>3, <1>4, <1>9, <2>3, <3>1 DEF Idles
    <3>3. Current(req[h], store) /\ store' = store
      BY <1>4, <3>2 DEF Kept, Current
    <3> QED BY <2>3, <3>3 DEF GoesOn, Current
  <2> QED BY <2>1, <2>2, <2>3
<1> QED BY <1>4, <1>6, <1>8, <1>9 DEF Kept, Current

\* The second layer is inductive, given the first.
LEMMA KeptNext == Inv /\ Kept /\ [Next]_vars => Kept'
<1>1. ASSUME Inv, Kept, Next PROVE Kept'
  <2>1. CASE Moves
    BY <1>1, <2>1 DEF Moves, Kept, database, At
  <2> QED BY <1>1, <2>1, Cases, KeptQuiet, KeptEnded, KeptWrite
<1>2. ASSUME Inv, Kept, UNCHANGED vars PROVE Kept'
  BY <1>2 DEF vars, database, Kept, At
<1> QED BY <1>1, <1>2

\* It holds at first.
LEMMA KeptInit == Init => Kept
<1> SUFFICES ASSUME Init PROVE Kept
  OBVIOUS
<1>1. sent = <<>> /\ req = [h \in Handlers |-> Idle] /\ abandoned = {} /\ store.status # "revoked"
  BY DEF Init
<1>2. DOMAIN sent = {}
  BY <1>1
<1> QED BY <1>1, <1>2, IdleOK DEF Kept

-----------------------------------------------------------------------------
(* The properties. *)

\* The layers imply the invariants the runs check.
LEMMA Implied == Inv /\ Kept => TypeOK /\ ConfirmedMeansAnchored /\ ChainKnown
<1> SUFFICES ASSUME Inv, Kept PROVE TypeOK /\ ConfirmedMeansAnchored /\ ChainKnown
  OBVIOUS
<1>1. \A a : a \in Anchors <=> a \in Records /\ <<"anchor", a>> \in inserted
  <2>1. ASSUME NEW i \in inserted, i[1] = "anchor" PROVE i[2] \in Records /\ i = <<"anchor", i[2]>>
    <3>1. i \in ({"anchor"} \X Records) \cup ({"audit"} \X Events)
      BY DEF Inv, StoreOK
    <3> QED BY <2>1, <3>1
  <2>2. \A a : <<"anchor", a>>[1] = "anchor" /\ <<"anchor", a>>[2] = a
    OBVIOUS
  <2> QED BY <2>1, <2>2 DEF Anchors
<1>2. \A a \in Anchors : RecordOK(a, sent, receipts)
  BY <1>1 DEF Inv, StoreOK
<1>3. \A op, tx : Documented(op, tx, inserted) =>
        \E a \in Anchors : a.tx = tx /\ a.op = op /\ Logged(a.op, tx)
  BY <1>1 DEF Documented, Logged
<1>4. DOMAIN sent = 1..Len(sent) /\ Len(sent) \in Nat /\ Len(receipts) <= Len(sent)
  <2>1. DOMAIN sent = 1..Len(sent) /\ Len(sent) \in Nat /\ DOMAIN receipts = 1..Len(receipts) /\ Len(receipts) \in Nat
    BY Facts
  <2>2. DOMAIN receipts \subseteq DOMAIN sent
    BY Facts
  <2>3. Len(receipts) # 0 => Len(receipts) \in 1..Len(sent)
    BY <2>1, <2>2
  <2> QED BY <2>1, <2>3
<1>5. TypeOK
  <2>1. store \in Credentials /\ (store.tx # NoTx => store.tx \in DOMAIN sent)
    BY <1>2, <1>3 DEF Inv, StoreOK, RecordOK
  <2>2. store \in [status : {"active", "revoked"}, tx : 0..Len(sent)]
    BY <1>4, <2>1 DEF Credentials, NoTx
  <2>3. chain.paused \subseteq Registry
    BY Facts DEF Chains
  <2>4. abandoned \subseteq 0..Len(sent)
    BY <1>4 DEF Kept, NoTx
  <2> QED BY <1>4, <2>2, <2>3, <2>4 DEF TypeOK, Kept
<1>6. ConfirmedMeansAnchored
  <2> SUFFICES ASSUME NEW a \in Anchors
               PROVE  /\ a.tx \in DOMAIN receipts
                      /\ a.confirmed /\ a.op = "anchor"
                           => /\ VerifyIntegrity(chain, Commitment) /\ chain.credentials.at = a.block
                              /\ \A b \in Anchors : b.confirmed /\ b.op = "anchor" => b = a
                      /\ a.confirmed /\ a.op = "anchor_revocation"
                           => /\ chain.revocations.at >= a.block
                              /\ chain.revocations.at = a.block => chain.revocations.hash = Commitment
                      /\ ~a.confirmed => a.block \notin {chain.credentials.at, chain.revocations.at}
    BY DEF ConfirmedMeansAnchored
  <2>1. ASSUME NEW b \in Anchors
        PROVE  /\ b.tx \in DOMAIN receipts /\ b.block = receipts[b.tx].block
               /\ b.confirmed = (receipts[b.tx].status = 1)
               /\ sent[b.tx] = CallOf(b.op) /\ ReceiptOK(chain, sent[b.tx], receipts[b.tx])
    <3>1. /\ b.tx \in DOMAIN receipts /\ b.block = receipts[b.tx].block
          /\ b.confirmed = (receipts[b.tx].status = 1) /\ sent[b.tx] = CallOf(b.op)
      BY <1>2 DEF RecordOK
    <3>2. ReceiptOK(chain, sent[b.tx], receipts[b.tx])
      BY <3>1 DEF Inv, ChainOK
    <3> QED BY <3>1, <3>2
  <2>3. a.confirmed /\ a.op = "anchor" => VerifyIntegrity(chain, Commitment) /\ chain.credentials.at = a.block
    BY <2>1 DEF ReceiptOK
  <2>4. a.confirmed /\ a.op = "anchor_revocation"
          => /\ chain.revocations.at >= a.block
             /\ chain.revocations.at = a.block => chain.revocations.hash = Commitment
    BY <2>1 DEF ReceiptOK
  <2>5. ~a.confirmed => a.block \notin {chain.credentials.at, chain.revocations.at}
    BY <2>1 DEF ReceiptOK
  <2>2. ASSUME NEW b \in Anchors, a.confirmed, a.op = "anchor", b.confirmed, b.op = "anchor"
        PROVE  b = a
    <3>0. b.confirmed /\ b.op = "anchor" => chain.credentials.at = b.block
      BY <2>1 DEF ReceiptOK
    <3>1. a.block = b.block
      BY <2>2, <2>3, <3>0
    <3>2. a.tx = b.tx
      BY <2>1, <3>1 DEF Inv, ChainOK
    <3>3. a.confirmed = b.confirmed /\ a \in Records /\ b \in Records
      BY <1>1, <2>1, <3>2
    <3> QED BY <2>2, <3>1, <3>2, <3>3 DEF Records
  <2> QED BY <2>1, <2>2, <2>3, <2>4, <2>5
<1>7. ChainKnown
  <2>1. ASSUME NEW tx \in DOMAIN receipts
        PROVE  \/ \E h \in Handlers : nonce[h] = tx
               \/ tx \in abandoned
               \/ \E a \in Anchors : a.tx = tx /\ Logged(a.op, tx)
    BY <1>3, Facts DEF Kept, At
  <2>2. store.tx # NoTx => \E a \in Anchors : a.tx = store.tx /\ Logged("anchor", a.tx)
    BY <1>3 DEF Inv, StoreOK
  <2>3. ASSUME NEW tx \in DOMAIN sent, sent[tx].to = "revocations" PROVE Logged("revoke", NoTx)
    <3>1. PICK op \in Anchorings : sent[tx] = CallOf(op)
      BY SentCall
    <3>2. op = "anchor_revocation"
      BY <2>3, <3>1 DEF CallOf, Call, Anchorings
    <3> QED BY <3>1, <3>2 DEF Inv, ChainOK, RevocationLogged, Logged
  <2> QED BY <2>1, <2>2, <2>3 DEF ChainKnown
<1> QED BY <1>5, <1>6, <1>7

\* Only a handler that is stale ends a revocation.
LEMMA UndoneByStale ==
  ASSUME Inv, Kept, Next, store.status = "revoked", store'.status # "revoked"
  PROVE  \E h \in stale : req[h].pc = "flush"
<1>1. store' # store
  OBVIOUS
<1>2. PICK h \in Handlers : Stores(h, NextObject(req[h]))
  BY <1>1, Cases DEF Begun, Works, Receives, Refused, GiveUp, Fail, Moves, database
<1> DEFINE o == NextObject(req[h])
<1> HIDE DEF o
<1>3. o.id = Credential /\ store' = o.val /\ req[h].pc = "flush"
      /\ \E m \in DOMAIN req[h].session.objs : o = req[h].session.objs[m]
  BY <1>1, <1>2 DEF Stores, o
<1>4. h \in stale
  BY <1>3 DEF Kept
<1> QED BY <1>3, <1>4

\* The two layers hold in every reachable state.
THEOREM Layers == Spec => [](Inv /\ Kept)
<1>1. Init => Inv /\ Kept
  BY InitOK, KeptInit
<1>2. Inv /\ Kept /\ [Next]_vars => (Inv /\ Kept)'
  BY NextOK, KeptNext
<1> QED BY <1>1, <1>2, PTL DEF Spec

\* Every reachable state is well typed, and no two handlers wait for the same
\* transaction.
THEOREM TypeCorrect == Spec => []TypeOK
BY Layers, Implied, PTL

\* connector.py, lines 109-113, for any number of requests and of transactions of
\* others, who may call every function with any hash: a confirmed issuance is
\* what the registry has, and the only one; a confirmed revocation is, unless it
\* was replaced later; and what is not confirmed left nothing.
THEOREM Confirmations == Spec => []ConfirmedMeansAnchored
BY Layers, Implied, PTL

\* blockchain.py, lines 41-60 and 79-87: every mined transaction is documented,
\* abandoned or still looked after, and the backend sends no revocation that is
\* not on the trail.
THEOREM Documentation == Spec => []ChainKnown
BY Layers, Implied, PTL

\* issuer.py, lines 150-153: only a handler that read the credential before the
\* revocation can undo it.
THEOREM Revocations == Spec => RevocationUndoneOnlyByOverlap
<1> DEFINE A == store.status = "revoked" /\ store'.status # "revoked" => \E h \in stale : req[h].pc = "flush"
<1>1. ASSUME Inv, Kept, [Next]_vars PROVE [A]_vars
  <2>1. ASSUME Next PROVE A
    BY <1>1, <2>1, UndoneByStale
  <2> QED BY <1>1, <2>1
<1>2. Inv /\ Kept /\ [Next]_vars => [A]_vars
  BY <1>1
<1> QED BY <1>2, Layers, PTL DEF Spec, RevocationUndoneOnlyByOverlap

================================================================================
