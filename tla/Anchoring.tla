----------------------------- MODULE Anchoring ------------------------------
(***************************************************************************)
(* A credential's way to the registries: anchor_credential and             *)
(* anchor_revocation (api/routes/blockchain.py) with BlockchainConnector   *)
(* (services/blockchain/connector.py), and revoke_credential               *)
(* (api/routes/issuer.py), which changes the same document.                *)
(*                                                                         *)
(* Handlers run concurrently.  A transaction is known by its nonce, which  *)
(* is its place in "sent"; the chain executes the transactions in that     *)
(* order, late or never.  A transaction with a nonce that is taken is      *)
(* refused by the node: the fees never differ, so it replaces nothing.     *)
(***************************************************************************)
EXTENDS Request, Registries, FiniteSets

CONSTANTS
  Handlers,     \* concurrent request handlers
  Commitment,   \* the claims_commitment of the credential
  MaxRequests,  \* bound: the requests that can be made
  MaxOutside    \* bound: the transactions that others send

ASSUME CommitmentAssumption == Commitment \in Hashes

VARIABLES
  store,      \* the credential, as MongoDB holds it
  inserted,   \* <<collection, record>>: the anchor records and the audit trail
  chain,      \* the registries
  block,      \* the number of the latest block
  sent,       \* the calls the backend has sent
  receipts,   \* what became of them, as far as they are mined
  req,        \* the handlers
  nonce,      \* handler -> the nonce it uses
  stale,      \* history: the handlers whose copy of the credential is out of date
  abandoned,  \* history: transactions whose handler did not see the receipt
  made,       \* the number of requests made
  outside     \* the number of transactions of others

database == <<store, inserted>>
ledger == <<chain, block, receipts>>
vars == <<database, ledger, sent, req, nonce, stale, abandoned, made, outside>>

Idles(h) == req[h].pc = "idle"
Credential == "credential"
NoTx == 0

\* A handler takes a request for the credential, which it has read, and goes on
\* with r.
Begin(h, r) ==
  /\ Idles(h)
  /\ made < MaxRequests /\ made' = made + 1
  /\ req' = [req EXCEPT ![h] = r]
  /\ UNCHANGED <<database, ledger, sent, nonce, stale, abandoned, outside>>

Read(op, pc) == Start(op, Fetch(NoSession, Credential, store), pc)

\* revoke_credential
Revoke(h) ==
  /\ store.status # "revoked"
  /\ LET s == Assign(Fetch(NoSession, Credential, store), 1, [store EXCEPT !.status = "revoked"])
     IN  Begin(h, LogEvent(Start("revoke", s, "log"), <<"revoke", NoTx>>, "idle"))

\* anchor_credential takes a credential of any status.
AnchorCredential(h) == Begin(h, Read("anchor", "nonce"))

\* (Mutant: any credential.)
CanAnchorRevocationAnyway == TRUE

CanAnchorRevocation == store.status = "revoked"

AnchorRevocation(h) == CanAnchorRevocation /\ Begin(h, Read("anchor_revocation", "nonce"))

-----------------------------------------------------------------------------
(* BlockchainConnector._send *)

\* get_transaction_count(..., "pending")
ReadNonce(h) ==
  /\ req[h].pc = "nonce"
  /\ nonce' = [nonce EXCEPT ![h] = Len(sent) + 1]
  /\ req' = [req EXCEPT ![h].pc = "send"]
  /\ UNCHANGED <<database, ledger, sent, stale, abandoned, made, outside>>

Target(h) == IF req[h].op = "anchor" THEN "credentials" ELSE "revocations"

\* (Mutant: a node that takes a nonce twice.)
FreeAnyway(n) == TRUE

Free(n) == n = Len(sent) + 1

\* send_raw_transaction, after which the handler waits for the receipt.
Send(h) ==
  /\ req[h].pc = "send" /\ Free(nonce[h])
  /\ sent' = Append(sent, Call(Target(h), "anchorRecord", Commitment))
  /\ req' = [req EXCEPT ![h].pc = "wait"]
  /\ UNCHANGED <<database, ledger, nonce, stale, abandoned, made, outside>>

\* The request ends; a transaction it has sent is left alone, except by Receive.
End(h) ==
  /\ req' = [req EXCEPT ![h] = Idle]
  /\ nonce' = [nonce EXCEPT ![h] = NoTx]
  /\ stale' = stale \ {h}

\* The nonce is taken: the node answers with an error.
Refused(h) ==
  /\ req[h].pc = "send" /\ ~Free(nonce[h])
  /\ End(h)
  /\ UNCHANGED <<database, ledger, sent, abandoned, made, outside>>

\* (Mutant: every receipt confirms.)
Mined(receipt) == TRUE

Confirmed(receipt) == receipt.status = 1

\* (Mutant: an anchored credential is active.)
StampedActive(credential, tx) == [status |-> "active", tx |-> tx]

Stamped(credential, tx) == [credential EXCEPT !.tx = tx]

\* The receipt is there.  anchor_credential notes the transaction in the
\* credential; both add an anchor record and end with log_event.
Receive(h) ==
  LET tx == nonce[h]
      receipt == receipts[tx]
      anchor == [op |-> req[h].op, tx |-> tx, block |-> receipt.block,
                 confirmed |-> Confirmed(receipt)]
      s == req[h].session
      noted == IF req[h].op = "anchor" THEN Assign(s, 1, Stamped(ValOf(s, 1), tx)) ELSE s
      r == [req[h] EXCEPT !.session = AddNew(noted, "anchor", anchor)]
  IN  /\ req[h].pc = "wait" /\ tx \in DOMAIN receipts
      /\ req' = [req EXCEPT ![h] = LogEvent(r, <<req[h].op, tx>>, "idle")]
      /\ UNCHANGED <<database, ledger, sent, nonce, stale, abandoned, made, outside>>

Abandon(h) ==
  abandoned' = IF req[h].pc \in {"wait", "flush"} THEN abandoned \cup {nonce[h]} ELSE abandoned

\* (Mutant: the handler waits for as long as it takes.)
WaitsOn(h) == FALSE

\* wait_for_transaction_receipt gives up after 120 seconds.
TimesOut(h) == req[h].pc = "wait"

GiveUp(h) ==
  /\ TimesOut(h)
  /\ End(h) /\ Abandon(h)
  /\ UNCHANGED <<database, ledger, sent, made, outside>>

-----------------------------------------------------------------------------
(* The database and the chain *)

\* One document of a flush is stored; the last one ends the request.
Write(h) ==
  LET o == NextObject(req[h])
      after == AfterWrite(req[h])
      written == o.id = Credential
  IN  /\ req[h].pc = "flush"
      /\ req' = [req EXCEPT ![h] = IF after.pc = "idle" THEN Idle ELSE after]
      /\ nonce' = IF after.pc = "idle" THEN [nonce EXCEPT ![h] = NoTx] ELSE nonce
      /\ IF written THEN store' = o.val /\ UNCHANGED inserted
         ELSE inserted' = inserted \cup {<<o.id, o.val>>} /\ UNCHANGED store
      /\ stale' = (IF written THEN stale \cup {g \in Handlers : ~Idles(g)} ELSE stale)
                    \ {g \in {h} : after.pc = "idle"}
      /\ UNCHANGED <<ledger, sent, abandoned, made, outside>>

\* The process dies, or the request fails.
Fail(h) ==
  /\ ~Idles(h)
  /\ End(h) /\ Abandon(h)
  /\ UNCHANGED <<database, ledger, sent, made, outside>>

\* The next transaction is mined, whether it succeeds or not.
Mine ==
  /\ Len(receipts) < Len(sent)
  /\ LET call == sent[Len(receipts) + 1]
         status == IF Succeeds(chain, call) THEN 1 ELSE 0
     IN  /\ chain' = Executed(chain, call, block + 1)
         /\ receipts' = Append(receipts, [status |-> status, block |-> block + 1])
  /\ block' = block + 1
  /\ UNCHANGED <<database, sent, req, nonce, stale, abandoned, made, outside>>

\* A transaction of somebody else.
Outside ==
  /\ outside < MaxOutside /\ outside' = outside + 1
  /\ \E call \in OutsideCalls :
       Succeeds(chain, call) /\ chain' = Executed(chain, call, block + 1)
  /\ block' = block + 1
  /\ UNCHANGED <<database, receipts, sent, req, nonce, stale, abandoned, made>>

-----------------------------------------------------------------------------
Init ==
  /\ store = [status |-> "active", tx |-> NoTx]
  /\ inserted = {}
  /\ \E approved \in BOOLEAN :
       chain = IF approved THEN [Deployed EXCEPT !.issuers.hash = Commitment, !.issuers.at = 1,
                                                 !.issuers.approved = TRUE]
               ELSE Deployed
  /\ block = 1
  /\ sent = <<>> /\ receipts = <<>>
  /\ req = [h \in Handlers |-> Idle]
  /\ nonce = [h \in Handlers |-> NoTx]
  /\ stale = {} /\ abandoned = {}
  /\ made = 0 /\ outside = 0

\* What a handler does by itself.
Proceed(h) == ReadNonce(h) \/ Send(h) \/ Refused(h) \/ Receive(h) \/ GiveUp(h) \/ Write(h)

Next ==
  \/ \E h \in Handlers :
       Revoke(h) \/ AnchorCredential(h) \/ AnchorRevocation(h) \/ Proceed(h) \/ Fail(h)
  \/ Mine \/ Outside

\* Every request that has been taken is worked on, and its wait runs out; the
\* chain owes nothing.
Fairness == \A h \in Handlers : WF_vars(Proceed(h))

Spec == Init /\ [][Next]_vars /\ Fairness

-----------------------------------------------------------------------------
(* Properties *)

Logged(op, tx) == <<"audit", <<op, tx>>>> \in inserted
Anchors == {i[2] : i \in {i \in inserted : i[1] = "anchor"}}

\* Type invariant; no two handlers wait for the same transaction.
TypeOK ==
  /\ store \in [status : {"active", "revoked"}, tx : 0..Len(sent)]
  /\ chain.paused \subseteq Registry
  /\ Len(receipts) <= Len(sent)
  /\ abandoned \subseteq 0..Len(sent)
  /\ \A g, h \in Handlers :
       req[g].pc = "wait" /\ req[h].pc = "wait" /\ nonce[g] = nonce[h] => g = h

\* connector.py, lines 109-113: an anchor record is confirmed just if its call
\* took effect.  A confirmed issuance is what the registry has, from the very
\* block of the record, and there is only one, however many requests raced.  A
\* confirmed revocation is what the registry has, unless a later anchorRecord
\* has replaced it (see RevocationIdempotent).  And nothing in the registries
\* dates from the block of a record that is not confirmed.
ConfirmedMeansAnchored ==
  \A a \in Anchors :
    /\ a.tx \in DOMAIN receipts
    /\ a.confirmed /\ a.op = "anchor"
         => /\ VerifyIntegrity(chain, Commitment) /\ chain.credentials.at = a.block
            /\ \A b \in Anchors : b.confirmed /\ b.op = "anchor" => b = a
    /\ a.confirmed /\ a.op = "anchor_revocation"
         => /\ chain.revocations.at >= a.block
            /\ chain.revocations.at = a.block => chain.revocations.hash = Commitment
    /\ ~a.confirmed => a.block \notin {chain.credentials.at, chain.revocations.at}

\* blockchain.py, lines 41-60 and 79-87: a transaction that was mined is in the
\* database, with its anchor record and its audit record, unless the handler
\* that sent it is still at it, gave up or failed; the credential names only
\* transactions that are; and the backend never sends a revocation that the
\* issuer's audited revocation does not precede.  (Others who hold the
\* backend's role can revoke on the chain whatever they like.)
ChainKnown ==
  /\ \A tx \in DOMAIN receipts :
       \/ \E h \in Handlers : nonce[h] = tx
       \/ tx \in abandoned
       \/ \E a \in Anchors : a.tx = tx /\ Logged(a.op, tx)
  /\ store.tx # NoTx => \E a \in Anchors : a.tx = store.tx /\ Logged("anchor", a.tx)
  /\ \A tx \in DOMAIN sent : sent[tx].to = "revocations" => Logged("revoke", NoTx)

\* RevocationRegistry.sol, line 34 ("Idempotent per referenceId"): anchoring a
\* revocation that stands changes nothing.  (False: the record of the first one,
\* with its hash and its date, is replaced.)
RevocationIdempotent ==
  [][IsRevoked(chain) /\ IsRevoked(chain') => chain'.revocations = chain.revocations]_vars

\* issuer.py, lines 150-153: nothing ends a revocation, except a handler that
\* read the credential before it; anchor_credential may have read it two
\* minutes before.
RevocationUndoneOnlyByOverlap ==
  [][store.status = "revoked" /\ store'.status # "revoked"
       => \E h \in stale : req[h].pc = "flush"]_vars

\* connector.py, line 107: every request is answered, also when the chain has
\* stopped.
EveryRequestEnds == \A h \in Handlers : ~Idles(h) ~> Idles(h)
=============================================================================
