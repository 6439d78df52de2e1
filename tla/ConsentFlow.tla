---------------------------- MODULE ConsentFlow -----------------------------
(***************************************************************************)
(* A verifier asks a subject for consent, the subject answers, proves a    *)
(* predicate about a claim of its credential, and the verifier has the     *)
(* proof checked: request_consent, respond_to_consent and revoke_consent   *)
(* (api/routes/consent.py), create_proof_request and verify_submitted_proof *)
(* (api/routes/verifier.py) and generate_wallet_proof                      *)
(* (api/routes/wallet.py), for one subject, one credential of one issuer   *)
(* and one verifier; and zk_generate_proof and zk_verify_proof             *)
(* (api/routes/zk.py), which do the same without a consent.                *)
(*                                                                         *)
(* Handlers run concurrently; each database access is a step of its own.   *)
(* A scope is a predicate such as age_gte_18: ClaimOf gives its claim key  *)
(* (what verifier.py and wallet.py split off), Mentions the claim keys     *)
(* that occur in its text (what the check for scope creep looks for).      *)
(***************************************************************************)
EXTENDS Request, ProofEngine, FiniteSetsExt

CONSTANTS
  Handlers,          \* concurrent request handlers
  Consents,          \* bound: the consent records that can be created
  Proofs,            \* bound: the proofs that can be generated
  Scopes,            \* predicates
  ClaimOf,           \* scope -> the claim it is about
  Mentions,          \* scope -> the claim keys its text contains
  MaxVerifications,  \* bound: verifications stored
  MaxDisturbances    \* bound: failures, revocations, blocks and expiries

ASSUME ScopesAssumption == \A s \in Scopes : ClaimOf[s] \in Mentions[s]
ASSUME DocumentsAssumption ==
  /\ Consents \cap Proofs = {}
  /\ {"credential", "profile", "audit", "verification", "none"} \cap (Consents \cup Proofs) = {}

VARIABLES
  store,      \* consents, proofs, the credential and the profile of its issuer
  inserted,   \* <<collection, record>>: the audit and verification logs
  expired,    \* the documents whose expires_at has passed
  req,        \* the handlers
  local,      \* their local variables
  stale,      \* history: <<h, c>>: h's copy of consent c is out of date
  undone,     \* history: revocations and blocks a stale copy was written over
  disturbed   \* history: how many failures, revocations, blocks and expiries

vars == <<store, inserted, expired, req, local, stale, undone, disturbed>>

Credential == "credential"
Issuer == "profile"
Absent == [status |-> "absent"]
NoLocals == [consent |-> "none", proof |-> "none", scopes |-> {}, result |-> "none",
             inForce |-> FALSE]

Stored(d) == store[d] # Absent
Idles(h) == req[h].pc = "idle"
Held(d) == \E h \in Handlers : local[h].consent = d \/ local[h].proof = d

Event(op, id, scopes) == [op |-> op, id |-> id, scopes |-> scopes]

\* The common end of the handlers: log_event, in verify_submitted_proof after
\* its VerificationLog is added, and the commit after it, which finds nothing
\* left to write.  Request r has local variables l.
Finish(r, l) ==
  LET verification == [consent |-> l.consent, scopes |-> l.scopes, result |-> l.result]
      added == IF r.op = "verify"
               THEN [r EXCEPT !.session = AddNew(@, "verification", verification)] ELSE r
      id == IF l.consent = "none" \/ r.op = "verify" THEN l.proof ELSE l.consent
  IN  LogEvent(added, Event(r.op, id, l.scopes), "idle")

\* Handler h has consent c, and nothing to do after this but the end.
Begin(h, op, session, c, scopes) ==
  LET l == [NoLocals EXCEPT !.consent = c, !.scopes = scopes]
  IN  /\ Idles(h)
      /\ req' = [req EXCEPT ![h] = Finish(Start(op, session, "log"), l)]
      /\ local' = [local EXCEPT ![h] = l]
      /\ stale' = stale \ {<<h, c>>}
      /\ UNCHANGED <<store, inserted, expired, undone, disturbed>>

-----------------------------------------------------------------------------
(* Consent *)

\* create_proof_request gives the consent an expiry date, request_consent none.
RequestConsent(h, c, scopes, expires) ==
  /\ ~Stored(c) /\ ~Held(c)
  /\ scopes # {}
  /\ LET consent == [status |-> "pending", scopes |-> scopes, expires |-> expires]
     IN  Begin(h, "request", AddNew(NoSession, c, consent), c, scopes)

\* The scopes the subject may answer with: those it lists, or, if it lists
\* none, those requested.
Approvable(c) == {s \in SUBSET store[c].scopes : s # {}}

\* (Mutant: only a denied request stays closed.)
AnswerableUnlessDenied(c) == Stored(c) /\ store[c].status # "denied"

Answerable(c) == Stored(c) /\ store[c].status = "pending"

Approve(h, c) ==
  /\ Answerable(c)
  /\ \E scopes \in Approvable(c) :
       LET answer == [store[c] EXCEPT !.status = "approved", !.scopes = scopes]
       IN  Begin(h, "approve", Assign(Fetch(NoSession, c, store[c]), 1, answer), c, scopes)

Deny(h, c) ==
  /\ Answerable(c)
  /\ LET answer == [store[c] EXCEPT !.status = "denied"]
     IN  Begin(h, "deny", Assign(Fetch(NoSession, c, store[c]), 1, answer),
               c, store[c].scopes)

RevokeConsent(h, c) ==
  /\ Stored(c) /\ store[c].status = "approved"
  /\ LET revoked == [store[c] EXCEPT !.status = "revoked"]
     IN  Begin(h, "revoke", Assign(Fetch(NoSession, c, store[c]), 1, revoked), c, {})

-----------------------------------------------------------------------------
(* Proofs *)

\* Handler h finds the credential active and goes on to pc with a proof of a
\* predicate on one of its claims.  (A credential or profile that a handler only
\* reads is left out of its session.)
Generate(h, p, scope, pc) ==
  /\ Idles(h)
  /\ ~Stored(p) /\ ~Held(p)
  /\ store[Credential].status = "active"
  /\ req' = [req EXCEPT ![h] = Start("prove", NoSession, pc)]
  /\ local' = [local EXCEPT ![h] = [NoLocals EXCEPT !.proof = p, !.scopes = {scope}]]
  /\ UNCHANGED <<store, inserted, expired, stale, undone, disturbed>>

\* generate_wallet_proof has verify_credential_signature check the issuer's
\* signature, zk_generate_proof does not.
GenerateProof(h, p, scope) == Generate(h, p, scope, "signature")
ZkGenerateProof(h, p, scope) == Generate(h, p, scope, "prove")

\* (Mutant: a proof without an expiry date.)
LastingRecord(s, satisfied) ==
  [status |-> "proof", scope |-> s, satisfied |-> satisfied, valid |-> "unset", expires |-> FALSE]

ProofRecord(s, satisfied) ==
  [status |-> "proof", scope |-> s, satisfied |-> satisfied, valid |-> "unset", expires |-> TRUE]

\* generate_proof proves the bit the claim value gives, 0 or 1.
AddProof(h) ==
  /\ req[h].pc = "prove"
  /\ \E scope \in local[h].scopes, satisfied \in BOOLEAN :
       LET proof == ProofRecord(scope, satisfied)
           added == [req[h] EXCEPT !.session = AddNew(@, local[h].proof, proof)]
       IN  req' = [req EXCEPT ![h] = Finish(added, local[h])]
  /\ UNCHANGED <<store, inserted, expired, local, stale, undone, disturbed>>

-----------------------------------------------------------------------------
(* verify_submitted_proof *)

\* Handler h with request r and local variables l has its result and ends, or
\* has none yet and goes on to pc.
Conclude(h, r, l, pc) ==
  /\ local' = [local EXCEPT ![h] = l]
  /\ req' = [req EXCEPT ![h] = IF l.result = "none" THEN [r EXCEPT !.pc = pc]
                               ELSE Finish(r, l)]

\* The same in the middle of the handler.
Continue(h, session, result, pc) ==
  Conclude(h, [req[h] EXCEPT !.session = session], [local[h] EXCEPT !.result = result], pc)

\* History: everything proof p depends on holds at this moment.
InForce(c, p) ==
  /\ store[c].status = "approved" /\ {c, p} \cap expired = {}
  /\ store[Credential].status = "active" /\ store[Issuer].active

\* (Mutant: an open request is not refused.)
RefusedIfClosed(c) == store[c].status \in {"denied", "revoked"}

Refused(c) == store[c].status # "approved"

\* (Bound.)
CanVerify ==
  Cardinality({h \in Handlers : req[h].op \in {"verify", "zk_verify"}})
    + Cardinality({i \in inserted : i[1] = "verification" \/ i[2].op = "zk_verify"})
    < MaxVerifications

Verify(h, c, p) ==
  LET result == IF Refused(c) THEN "consent_denied"
                ELSE IF c \in expired THEN "expired" ELSE "none"
  IN  /\ Idles(h) /\ Stored(c)
      /\ CanVerify
      /\ Conclude(h, Start("verify", Fetch(NoSession, c, store[c]), "proof"),
                  [consent |-> c, proof |-> p, scopes |-> store[c].scopes,
                   result |-> result, inForce |-> InForce(c, p)],
                  "proof")
      /\ stale' = stale \ {<<h, c>>}
      /\ UNCHANGED <<store, inserted, expired, undone, disturbed>>

\* "claim key not in '|'.join(consent.requested_scopes)" is scope creep.
Covered(scope, scopes) == \E s \in scopes : ClaimOf[scope] \in Mentions[s]

ReadProof(h) ==
  LET p == local[h].proof
  IN  /\ req[h].pc = "proof"
      /\ IF ~Stored(p) THEN Continue(h, req[h].session, "invalid", "end")
         ELSE Continue(h, Fetch(req[h].session, p, store[p]),
                       IF p \in expired THEN "expired"
                       ELSE IF ~Covered(store[p].scope, local[h].scopes) THEN "invalid"
                       ELSE "none",
                       "credential")
      /\ UNCHANGED <<store, inserted, expired, stale, undone, disturbed>>

ReadCredential(h) ==
  /\ req[h].pc = "credential"
  /\ Continue(h, req[h].session,
              IF store[Credential].status = "revoked" THEN "revoked" ELSE "none", "issuer")
  /\ UNCHANGED <<store, inserted, expired, stale, undone, disturbed>>

\* (Mutant: the profile only has to exist.)
IssuerExists == TRUE

IssuerKeyActive == store[Issuer].active

\* is_issuer_key_active
ReadIssuer(h) ==
  /\ req[h].pc = "issuer"
  /\ Continue(h, req[h].session,
              IF IssuerKeyActive THEN "none" ELSE "invalid", "signature")
  /\ UNCHANGED <<store, inserted, expired, stale, undone, disturbed>>

\* verify_credential_signature, also for generate_wallet_proof, which gives up
\* (Fail) if the signature is not valid.  A profile without a public key gets
\* one.  (Whether the keys match is the subject of IssuerGovernance.)
CheckSignature(h) ==
  LET s == Fetch(req[h].session, Issuer, store[Issuer])
      keyed == Assign(s, Newest(s), [store[Issuer] EXCEPT !.keyed = TRUE])
      checked == IF store[Issuer].keyed THEN req[h].session ELSE keyed
      next == IF req[h].op = "verify" THEN "judge" ELSE "prove"
  IN  /\ req[h].pc = "signature"
      /\ \/ /\ req[h].op = "verify"
            /\ Continue(h, req[h].session, "invalid", "end")
         \/ /\ req' = [req EXCEPT ![h] = Flush([@ EXCEPT !.session = checked], next)]
            /\ UNCHANGED local
      /\ UNCHANGED <<store, inserted, expired, stale, undone, disturbed>>

Judged(proof, valid) == [proof EXCEPT !.valid = IF valid THEN "yes" ELSE "no"]

\* verify_proof of a proof that generate_proof made; the handler notes the
\* outcome in the proof record, its second object.
Judge(h) ==
  LET proof == ValOf(req[h].session, 2)
  IN  /\ req[h].pc = "judge"
      /\ \E valid \in Judgements[proof.satisfied] :
           Continue(h, Assign(req[h].session, 2, Judged(proof, valid)),
                    IF valid /\ proof.satisfied THEN "valid" ELSE "invalid", "end")
      /\ UNCHANGED <<store, inserted, expired, stale, undone, disturbed>>

\* zk_verify_proof: for anybody who knows the id of the proof.
ZkVerifyProof(h, p) ==
  LET l == [NoLocals EXCEPT !.proof = p]
  IN  /\ Idles(h) /\ Stored(p) /\ CanVerify
      /\ \E valid \in Judgements[store[p].satisfied] :
           req' = [req EXCEPT ![h] =
             Finish(Start("zk_verify",
                          Assign(Fetch(NoSession, p, store[p]), 1, Judged(store[p], valid)), "log"),
                    l)]
      /\ local' = [local EXCEPT ![h] = l]
      /\ UNCHANGED <<store, inserted, expired, stale, undone, disturbed>>

-----------------------------------------------------------------------------
(* Storing, ending and failing *)

Disturb == disturbed < MaxDisturbances /\ disturbed' = disturbed + 1

End(h) ==
  /\ req' = [req EXCEPT ![h] = Idle]
  /\ local' = [local EXCEPT ![h] = NoLocals]

\* One document of a flush is stored; the last one of its log_event ends the
\* request, apart from its answer.
Write(h) ==
  LET o == NextObject(req[h])
      after == AfterWrite(req[h])
  IN  /\ req[h].pc = "flush"
      /\ IF after.pc = "idle" THEN End(h)
         ELSE req' = [req EXCEPT ![h] = after] /\ UNCHANGED local
      /\ IF o.id \in DOMAIN store
         THEN store' = [store EXCEPT ![o.id] = o.val] /\ UNCHANGED inserted
         ELSE inserted' = inserted \cup {<<o.id, o.val>>} /\ UNCHANGED store
      /\ stale' = IF o.id \in Consents
                  THEN stale \cup {<<g, o.id>> : g \in {g \in Handlers \ {h} : ~Idles(g)}}
                  ELSE stale
      /\ undone' = IF o.id = Issuer /\ o.val.active /\ ~store[Issuer].active
                   THEN undone \cup {Issuer} ELSE undone
      /\ UNCHANGED <<expired, disturbed>>

\* The process dies, or the request fails: nothing but what it has stored stays.
Fail(h) ==
  /\ Disturb
  /\ ~Idles(h)
  /\ End(h)
  /\ UNCHANGED <<store, inserted, expired, stale, undone>>

-----------------------------------------------------------------------------
(* The handlers of issuers and administrators, and time *)

\* revoke_credential and block_issuer.
RevokeCredential ==
  /\ Disturb
  /\ store[Credential].status = "active"
  /\ store' = [store EXCEPT ![Credential].status = "revoked"]
  /\ UNCHANGED <<inserted, expired, req, local, stale, undone>>

BlockIssuer ==
  /\ Disturb
  /\ store[Issuer].active
  /\ store' = [store EXCEPT ![Issuer].active = FALSE]
  /\ UNCHANGED <<inserted, expired, req, local, stale, undone>>

\* Another handler stores the copy it read before: the credential in
\* anchor_credential (api/routes/blockchain.py), the profile in
\* ensure_issuer_public_key.  (Bound: once.)
StoreStaleCopy ==
  /\ undone = {}
  /\ \/ /\ store[Credential].status = "revoked"
        /\ store' = [store EXCEPT ![Credential].status = "active"]
        /\ undone' = undone \cup {Credential}
     \/ /\ ~store[Issuer].active
        /\ store' = [store EXCEPT ![Issuer].active = TRUE, ![Issuer].keyed = TRUE]
        /\ undone' = undone \cup {Issuer}
  /\ UNCHANGED <<inserted, expired, req, local, stale, disturbed>>

Expire(d) ==
  /\ Disturb
  /\ Stored(d) /\ store[d].expires /\ d \notin expired
  /\ expired' = expired \cup {d}
  /\ UNCHANGED <<store, inserted, req, local, stale, undone>>

-----------------------------------------------------------------------------
Init ==
  /\ \E keyed \in BOOLEAN :
       store = [d \in Consents \cup Proofs \cup {Credential, Issuer} |->
                  IF d = Credential THEN [status |-> "active"]
                  ELSE IF d = Issuer THEN [active |-> TRUE, keyed |-> keyed]
                  ELSE Absent]
  /\ inserted = {}
  /\ expired = {}
  /\ req = [h \in Handlers |-> Idle]
  /\ local = [h \in Handlers |-> NoLocals]
  /\ stale = {}
  /\ undone = {}
  /\ disturbed = 0

Next ==
  \/ \E h \in Handlers :
       \/ \E c \in Consents :
            \/ \E scopes \in SUBSET Scopes, expires \in BOOLEAN :
                 RequestConsent(h, c, scopes, expires)
            \/ Approve(h, c) \/ Deny(h, c) \/ RevokeConsent(h, c)
            \/ \E p \in Proofs : Verify(h, c, p)
       \/ \E p \in Proofs :
            \/ ZkVerifyProof(h, p)
            \/ \E scope \in Scopes : GenerateProof(h, p, scope) \/ ZkGenerateProof(h, p, scope)
       \/ ReadProof(h) \/ ReadCredential(h) \/ ReadIssuer(h) \/ CheckSignature(h)
       \/ Judge(h) \/ AddProof(h)
       \/ Write(h) \/ Fail(h)
  \/ RevokeCredential \/ BlockIssuer \/ StoreStaleCopy
  \/ \E d \in Consents \cup Proofs : Expire(d)

Spec == Init /\ [][Next]_vars

-----------------------------------------------------------------------------
(* Properties *)

Statuses == {"pending", "approved", "denied", "revoked"}
Results == {"none", "valid", "invalid", "revoked", "expired", "consent_denied"}

\* Type invariant; only documents that expire at all are expired.
TypeOK ==
  /\ \A c \in Consents :
       Stored(c) => store[c] \in [status : Statuses, scopes : SUBSET Scopes, expires : BOOLEAN]
  /\ \A p \in Proofs :
       Stored(p) => store[p] \in [status : {"proof"}, scope : Scopes, satisfied : BOOLEAN,
                                  valid : {"unset", "yes", "no"}, expires : {TRUE}]
  /\ store[Issuer] \in [active : BOOLEAN, keyed : BOOLEAN]
  /\ \A d \in expired : Stored(d) /\ store[d].expires
  /\ \A h \in Handlers : local[h].result \in Results /\ local[h].scopes \subseteq Scopes

Logged(op, c, scopes) == <<"audit", Event(op, c, scopes)>> \in inserted

\* models/consent.py, lines 18-22: nothing is disclosed to the verifier before
\* the subject has approved it.  Every result a verifier gets other than
\* "consent_denied" rests on an approval of just these scopes that is on the
\* audit trail, whatever else ran or failed; and what is answered "valid" is
\* about a claim that occurs in one of them.
DisclosureAudited ==
  \A h \in Handlers :
    LET l == local[h]
    IN  /\ req[h].op = "verify" /\ l.result \notin {"none", "consent_denied"}
             => Logged("approve", l.consent, l.scopes)
        /\ req[h].op = "verify" /\ l.result = "valid"
             => Stored(l.proof) /\ Covered(store[l.proof].scope, l.scopes)

\* ConsentModal.tsx, line 61 ("Only the exact boolean result of each item above
\* will be shared"): a proof found valid is of a predicate the subject approved.
\* (False: the claim is compared, not the predicate.)
OnlyConsentedPredicates ==
  \A h \in Handlers :
    req[h].op = "verify" /\ local[h].result = "valid"
      => store[local[h].proof].scope \in local[h].scopes

\* logger.py, lines 2-4: a stored answer or revocation is on the audit trail,
\* even if the process dies between two writes of the commit.
AnswersAudited ==
  \A c \in Consents :
    LET consent == store[c]
    IN  /\ Stored(c) /\ consent.status = "approved" => Logged("approve", c, consent.scopes)
        /\ Stored(c) /\ consent.status = "denied" => Logged("deny", c, consent.scopes)
        /\ Stored(c) /\ consent.status = "revoked"
             => Logged("revoke", c, {}) /\ Logged("approve", c, consent.scopes)

\* A proof is found valid only if there was a moment, after the request came
\* in, when the consent was approved, neither it nor the proof expired, the
\* credential active and the issuer in good standing, all at once; although the
\* handler reads them one after the other.  (Unless a revocation or a block was
\* lost.)
ValidLinearizes ==
  \A h \in Handlers :
    req[h].op = "verify" /\ local[h].result = "valid" /\ undone = {} => local[h].inForce

\* proof_engine.py, lines 194-201: whatever scalars the prover drew and whether
\* its predicate holds or not, a proof it made is never found inconsistent.
HonestProofsVerify == \A p \in Proofs : Stored(p) => store[p].valid # "no"

\* An answer or a revocation of a consent is changed only in the order of
\* ConsentStatus, except by a handler that read it before it was stored.
ChangedOnlyInOrder ==
  [][\A c \in Consents :
       Stored(c) /\ store'[c] # store[c]
         => \/ <<store[c].status, store'[c].status>> \in
                 {<<"pending", "approved">>, <<"pending", "denied">>, <<"approved", "revoked">>}
            \/ \E h \in Handlers : req[h].pc = "flush" /\ <<h, c>> \in stale]_vars

\* consent.py, lines 66-67: a request that already has a response is not
\* answered again.
AnswerIsFinal ==
  [][\A c \in Consents :
       Stored(c) /\ store[c].status # "pending"
         => store'[c].status \notin {"pending", "approved", "denied"} \ {store[c].status}]_vars
=============================================================================
