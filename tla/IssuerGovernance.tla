-------------------------- MODULE IssuerGovernance --------------------------
(***************************************************************************)
(* One issuer: its profile, its key pair and the credentials it signs.     *)
(* The handlers approve_issuer and block_issuer (api/routes/admin.py) and  *)
(* issue_credential and revoke_credential (api/routes/issuer.py), and the  *)
(* seed script's --resync (scripts/seed_db.py), with                       *)
(* ensure_issuer_public_key, sign_commitment and resync_issuer_credentials *)
(* (core/issuer_crypto.py) and get_issuer_signing_key (core/keystore.py).  *)
(*                                                                         *)
(* Handlers run in several threads and processes; every database access    *)
(* and every access to the key file is a step of its own.  A key stands    *)
(* for the key pair: a credential verifies if the key it was signed with   *)
(* is the key whose public half the profile carries.                       *)
(***************************************************************************)
EXTENDS Request

CONSTANTS
  Handlers,      \* concurrent request handlers
  Keys,          \* bound: the key pairs that can be generated
  Credentials,   \* bound: the credentials that can be issued
  PemLost        \* whether a redeployment may lose the key file

ASSUME PemLostAssumption == PemLost \in BOOLEAN
ASSUME KeysAssumption == Keys \cap {"none", "truncated"} = {}
ASSUME CredentialsAssumption ==
  IsFiniteSet(Credentials) /\ Credentials \cap {"profile", "audit", "claims"} = {}

VARIABLES
  store,      \* the profile and the credentials, as MongoDB holds them
  inserted,   \* <<collection, record>>: the audit records and claims stored
  pem,        \* the issuer's PEM file: no file, a truncated one, or a key
  generated,  \* the keys generated so far
  req,        \* the handlers
  local,      \* their local variables
  overlapped, \* history: handlers that ran while another one was running
  stale       \* history: <<h, d>>: h may hold document d from before its last
              \* block or revocation

vars == <<store, inserted, pem, generated, req, local, overlapped, stale>>

Profile == "profile"
NoKey == "none"
Truncated == "truncated"
Absent == [status |-> "absent"]
NoLocals == [key |-> NoKey, stage |-> 0, cred |-> Absent]

Profiles == [approved : BOOLEAN, blocked : BOOLEAN, key : Keys \cup {NoKey}]
Documents == [status : {"active", "revoked"}, key : Keys]

Changing == {Profile} \cup Credentials

Active == {h \in Handlers : req[h].pc # "idle"}

\* Handler h begins: it and whoever runs already overlap.
Begins(h) ==
  /\ req[h].pc = "idle"
  /\ overlapped' = IF Active = {} THEN overlapped \ {h} ELSE overlapped \cup Active \cup {h}
  /\ stale' = stale \ ({h} \X Changing)

-----------------------------------------------------------------------------
(* The admin's handlers *)

\* approve_issuer reads the profile and changes its copy.
Approve(h) ==
  LET s == Fetch(NoSession, Profile, store[Profile])
  IN  /\ Begins(h)
      /\ req' = [req EXCEPT ![h] =
                   Start("approve",
                         Assign(s, 1, [store[Profile] EXCEPT !.approved = TRUE,
                                                             !.blocked = FALSE]),
                         "load")]
      /\ local' = [local EXCEPT ![h] = NoLocals]
      /\ UNCHANGED <<store, inserted, pem, generated>>

Block(h) ==
  LET s == Fetch(NoSession, Profile, store[Profile])
  IN  /\ Begins(h)
      /\ req' = [req EXCEPT ![h] =
                   Start("block", Assign(s, 1, [store[Profile] EXCEPT !.blocked = TRUE]), "log")]
      /\ local' = [local EXCEPT ![h] = NoLocals]
      /\ UNCHANGED <<store, inserted, pem, generated>>

-----------------------------------------------------------------------------
(* The issuer's handlers *)

\* issue_credential past _get_active_issuer_profile.
Issue(h) ==
  /\ Begins(h)
  /\ store[Profile].approved /\ ~store[Profile].blocked
  /\ req' = [req EXCEPT ![h] = Start("issue", Fetch(NoSession, Profile, store[Profile]), "load")]
  /\ local' = [local EXCEPT ![h] = NoLocals]
  /\ UNCHANGED <<store, inserted, pem, generated>>

\* revoke_credential of a credential that is not revoked yet.
Revoke(h, c) ==
  LET s == Fetch(NoSession, c, store[c])
  IN  /\ Begins(h)
      /\ store[c] # Absent /\ store[c].status # "revoked"
      /\ req' = [req EXCEPT ![h] =
                   Start("revoke", Assign(s, 1, [store[c] EXCEPT !.status = "revoked"]), "log")]
      /\ local' = [local EXCEPT ![h] = [NoLocals EXCEPT !.cred = c]]
      /\ UNCHANGED <<store, inserted, pem, generated>>

-----------------------------------------------------------------------------
(* Signing keys *)

\* Where issue_credential, approve_issuer and a resync go on with the key k.
WithKey(h, k, pc) ==
  /\ local' = [local EXCEPT ![h].key = k, ![h].stage = @ + 1]
  /\ req' = [req EXCEPT ![h].pc = pc]

\* (Mutant: off by one, the key is ensured once more.)
AfterKeyTwice(h) == IF local[h].stage = 3 THEN "sign" ELSE "ensure"

AfterKey(h) ==
  IF req[h].op = "resync" /\ local[h].stage = 1 THEN "resign"
  ELSE IF local[h].stage = 2 THEN "sign" ELSE "ensure"

\* get_issuer_signing_key finds no file, or loads the key from it (a
\* truncated one only lets the request fail).
LoadKey(h) ==
  /\ req[h].pc = "load"
  /\ \/ /\ pem = NoKey
        /\ req' = [req EXCEPT ![h].pc = "generate"]
        /\ UNCHANGED local
     \/ /\ pem \in Keys
        /\ WithKey(h, pem, AfterKey(h))
  /\ UNCHANGED <<store, inserted, pem, generated, overlapped, stale>>

\* It generates a key and opens the file, which truncates it; the key gets
\* there when the file is closed.
GenerateKey(h) ==
  /\ req[h].pc = "generate"
  /\ \E k \in Keys \ generated :
       /\ generated' = generated \cup {k}
       /\ local' = [local EXCEPT ![h].key = k]
  /\ pem' = Truncated
  /\ req' = [req EXCEPT ![h].pc = "save"]
  /\ UNCHANGED <<store, inserted, overlapped, stale>>

SaveKey(h) ==
  /\ req[h].pc = "save"
  /\ pem' = local[h].key
  /\ WithKey(h, local[h].key, AfterKey(h))
  /\ UNCHANGED <<store, inserted, generated, overlapped, stale>>

\* (Mutant: only a profile without a public key gets one.)
OutdatedIfNone(h) == store[Profile].key = NoKey

\* The stored public key is not that of the key just loaded.
Outdated(h) == store[Profile].key # local[h].key

\* ensure_issuer_public_key queries the profile again, and stores it if its
\* public key is not that of the key just loaded.  issue_credential does
\* this twice (itself, then in sign_commitment) before it loads the key to
\* sign with, a resync once.
EnsureKey(h) ==
  LET again == Fetch(req[h].session, Profile, store[Profile])
      n == Newest(again)
      kept == IF ~Outdated(h) THEN again
              ELSE Assign(again, n, [ValOf(again, n) EXCEPT !.key = local[h].key])
      next == IF req[h].op = "approve" THEN "log" ELSE "load"
      r == [req[h] EXCEPT !.session = kept]
  IN  /\ req[h].pc = "ensure"
      /\ req' = [req EXCEPT ![h] = IF kept = again THEN [r EXCEPT !.pc = next]
                                   ELSE Flush(r, next)]
      /\ stale' = stale \ {<<h, Profile>>}
      /\ UNCHANGED <<store, inserted, pem, generated, local, overlapped>>

\* The credential is signed, added and flushed, before its claims are added;
\* it has an id that no document and no handler has.
Sign(h) ==
  /\ req[h].pc = "sign"
  /\ \E c \in Credentials :
       /\ store[c] = Absent
       /\ \A g \in Active : local[g].cred # c
       /\ LET s == AddNew(req[h].session, c, [status |-> "active", key |-> local[h].key])
          IN  req' = [req EXCEPT ![h] = Flush([@ EXCEPT !.session = s], "log")]
       /\ local' = [local EXCEPT ![h].cred = c]
  /\ UNCHANGED <<store, inserted, pem, generated, overlapped, stale>>

-----------------------------------------------------------------------------
(* Signing again *)

\* seed_db --resync: for the issuer, resync_issuer_credentials.
Resync(h) ==
  /\ Begins(h)
  /\ req' = [req EXCEPT ![h] = Start("resync", NoSession, "load")]
  /\ local' = [local EXCEPT ![h] = NoLocals]
  /\ UNCHANGED <<store, inserted, pem, generated>>

\* (Mutants: only active credentials are signed again; a credential is made
\* anew.)
ToResignIfActive == {c \in Credentials : store[c] # Absent /\ store[c].status = "active"}
ResignedAnew(credential, key) == [status |-> "active", key |-> key]

ToResign == {c \in Credentials : store[c] # Absent}
Resigned(credential, key) == [credential EXCEPT !.key = key]

\* Session s, which holds no credential, after all() has fetched those of a
\* sequence and each was signed with a key.
AllResigned(s, found, key) ==
  [s EXCEPT !.objs = @ \o [i \in DOMAIN found |->
                             [id |-> found[i], val |-> Resigned(store[found[i]], key)]],
            !.tracked = @ \o [i \in DOMAIN found |->
                                [obj |-> Newest(s) + i, snapshot |-> store[found[i]]]]]

\* All credentials are fetched and signed with the key just loaded; the script
\* commits what that has changed.
Resign(h) ==
  /\ req[h].pc = "resign"
  /\ \E found \in SetToSeqs(ToResign) :
       LET s == AllResigned(req[h].session, found, local[h].key)
       IN  req' = [req EXCEPT ![h] = Flush([@ EXCEPT !.session = s], "answer")]
  /\ stale' = stale \ ({h} \X Credentials)
  /\ UNCHANGED <<store, inserted, pem, generated, local, overlapped>>

-----------------------------------------------------------------------------
(* The common end of the handlers *)

\* log_event, after issue_credential has added the claims; the commit that
\* follows finds nothing left to write.
Log(h) ==
  LET r == req[h]
      added == IF r.op = "issue"
               THEN [r EXCEPT !.session = AddNew(@, "claims", local[h].cred)] ELSE r
  IN  /\ r.pc = "log"
      /\ req' = [req EXCEPT ![h] = LogEvent(added, <<r.op, local[h].cred>>, "answer")]
      /\ UNCHANGED <<store, inserted, pem, generated, local, overlapped, stale>>

\* One document of a flush is stored, as a whole.
Write(h) ==
  LET o == NextObject(req[h])
  IN  /\ req[h].pc = "flush"
      /\ IF o.id \in DOMAIN store
         THEN store' = [store EXCEPT ![o.id] = o.val] /\ UNCHANGED inserted
         ELSE inserted' = inserted \cup {<<o.id, o.val>>} /\ UNCHANGED store
      /\ req' = [req EXCEPT ![h] = AfterWrite(@)]
      /\ stale' = IF \/ o.id = Profile /\ o.val.blocked /\ ~store[Profile].blocked
                     \/ o.id \in Credentials /\ o.val.status = "revoked"
                  THEN stale \cup ((Active \ {h}) \X {o.id}) ELSE stale
      /\ UNCHANGED <<pem, generated, local, overlapped>>

Answer(h) ==
  /\ req[h].pc = "answer"
  /\ req' = [req EXCEPT ![h] = Idle]
  /\ UNCHANGED <<store, inserted, pem, generated, local, overlapped, stale>>

\* A handler's process dies, or its request fails (the holder is not found,
\* the key file is empty): there is no effect beyond what it has stored.
Fail(h) ==
  /\ req[h].pc # "idle"
  /\ req' = [req EXCEPT ![h] = Idle]
  /\ UNCHANGED <<store, inserted, pem, generated, local, overlapped, stale>>

\* A new container starts without the key file of the old one.
Redeploy ==
  /\ PemLost
  /\ pem # NoKey
  /\ pem' = NoKey
  /\ req' = [h \in Handlers |-> Idle]
  /\ UNCHANGED <<store, inserted, generated, local, overlapped, stale>>

-----------------------------------------------------------------------------
\* register leaves an unapproved profile without a key; the seed script an
\* approved one with the key of the PEM file.
Init ==
  /\ \E k \in Keys :
       \/ /\ pem = NoKey /\ generated = {}
          /\ store = [d \in {Profile} \cup Credentials |->
                        IF d = Profile
                        THEN [approved |-> FALSE, blocked |-> FALSE, key |-> NoKey]
                        ELSE Absent]
       \/ /\ pem = k /\ generated = {k}
          /\ store = [d \in {Profile} \cup Credentials |->
                        IF d = Profile
                        THEN [approved |-> TRUE, blocked |-> FALSE, key |-> k]
                        ELSE Absent]
  /\ inserted = {}
  /\ req = [h \in Handlers |-> Idle]
  /\ local = [h \in Handlers |-> NoLocals]
  /\ overlapped = {}
  /\ stale = {}

Next ==
  \/ \E h \in Handlers :
       \/ Approve(h) \/ Block(h) \/ Issue(h) \/ Resync(h) \/ Resign(h)
       \/ \E c \in Credentials : Revoke(h, c)
       \/ LoadKey(h) \/ GenerateKey(h) \/ SaveKey(h) \/ EnsureKey(h) \/ Sign(h)
       \/ Log(h) \/ Write(h) \/ Answer(h) \/ Fail(h)
  \/ Redeploy

Spec == Init /\ [][Next]_vars

-----------------------------------------------------------------------------
(* Properties *)

\* Type invariant; every copy a handler holds is of a document of that id.
TypeOK ==
  /\ store[Profile] \in Profiles
  /\ \A c \in Credentials : store[c] \in Documents \cup {Absent}
  /\ inserted \subseteq {"audit"} \X ({"approve", "block", "issue", "revoke"}
                                        \X (Credentials \cup {Absent}))
                       \cup {"claims"} \X Credentials
  /\ pem \in Keys \cup {NoKey, Truncated}
  /\ \A h \in Handlers :
       /\ local[h].stage \in 0..3 /\ local[h].key \in Keys \cup {NoKey}
       /\ \A n \in DOMAIN req[h].session.objs :
            LET o == req[h].session.objs[n]
            IN  /\ o.id = Profile => o.val \in Profiles
                /\ o.id \in Credentials => o.val \in Documents

Logged(op, c) == <<"audit", <<op, c>>>> \in inserted

\* logger.py, lines 2-4: every security-relevant action is written to the
\* trail.  A blocked issuer and a revoked credential have their events even
\* if the process dies between two writes of the commit, because log_event
\* adds its record before commit() collects the changed documents.
EveryChangeAudited ==
  /\ store[Profile].blocked => Logged("block", Absent)
  /\ \A c \in Credentials :
       store[c] # Absent /\ store[c].status = "revoked" => Logged("revoke", c)

\* A credential whose issuing is on the trail is stored with its claims: the
\* record comes last, whatever fails on the way.
AuditedIssueComplete ==
  \A c \in Credentials :
    Logged("issue", c) => store[c] # Absent /\ <<"claims", c>> \in inserted

\* admin.py, lines 53-55: whatever handlers do, and however they overlap, none of
\* them ever changes whether the stored profile is approved.  (A defect:
\* approve_issuer answers that it is.  Its change is made to an object that the
\* second query, of ensure_issuer_public_key, makes the session forget.)
ApprovalNeverStored == [][store'[Profile].approved = store[Profile].approved]_vars

\* A block (block_issuer, admin.py, line 75) is undone only by a handler that
\* read the profile before the block was stored and stores its whole copy
\* with a new key after it.
BlockUndoneOnlyByOverlap ==
  [][store[Profile].blocked /\ ~store'[Profile].blocked
       => \E h \in Handlers : /\ <<h, Profile>> \in stale
                              /\ req[h].pc = "flush" /\ NextObject(req[h]).id = Profile]_vars

\* issuer.py, lines 150-153: a revocation is undone only by a handler that read
\* the credential before the revocation was stored, as a resync may have: it
\* fetches the credentials whatever their status and stores them whole.
RevocationUndoneOnlyByOverlap ==
  [][\A c \in Credentials :
       store[c] # Absent /\ store[c].status = "revoked" /\ store'[c].status # "revoked"
         => \E h \in Handlers : /\ <<h, c>> \in stale
                                /\ req[h].pc = "flush" /\ NextObject(req[h]).id = c]_vars

\* A credential that was issued while no other handler ran verifies when it
\* is handed out, even if the key file was lost before: issue_credential
\* calls ensure_issuer_public_key (line 50) for that.
FreshCredentialVerifies ==
  \A h \in Handlers \ overlapped :
    req[h].op = "issue" /\ req[h].pc = "answer"
      => store[local[h].cred].key = store[Profile].key

\* README.md, line 83: when keys have changed, a resync that runs by itself leaves
\* every credential of the issuer, active or revoked, verifying again.
ResyncRepairs ==
  \A h \in Handlers \ overlapped :
    req[h].op = "resync" /\ req[h].pc = "answer"
      => \A c \in Credentials : store[c] # Absent => store[c].key = store[Profile].key

\* An issuer whose approval has been answered (admin.py, line 62: "is_approved":
\* True) is approved.
ApprovalPersists ==
  \A h \in Handlers :
    req[h].op = "approve" /\ req[h].pc = "answer" => store[Profile].approved

\* issuer_crypto.py, lines 4-5: signatures remain verifiable across restarts
\* and deployments even when local PEM files are regenerated.
SignaturesSurvive ==
  Active = {} =>
    \A c \in Credentials : store[c] # Absent => store[c].key = store[Profile].key
=============================================================================
