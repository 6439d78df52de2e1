# DecentraID in TLA+

A verification project for the DecentraID backend (`src/backend`): TLA+ models of
the parts whose correctness depends on the order in which things happen, TLC
configurations that check them on small instances, and theorems about them that
the TLA+ proof system checks for every instance.

Everything is translated from the code. Ten promises of comments and documents are not kept
by the code; for each of them a run or a further configuration shows the execution (see
*Disagreements*). These are the ones met while modelling, not all there may be.

## The system

DecentraID lets issuers sign credentials, holders prove predicates about them,
and verifiers check those proofs with the holder's consent. A FastAPI
application serves these roles from two worker processes
(`Dockerfile`: `--workers 2`), each running its synchronous handlers in a thread
pool. So any two requests overlap at any database or file access. All
state is in MongoDB, reached through a home-made imitation of an SQLAlchemy
session, and in one PEM file per issuer.

| Component | Source | State | Operations | Hard parts | Modelled in |
|---|---|---|---|---|---|
| Audit trail | `services/audit/logger.py`, `models/audit.py` | hash-chained `audit_events` | `log_event`, `verify_chain` | the end of the chain is found and extended in separate steps; ties of timestamps; alteration and deletion | `AuditChain`, `AuditLog` |
| Document sessions | `db/session.py`, `db/base.py` | per request: objects, `tracked`, `pending` | `query`, `add`, `commit`, `flush`, `refresh`, `delete` | whole-document writes of stale copies; commit in pieces; a second query forgets the first object | `Session`, `SessionShim`, `Request` |
| Issuer governance and keys | `api/routes/admin.py`, `core/issuer_crypto.py`, `core/keystore.py`, `scripts/seed_db.py --resync` | issuer profiles, PEM files | approve, block, key generation, signing, signing again | key file and stored public key drift apart; approvals and blocks race with key updates | `IssuerGovernance` |
| Issuance and revocation | `api/routes/issuer.py` | credentials, claims | issue, revoke | several flushes per request | `IssuerGovernance` |
| Consent | `api/routes/consent.py` | consent records | request, respond, revoke | check and write are separate steps | `ConsentFlow` |
| Proof verification | `api/routes/verifier.py` | proofs, verification log | proof request, verify | five documents read one after the other | `ConsentFlow` |
| Wallet and proof endpoints | `api/routes/wallet.py`, `api/routes/zk.py` | proofs | generate a proof, verify without consent | as above | `ConsentFlow` |
| Proof engine | `services/zk/proof_engine.py` | none | OR proof of one bit | modular arithmetic, which branch is real | `ProofEngine` |
| Login, lockout, MFA | `api/routes/auth.py`, `api/deps.py`, `core/otp_store.py` | users, OTP challenges | register, login, verify OTP, set up and enable MFA, refresh | counter and lock races, one-time use, Redis or the process's memory | `LoginAuth` |
| Anchoring | `api/routes/blockchain.py`, `services/blockchain/connector.py` | anchor records, nonces | anchor, anchor a revocation | a wait of two minutes in a handler, nonce races, reverted transactions | `Anchoring` |
| On-chain registries | `contracts/contracts/*.sol` | three contracts | anchor, approve, block, reverse, pause | what succeeds, what overwrites | `Registries` |
| Identity checks | `api/routes/ai.py`, `services/ai/*.py` | documents, matches, scores | upload, compare, liveness, score | a score is based on four reads; thresholds; two copies of one formula | `IdentityChecks`, `FraudScoring` |
| Tokens, roles, cookies, middleware, rate limits | `core/`, `middleware/`, `main.py` | none of their own | checks of one request | none across requests | left out |
| Frontend, schemas, DID profiles, configuration | `frontend/`, `schemas/`, `models/did.py` | none that changes | | | left out |

The parts meet in two places. Every handler keeps its changes in a session and
stores them with `commit`, and every state-changing handler calls `log_event`,
which *flushes* everything the session has pending together with its record.
What is stored, and in which order, is decided there, which is why `Session` and
`Request` are modules of their own, shared by the handlers' modules.

## The modules

**`AuditChain`** models `log_event` and `verify_chain`. A record is named by its
hash; hashes are numbers in order of insertion and `history[h]` remembers what
hash `h` was computed from, so SHA-256 is an injective function. `log_event` is
three steps: `Query` (which 20 records MongoDB returns, ties in any order, and
which of them is taken for the end), `Stamp` (the clock) and `Insert`. `Edit`,
`EditNote`, `Delete` and `Rewrite` change stored records behind its back: covered
fields, uncovered fields, whole records, and covered fields together with the
`record_hash`, which is a hash without a key and can be computed by anybody (the hash of
the new fields is the next number). `Verdict` is `verify_chain`; its walk
along the links is the complement of `Orphans`, which is defined with closed sets.
**`AuditLog`** is what a trail promises: a log that only grows at its end, in the order
of timestamps. `Walk` is the walk of `verify_chain` as a sequence (`WalkFrom` is the
recursive function that follows the links), and `ImplementsLog` says that this sequence
behaves like `AuditLog`.

**`Session`** is one `SessionShim` as a value with its operations as functions:
`Fetch` (a second fetch of an id makes a second object, and `tracked` forgets the
first), `Assign`, `AddNew`, `Writes` (what `commit` writes and in which order) and
`Committed`. **`SessionShim`** runs the sessions of several handlers over one store with
transactional and fallback commits. `fetched` is history: the version of its document
that an object last matched.

**`Request`** is a handler between two steps: its program counter, its session
and the rest of a commit that stores documents one by one. `LogEvent` adds
the record and flushes. `docker-compose.yml` runs a standalone `mongod`, on which
a transaction always fails, so handlers use the fallback only; `SessionShim`
checks both.

**`IssuerGovernance`** is one issuer with its profile, key file and credentials.
`Approve`, `Block`, `Issue` and `Revoke` begin a handler at its query of the
profile or credential; `LoadKey`, `GenerateKey`, `SaveKey` are the accesses of
`get_issuer_signing_key` to the file (opening it for writing truncates it);
`EnsureKey` is the second query in `ensure_issuer_public_key`; `Sign`, `Log`,
`Write` and `Answer` complete the request. `Fail` is a process that dies or a
request that fails, `Redeploy` a new container without the key file. (In the
container `KEYS_DIR` is `/keys`, not the mounted `/app/keys`, so key files do not
outlive it; if the directory cannot be created at all, the request fails.)
`Resync` and `Resign` are the seed script's `--resync`: it loads the key, fetches
every credential of the issuer and signs it again, in a process of its own while the
application runs. `stale` remembers which handlers hold a copy from before a block or
a revocation.
`Init` is what `register` or the seed script leave behind.

**`ConsentFlow`** has one subject with a credential of one issuer, and one
verifier. `RequestConsent`, `Approve`, `Deny`, `RevokeConsent`, `GenerateProof`,
`ZkGenerateProof`, `Verify` and `ZkVerifyProof` begin a handler (the wallet checks the
issuer's signature before it proves, `zk.py` does not, and `zk.py` verifies without a
consent); `ReadProof`, `ReadCredential`, `ReadIssuer`,
`CheckSignature` and `Judge` are the reads of `verify_submitted_proof`, each ending
the request if it settles the result. Issuers and administrators act in single
steps (`RevokeCredential`, `BlockIssuer`), and so does a handler that stores a stale
copy over their change (`StoreStaleCopy`); `IssuerGovernance` has those handlers in
full. What the verification of a proof can say comes from **`ProofEngine`**: the OR
proof of one bit (`ProveBit`) and its check (`VerifyBitProof`) in a group of eleven
elements instead of 2048 bits. `Judgements` is the set of outcomes over all scalars a
prover can draw, so the handlers of `ConsentFlow` judge every proof the engine can
make. The group has the one property the code relies on, that exponents count
modulo `P - 1` (`PrimeAssumption`, Fermat's little theorem, which holds of the primes);
the hash is any function of what is hashed.

**`LoginAuth`** has the accounts of one email address. `Register`/`AddProfiles`,
`WrongPassword`, `RightPassword`, `Setup` and `Enable` begin with the read of the
user and leave the changed copy to be stored; `Grant` and `IssueChallenge` end a
login without and with MFA; `GetChallenge`, `CheckCode` and `DeleteChallenge` are
`verify_otp`. `Reaches` is `_get_redis`: a process decides at its first use whether
challenges are kept in Redis or in its own memory, and never again.
`ChallengeExpires`, `LockRunsOut`, `AccessExpires` and `RedisStops` are time and the
environment. `guesses`, `lapped`, `spent` and `stale` are history.

**`Registries`** is the three contracts as one value: `Required` is their `require`s
and modifiers, `Executed` what a call leaves. **`Anchoring`** composes them with the
handlers that send to them: `ReadNonce`, `Send`, `Refused`, `Receive` and `GiveUp` are
`BlockchainConnector._send`; `Mine` executes the next transaction of the backend,
`Outside` one of anybody else who holds the backend's or an administrator's role: any function
that changes a registry, `anchorRecord` of all three included, with any hash; `Revoke` is `revoke_credential`, which changes the document that
`anchor_credential` holds a copy of while it waits. A reverted transaction has a
receipt like any other, with status 0.

**`FraudScoring`** is the formulas of `services/ai` as exact integers, compared with
the Python functions on a grid of 176,400 inputs; **`IdentityChecks`** the four
endpoints of `ai.py`. `StoreFile` and `AnalyzeDocument`, `VerifyFace`, `LivenessCheck`,
and the reads of `fraud_score` (`ReadDocument` to `CountFailures`, then `Assess`) run
concurrently; the counts over an hour and a day depend on `HourPasses` and `DayPasses`.
Distinct addresses are counted as the imitation of `func.distinct` in `app/__init__.py`
counts them: every score of the last day, whatever its `address`.

Abstractions common to the handlers' modules: the trail is a set of records
(`AuditChain` is about their order and links), `log_event`'s query is merged into the step
before it because nothing in these modules depends on what it reads, and
identifiers, claims and texts are model values. A scope's text matters in one
place only, the substring test of `verify_submitted_proof`; `Mentions` says
which claim keys occur in it.

`AuditChainProofs`, `SessionShimProofs`, `GovernanceProofs`, `ConsentProofs`, `LoginProofs`,
`AnchoringProofs` and `IdentityProofs` hold the theorems about `AuditChain`, `SessionShim`,
`IssuerGovernance`, `ConsentFlow` and `ProofEngine`, `LoginAuth`, `Anchoring` and
`IdentityChecks`; `RequestProofs` holds the lemmas about the operators of `Session` and
`Request`, which all handlers share. `MC...` modules instantiate the models for TLC. Definitions marked "Mutant" state plausible
bugs of the definition that follows them; nothing else refers to them.

## The runs

| Run | Instance | Checks |
|---|---|---|
| `audit_serial` | one writer, window 3, bursts of 3, six records | `TypeOK`, `ChainIntact`, refinement `ImplementsLog` |
| `audit_tamper` | two writers, window 2, three hashes, any two records damaged: edited, deleted or rewritten with their hashes | `ForksOverlap`, `NoOrphans`, `IntactMeansPrefix` |
| `session_shim` | two handlers, one document of two attributes, three objects | `TypeOK`, `UnmodifiedNeverWritten`, `LostOnlyByOverlap` |
| `governance` | two handlers, two keys, one credential, key loss and crashes | `TypeOK`, `EveryChangeAudited`, `AuditedIssueComplete`, `FreshCredentialVerifies`, `ApprovalNeverStored`, `BlockUndoneOnlyByOverlap`, `RevocationUndoneOnlyByOverlap`, `ResyncRepairs` |
| `consent` | two handlers, one consent, one proof, two scopes, one verification, one disturbance | `TypeOK`, `DisclosureAudited`, `AnswersAudited`, `ValidLinearizes`, `HonestProofsVerify`, `ChangedOnlyInOrder` |
| `login` | two handlers in two processes, two accounts, two secrets, one challenge, two attempts, two locks, five requests | `TypeOK`, `GuessesBounded`, `TrailComplete`, `ProtectionLostOnlyByOverlap`, `OneSignInPerChallenge`, `OneAccountPerEmail` |
| `anchoring` | two handlers, three requests, one transaction of others, two hashes | `TypeOK`, `ConfirmedMeansAnchored`, `ChainKnown`, `RevocationUndoneOnlyByOverlap`, liveness `EveryRequestEnds` |
| `identity` | two handlers, one upload, one match, two scores, five requests, two values of each measurement | `TypeOK`, `RiskierNeverBetter`, `DocumentNotUnderrated`, `TrailFounded`, `VerdictOutdatedOnlyByOverlap` |

What they show, in words:

- *Audit trail.* Only overlapping calls of `log_event` fork the chain, whatever
  the ties of timestamps at the edge of the window (bursts up to the window: one
  more record with the same timestamp could hide the end). Without tampering no record is ever
  unreachable. "Intact" is worth this: what is stored carries the fields its
  `record_hash` was made of, in one line, with nothing missing before any stored record, and each
  was hashed after the one it follows. So who rewrites a record with its hash has to rewrite
  all records after it. It is not worth what the documents say (`audit_undetected`): the
  newest records can be deleted or rewritten with their hashes, and `ip_address`, `user_agent` and
  `device_fingerprint` are not hashed.
- *Sessions.* A document that a handler fetched and did not modify is not
  overwritten. A commit may overwrite other handlers' attributes, but only if their
  write came after its own read.
- *Governance.* A stored block or revocation has its audit record even if the
  process dies in the middle of a commit, because `log_event` adds its record
  before `commit` appends the changed documents. A credential whose issue is on the
  trail has its claims. A credential issued alone verifies, even right after the key
  file was lost. A block is undone only by a handler that read the profile before it.
  (Approvals never undo one: none is ever stored, `ApprovalNeverStored`.) A revocation is undone only by a resync that
  fetched the credential before it. A resync that runs by itself makes every credential
  of the issuer verify again.
- *Consent.* Every result a verifier gets other than a denial rests on an approval
  of exactly those scopes on the trail, and a "valid" is about a claim that occurs in
  one of them; the predicate on the claim may be another one
  (`consent_other_predicate`). A "valid" is linearizable: at one moment during the request the
  consent, the proof, the credential and the issuer were all good and nothing had expired, since
  consent status, revocations and blocks only move one way and expiry only sets in; a lost
  revocation or block (`undone`) is the only exception. A proof the engine made is never
  found inconsistent, whether its predicate holds or not.
- *Login.* Without overlap of requests the lockout is exact: at most `MaxAttempts` wrong
  passwords between a right one, or the end of a lock, and the next. With overlap,
  attempts are lost, and a lock or MFA may disappear with any stale copy of the
  account, a failed login's included; the action property says that this is the only
  way. A challenge signs in once unless a second request fetched it before it was
  deleted, wherever it is kept; a second account for an email needs two overlapping
  registrations. Locks, the enabling of MFA and registrations are on the trail.
- *Anchoring.* An anchor is confirmed just if the call took effect in that block, also when
  transactions raced, were reverted, or others used the registries. The record of an issuance
  stays what was confirmed; that of a revocation may be replaced by a later one
  (`revocation_replaced`). What the backend has sent and the chain mined is in the database, unless
  a handler gave up on it or died with it, and the backend sends no revocation that is not
  audited before. (Others with the backend's role can revoke on the chain what the
  database does not know.) Every request ends.
- *Identity.* No stored verdict would have been better for a more suspicious document, a worse
  match, more attempts or rejections, or failed liveness of a face at least .1 similar.
  For other faces it would (`identity_liveness`), and failed liveness does not keep a user from
  being approved (`identity_spoof`). The two formulas for a document differ, but never in the
  document's favour. What the trail reports is stored. A score rests on an outdated
  liveness result only if the check was stored after the score had read the match.

**Bounds.** Two handlers show every pairwise race; the properties that need a
third party have it as an environment step. The window of 20 is scaled to 2 or 3
together with the bursts of equal timestamps; what matters is the ratio, and the
proofs cover every window. Two keys are the key before and the key after a
loss. `MaxDisturbances = 1` allows one failure, expiry, revocation or block at any
point, `MaxVerifications = 1` one verification. Five requests to `login` are what it
takes to set MFA up, sign in with it and overlap one more request; two attempts and two
locks include a lock set again after the first has run out, since the counter is
not reset. Three requests to `anchoring` are a revocation, its anchoring and an
issuance that overlaps both; one transaction of others, at any point, pauses a registry,
anchors or overwrites a record, or reverses a revocation. (With two of them, and symmetry, the safety
properties hold as well; the proofs cover any number.) The measurements of `identity` reach all three verdicts. Deadlock
checking is off where a bound (records, versions, ids) may stop the system, and
on in the governance runs.

**Fairness and liveness.** `Anchoring` has the one liveness property,
`EveryRequestEnds`, under weak fairness of `Proceed(h)` for each handler: a request
that has been taken runs in a server thread, and `wait_for_transaction_receipt` gives up
after 120 seconds (`connector.py`, line 107), so a handler that waits can always go
on. Nothing is assumed of clients, of other people's transactions, of crashes or of the
chain, which may stop for ever. The other modules promise nothing of the form
"eventually": their handlers only wait for the database and the file system, any of
which may fail, and nothing is retried.

## Disagreements between code and documentation

Four runs are expected to end in a violation:

| Run | What happens |
|---|---|
| `audit_undetected` | The newest record of the trail is deleted, or rewritten with its hash, or an unhashed field is edited, and `verify_chain` answers intact, against the privacy page ("Any retroactive tampering with the log is cryptographically detectable"). `IntactMeansPrefix` is what an intact verdict does mean. |
| `consent_other_predicate` | The subject approves `age_gte_18`; a proof of `age_gte_21` is answered as valid, because only the claim's key is looked for in the approved scopes, against the consent dialogue ("Only the exact boolean result of each item above will be shared"). `DisclosureAudited` says what the check does ensure. |
| `revocation_replaced` | The backend anchors a revocation twice, and the registry's record of the first is replaced, against `RevocationRegistry.sol` ("Idempotent per referenceId"). `ConfirmedMeansAnchored` allows just that. |
| `identity_liveness` | A face that was not found is at risk 1 if live and .9 if not: failed liveness would turn a REVIEW into APPROVED, against `fraud_scoring.py` ("regardless of raw similarity"). `RiskierNeverBetter` leaves out just the faces less than .1 similar. |

Six more executions are kept as configurations. With each of them TLC reports a violation
(`tlc -config AuditFork.cfg MCAuditChain`); the passing runs have the property that says how far
the damage goes.

| Configuration | What happens |
|---|---|
| `AuditFork.cfg`, `MCAuditChain` | Two requests that log at the same time fork the chain; the check in the README's demo flow (`intact: true`) then fails for ever with nothing altered. Only overlaps do that (`ForksOverlap`). |
| `ApprovalLost.cfg`, `MCIssuerGovernance` | `approve_issuer` answers `is_approved: True` and stores nothing of it: `ensure_issuer_public_key` queries the profile again and the session forgets the changed object. No approval is ever stored (`ApprovalNeverStored`). |
| `SignaturesLost.cfg`, `MCIssuerGovernance` | After the key file is lost, the next use of the key replaces the stored public key; earlier credentials no longer verify until somebody runs `--resync`, against the docstring of `issuer_crypto.py`. New ones do (`FreshCredentialVerifies`), and all do after a resync (`ResyncRepairs`). |
| `ConsentAnsweredTwice.cfg`, `MCConsentFlow` | Two overlapping answers are both accepted, and the later write wins, against `consent.py` ("This consent request already has a response"). Only overlaps do that (`ChangedOnlyInOrder`). |
| `IdentitySpoof.cfg`, `MCIdentityChecks` | Failed liveness weighs .36 in a score that is reviewed from .45 on: a user with little else against him is approved, against `fraud_scoring.py` ("spoofed liveness must never be trusted"). |
| `IdentityAddresses.cfg`, `MCIdentityChecks` | A user with one address is scored as one with as many as he had scores that day, because the imitation of `func.distinct` drops the distinct, against `fraud_scoring.py` ("distinct IPs/day"). |

## What is proved

Every property that a passing run checks is also a theorem, for all values of the constants
that satisfy the named assumptions of the modules, with the one exception of the liveness
property `EveryRequestEnds`. None of the safety properties about handlers is
inductive: what counts is what is still on its way to the database, in the sessions and
half-finished commits of handlers that may die at any point.

### The operators of all handlers

`RequestProofs` is about what `Fetch`, `Assign`, `AddNew`, `Writes`, `Flush`, `LogEvent` and
`AfterWrite` leave, for any set of documents. Two lemmas carry the rest: what a commit writes
begins with what was added, in that order (`WritesType`), and everything it writes is an object the
handler holds. So log_event stores what was added before, then its record, then the
changed documents (`LogEventType`).

### The audit trail

`AuditChainProofs`, for every set of writers, window, number of records and ticks, and any
tampering:

- `TypeCorrect`: `Spec => []TypeOK`
- `OnlyOverlapsFork`: `Spec => []ForksOverlap`
- `EverythingReachable`: `Spec => []NoOrphans`
- `VerdictSound`: `Spec => []IntactMeansPrefix`
- `SerialChainIntact`: with a single writer, `Spec => []ChainIntact`
- `SerialTrailIsALog`: with a single writer and no tampering, `Spec => ImplementsLog`

The assumptions are a positive window, bursts of equal timestamps no larger than it, and the
kinds of tampering in the four listed ones. SHA-256 as an injective function and a clock that
does not run backwards are part of the model.

`ForksOverlap` and `NoOrphans` are not inductive, because what a record points to is decided at
the query and matters at the insertion. The inductive invariant `IInv` says, as long as
nothing was altered: links lead back in the collection and in time (`LinksBackwards`); some record
of the latest timestamp has no successor (`HasEnd`); no timestamp is shared by more
records than a window holds (`Bursts`); the predecessor in a writer's draft, and in a stored record,
had no successor among the records the query saw (`DraftsKnow`, `RecordsKnow`); every
set that contains the records after GENESIS and is closed under the links is the whole
collection (`Rooted`). The heart is `QueryFindsEnd`: a window at least as large as any burst contains
the end, and the record the query picks has no successor at all. `TamperingShows` and
`UntouchedBackwards` say that a trail once altered stays altered, so the invariant need not hold after
tampering. `VerdictSound` needs little of the chain: that a record was hashed after the one it
followed then (`HashedInOrder`), and the types. The rest is a fact about what `verify_chain`
computes from whatever it finds.

With one writer every query sees all that was written before (`SeesAll`). Then the collection is one
line in the order of insertion (`Serial`, `Line`), and the walk along the links is that
line: a walk that differs from it somewhere differs at a first place, and the record in front of
that place has one successor (`WalkIsLine`). So an insertion appends to the log, and
everything else leaves it alone (`LogStep`).

### Sessions

`SessionShimProofs`, for any handlers, documents and attributes and both kinds of commit
(assumed are a value to assign and a natural number as the bound on versions):

- `TypeCorrect`: `Spec => []TypeOK`
- `Unmodified`: `Spec => []UnmodifiedNeverWritten`
- `OverlapOnly`: `Spec => LostOnlyByOverlap`

The invariant says of each handler that its references are to objects it holds (`HeldOK`); that only
assigned attributes differ from the snapshot and only changed objects are being stored
(`NoticedOK`); and that an object which matched the present version of its document still
agrees with it, except for what the handler assigned (`MatchOK`). A write makes a new version, so it
cannot break what another handler's objects matched (`OthersMatch`).

### Issuer governance

`GovernanceProofs`, for any handlers, keys and credentials and with or without loss of the
key file (`CredentialsAssumption`: finitely many credentials, named unlike the other documents;
`KeysAssumption`: no key is the missing or the truncated file):

- `TypeCorrect`: `Spec => []TypeOK`
- `ChangesAudited`: `Spec => []EveryChangeAudited`
- `IssuesComplete`: `Spec => []AuditedIssueComplete`
- `BlocksUndone`: `Spec => BlockUndoneOnlyByOverlap`
- `RevocationsUndone`: `Spec => RevocationUndoneOnlyByOverlap`
- `FreshVerifies`: `Spec => []FreshCredentialVerifies`
- `Repairs`: `Spec => ResyncRepairs`
- `ApprovalsDropped`: `Spec => ApprovalNeverStored`
- `SignaturesLast`: if no key file is ever lost, `Spec => []SignaturesSurvive`

`Inv` says of every handler that each object it holds may be stored when its turn comes
(`Reviewed`): a block or a revocation only if its record is stored already or is the very next
thing this handler stores (`Covered`), the record of an issue only after the credential
(`Signed`) and its claims (`Ordered`). What a handler may store does not become wrong by
what others store (`Monotone`), so each action is proved for its own handler and `Frame` puts the
handlers together. The second layer, `Current`, says that whatever a handler may still store
undoes no block or revocation unless the handler is in `stale`, and leaves the approval as it
is; this gives the three action properties. The third, `Undisturbed`, follows a handler that runs
by itself: from its first `ensure_issuer_public_key` on, the profile and what it signs carry the key
in the file, or will after its flush. Without loss of the file, `OneKey` says that an approved
issuer's file, profile, credentials and whatever a handler may still store have one and the same
key, and that an issuer who was not approved has issued nothing.

### Consent and the proof engine

`ConsentProofs`, for any handlers, consents, proofs, scopes and claims (`DocumentsAssumption`: no
document has two names; `ScopesAssumption`: the text of a scope contains its own claim key) and
for any prime and generators:

- `TypeCorrect`: `Spec => []TypeOK`
- `Answers`: `Spec => []AnswersAudited`
- `Disclosures`: `Spec => []DisclosureAudited`
- `Linearizable`: `Spec => ValidLinearizes`
- `InOrderOnly`: `Spec => ChangedOnlyInOrder`
- `SerialAnswersFinal`: with a single handler, `Spec => AnswerIsFinal`
- `Completeness`: `VerifyBitProof(ProveBit(bit, x))` for all scalars `x` and both bits
- `HonestProofs`: `Spec => []HonestProofsVerify`

`Inv` is, as in governance, about what each handler may store and what must be on the trail
before. `Fresh` says that what a handler holds of a consent is what is stored, or follows it in the
order of `ConsentStatus`, or is out of date. `Linear` is the argument for `ValidLinearizes`:
consent, revocation, block and expiry move one way, so what a verification has read as good was
good when the request began, and at that moment everything was. `Scoped` follows the proof: what a
handler holds of one has the scope that is stored, so a verification past its scope check is
about a covered claim.

`Completeness` is number theory. `Power` is a recursive function, so first its recursion is shown to
have a solution (`PowersExist`, `PowerRecursion`); then come the laws of powers (`PowerLaws`,
`PowerOfPower`), the period `P - 1` and the inverses, which are what is needed of
`PrimeAssumption` (`PowerPeriod`, `InverseLaws`); then the sum of the two challenges
(`ChallengesAddUp`) and the equations of the simulated and of the real branch. TLC uses the prime 11;
the code's `P` has 2048 bits.

### Login

`LoginProofs`, for any handlers, processes, accounts, secrets, challenges and limits
(`NamesAssumption`, `LockoutAssumption`):

- `TypeCorrect`: `Spec => []TypeOK`
- `Trail`: `Spec => []TrailComplete`
- `Protections`: `Spec => ProtectionLostOnlyByOverlap`
- `OneAccount`: `Spec => OneAccountPerEmail`
- `OneSignIn`: `Spec => OneSignInPerChallenge`
- `Guesses`: if `MaxAttempts > 1`, `Spec => []GuessesBounded`

`Inv`: a handler holds one user object at most and stores it last of all (`UserLast`), after the
records it needs (`Reviewed`). `Second`: the copy it may still store is what its request makes of
the stored account (`Related`), or the handler is in `stale`. `Third`: whoever uses a challenge
looks where it is kept and is the first to use it, or is stale. `Count` relates the wrong
passwords tried to what the account itself counts.

### Anchoring

`AnchoringProofs`, for any handlers and requests and any transactions of others who hold a role
(`CommitmentAssumption`):

- `TypeCorrect`: `Spec => []TypeOK`
- `Confirmations`: `Spec => []ConfirmedMeansAnchored`
- `Documentation`: `Spec => []ChainKnown`
- `Revocations`: `Spec => RevocationUndoneOnlyByOverlap`

`Inv`: what a handler holds of the credential and of its transaction is on record already, or its
records are the next things this handler stores, and the registries have what a receipt
confirms (`ChainOK`, from what each call can make of the registries, `Effect`). `Kept`: somebody looks
after every transaction of the backend or its records are stored, and no two handlers
wait for one transaction; only a stale handler has missed the revocation.

### Identity checks

`IdentityProofs`, for any handlers, records, bursts of frames and whatever is measured of
documents (`MeasurementsAssumption`: natural numbers, and similarities of at most a
hundred hundredths; `RecordsAssumption`: finitely many scores, and no record with two names):

- `TypeCorrect`: `Spec => []TypeOK`
- `VerdictsMonotone`: `Spec => []RiskierNeverBetter`
- `DocumentsNotUnderrated`: `Spec => []DocumentNotUnderrated`
- `TrailIsFounded`: `Spec => []TrailFounded`
- `VerdictsCurrent`: `Spec => VerdictOutdatedOnlyByOverlap`

The first of these properties is arithmetic (`RiskierWorse`, `VerdictMonotone`) about inputs as the code
makes them: a match passes only from the threshold up. The second needs that one formula
bounds the other (`RiskCoversTamper`) and that both were applied to the same document. The
invariant says of every handler that its objects are versions of what is stored, equal up to the
liveness of a match, or the record it creates (`HeldOK`); that nobody else creates that record
(`Unique`); and that it holds what its event reports (`Reported`) and stores it first
(`Ordered`). `Recent` adds the dates of the scores and which of them rest on a liveness
result that has changed since.

### What the proofs needed

- `Guesses` assumes `MaxAttempts > 1`. With a limit of one the property is false: the
  first wrong password sets a lock, which may run out while the account with it is being
  stored, and a second one is tried after that. The code's limit is five (`auth.py`, `MAX_FAILED_ATTEMPTS`).
- The history variable `fetched` of `SessionShim` has to count a write only for the copy that the
  transaction stored last: with two new copies of one document in one transaction the
  first never is what is stored. Runs with two versions did not reach this; the proof did.
- Two cases of `Required` in `Registries` overlapped, for a function name that two
  contracts share. TLC takes the first; a proof cannot.
- Prime moduli, document names that do not collide and keys that are keys are assumptions of
  the modules, which TLC evaluates in every run.

### Only model-checked

Liveness under fairness (`EveryRequestEnds`) is out of the prover's reach. So are the ten
disagreements, which are executions; what is proved around them is that `approve_issuer` never
stores an approval (`ApprovalsDropped`), that signatures do not survive only where a key
file is lost (`SignaturesLast`), and that a fork of the chain and a second answer need
overlapping requests (`SerialChainIntact`, `SerialAnswersFinal`). Induction over data
in general is out of reach too, because the library's induction theorems take an operator; the two
recursive functions here were proved about without them, by a smallest counterexample
(`Walk`) and by a first-order induction over a set of numbers (`SetInduction`, for `Power`). That
`FraudScoring` computes what the Python functions compute was compared on a grid outside TLA+.

## Not modelled, and why

- What OpenCV measures in images and frames is numerical code; the measurements are
  inputs of `FraudScoring`.
- Token and cookie checks, roles, schemas, middleware and rate limits look at one request at
  a time; `logout` and `me` change nothing that is stored. Encryption, hashing and signatures are
  primitives with their usual properties.
- The splitting of a predicate's text (`proof_engine.py`) is about strings. What
  `ConsentFlow` needs of it are `ClaimOf` and `Mentions`.
- The seed script without `--resync` (the wipe with `--force` too) is meant to run before the application
  does; its result is the initial state. The deployment scripts of the contracts likewise.
- Granting and revoking the roles of the contracts: whoever calls in `Registries` has the role it needs.
- DID profiles are written once, with the user (`AddProfiles`). The frontend only
  shows state. The read-only listings and dashboards change nothing.

## Plan

1. Proofs: what a single handler guarantees beyond the trail and consents: no attribute is lost in
   `SessionShim`, no block or revocation undone, no lock or MFA lost.
2. Larger instances: three handlers in `anchoring`, two consents, two challenges.
