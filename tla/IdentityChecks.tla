--------------------------- MODULE IdentityChecks ---------------------------
(***************************************************************************)
(* The identity checks of one user (api/routes/ai.py): a document is       *)
(* uploaded and analysed, its photo compared with a selfie, liveness       *)
(* checked, and a fraud score computed of all that and of the scores the   *)
(* user has had before.                                                    *)
(*                                                                         *)
(* Handlers run concurrently; each access to the database or to the upload *)
(* directory is a step.  A score is dated by the order in which they are   *)
(* made.                                                                   *)
(***************************************************************************)
EXTENDS Request, FraudScoring

CONSTANTS
  Handlers,      \* concurrent request handlers
  Uploads,       \* bound: the document records that can be created
  Matches,       \* bound: the face match records that can be created
  Scores,        \* bound: the fraud scores that can be created
  Documents,     \* what can be measured in a document
  Similarities,  \* how similar two faces can be, in hundredths
  Frames,        \* what can be measured in a burst of frames
  Addresses,     \* where requests come from
  MaxRequests    \* bound: the requests that can be made

ASSUME MeasurementsAssumption ==
  /\ Documents \subseteq [noise : Nat, edge : Nat, copied : Nat]
  /\ Similarities \subseteq 0..100
ASSUME RecordsAssumption ==
  /\ IsFiniteSet(Scores)
  /\ Uploads \cap Matches = {} /\ Uploads \cap Scores = {} /\ Matches \cap Scores = {}
  /\ {"audit", "none"} \cap (Uploads \cup Matches \cup Scores) = {}

VARIABLES
  store,     \* the records, as MongoDB holds them
  inserted,  \* <<collection, record>>: the audit trail
  files,     \* the uploads whose encrypted file is stored
  clock,     \* the number of the latest score made
  hour, day, \* the latest score made an hour, a day ago
  req,       \* the handlers
  local,     \* their local variables
  stale,     \* history: <<h, m>>: liveness of m was stored since h has read it
  made       \* the number of requests made

database == <<store, inserted, files>>
time == <<clock, hour, day>>
vars == <<database, time, req, local, stale, made>>

Absent == [status |-> "absent"]
NoSignals == [attempts |-> 0, addresses |-> 0, failures |-> 0]
NoLocals == [id |-> "none", document |-> "none", match |-> "none", day |-> 0, signals |-> NoSignals]

Stored(id) == store[id] # Absent
StoredIn(ids) == {id \in ids : Stored(id)}
Idles(h) == req[h].pc = "idle"
Free(id) == ~Stored(id) /\ id \notin files /\ \A h \in Handlers : local[h].id # id

Begin(h, r, l) ==
  /\ Idles(h)
  /\ made < MaxRequests /\ made' = made + 1
  /\ req' = [req EXCEPT ![h] = r]
  /\ local' = [local EXCEPT ![h] = l]
  /\ UNCHANGED <<time, stale>>

\* The handler adds record id, and ends with log_event and the commit.
Conclude(r, id, record, event) ==
  LogEvent([r EXCEPT !.session = AddNew(@, id, record)], <<r.op, id, event>>, "idle")

-----------------------------------------------------------------------------
(* Document, face and liveness *)

\* verify_document: the encrypted file is written first.
StoreFile(h) ==
  \E u \in Uploads :
    /\ Free(u)
    /\ Begin(h, Start("document", NoSession, "analyze"), [NoLocals EXCEPT !.id = u])
    /\ files' = files \cup {u}
    /\ UNCHANGED <<store, inserted>>

AnalyzeDocument(h) ==
  /\ req[h].pc = "analyze"
  /\ \E d \in Documents :
       req' = [req EXCEPT ![h] = Conclude(@, local[h].id, d, TamperRisk(d))]
  /\ UNCHANGED <<database, time, local, stale, made>>

\* verify_face_endpoint
VerifyFace(h) ==
  \E u \in StoredIn(Uploads), m \in Matches, found \in BOOLEAN, similarity \in Similarities :
    LET match == MatchOf(found, similarity)
        r == Start("face", Fetch(NoSession, u, store[u]), "log")
    IN  /\ Free(m)
        /\ Begin(h, Conclude(r, m, [similarity |-> match.similarity, passed |-> match.passed,
                                    live |-> FALSE], match.passed),
                 [NoLocals EXCEPT !.id = m])
        /\ UNCHANGED database

\* liveness_check of a match: nothing but the match is stored.
LivenessCheck(h) ==
  \E m \in StoredIn(Matches), f \in Frames :
    /\ Begin(h, Flush(Start("liveness",
                            Assign(Fetch(NoSession, m, store[m]), 1,
                                   [store[m] EXCEPT !.live = LivenessPassed(f)]), "log"), "idle"),
             [NoLocals EXCEPT !.match = m])
    /\ UNCHANGED database

-----------------------------------------------------------------------------
(* fraud_score *)

ReadDocument(h) ==
  \E u \in StoredIn(Uploads), m \in Matches, s \in Scores :
    /\ Free(s)
    /\ Begin(h, Start("score", Fetch(NoSession, u, store[u]), "match"),
             [NoLocals EXCEPT !.id = s, !.document = u, !.match = m])
    /\ UNCHANGED database

Proceed(h, session, signals, pc) ==
  /\ req' = [req EXCEPT ![h].session = session, ![h].pc = pc]
  /\ local' = [local EXCEPT ![h].signals = signals]
  /\ UNCHANGED <<database, time, made>>

\* The match need not be one of that document.
ReadMatch(h) ==
  LET m == local[h].match
  IN  /\ req[h].pc = "match" /\ Stored(m)
      /\ Proceed(h, Fetch(req[h].session, m, store[m]), NoSignals, "hour")
      /\ stale' = stale \ {<<h, m>>}

Assessments == {store[s] : s \in StoredIn(Scores)}

\* compute_behavioral_signals reads the scores three times.  Its count of distinct
\* addresses is what app/__init__.py makes of it: a count of documents.
CountHour(h) ==
  /\ req[h].pc = "hour"
  /\ req' = [req EXCEPT ![h].pc = "day"]
  /\ local' = [local EXCEPT ![h].signals.attempts = CreatedAfter(Assessments, hour),
                            ![h].day = day]
  /\ UNCHANGED <<database, time, stale, made>>

CountDay(h) ==
  /\ req[h].pc = "day"
  /\ Proceed(h, req[h].session,
             [local[h].signals EXCEPT !.addresses = CreatedAfter(Assessments, local[h].day)], "recent")
  /\ UNCHANGED stale

CountFailures(h) ==
  /\ req[h].pc = "recent"
  /\ Proceed(h, req[h].session, [local[h].signals EXCEPT !.failures = Failures(Assessments)],
             "assess")
  /\ UNCHANGED stale

\* (Mutant: a match counts as live unless it says otherwise.)
LiveByDefault(match) == TRUE

Live(match) == match.live

\* What handler h bases its verdict on.
InputsOf(h) ==
  LET match == ValOf(req[h].session, 2)
  IN  [document |-> DocumentRisk(ValOf(req[h].session, 1)), similarity |-> match.similarity,
       passed |-> match.passed, live |-> Live(match), attempts |-> local[h].signals.attempts,
       addresses |-> local[h].signals.addresses, failures |-> local[h].signals.failures]

\* (Mutant: the date of the latest score is used again.)
DateOfLatest == clock

Date == clock + 1

Assess(h) ==
  LET inputs == InputsOf(h)
  IN  /\ req[h].pc = "assess"
      /\ \E address \in Addresses :
           LET score == [of |-> local[h].document, match |-> local[h].match, inputs |-> inputs,
                         verdict |-> Verdict(inputs), at |-> Date, address |-> address]
           IN  req' = [req EXCEPT ![h] = Conclude(@, local[h].id, score, Verdict(inputs))]
      /\ clock' = clock + 1
      /\ UNCHANGED <<database, hour, day, local, stale, made>>

-----------------------------------------------------------------------------
(* Storing, ending and failing; time *)

End(h) ==
  /\ req' = [req EXCEPT ![h] = Idle]
  /\ local' = [local EXCEPT ![h] = NoLocals]

\* One document of a flush is stored; the last one ends the request.
Write(h) ==
  LET o == NextObject(req[h])
      after == AfterWrite(req[h])
      ends == after.pc = "idle"
      late == {<<g, o.id>> : g \in {g \in Handlers \ {h} : ~Idles(g) /\ local[g].match = o.id}}
  IN  /\ req[h].pc = "flush"
      /\ IF ends THEN End(h) ELSE req' = [req EXCEPT ![h] = after] /\ UNCHANGED local
      /\ IF o.id \in DOMAIN store
         THEN store' = [store EXCEPT ![o.id] = o.val] /\ UNCHANGED inserted
         ELSE inserted' = inserted \cup {<<o.id, o.val>>} /\ UNCHANGED store
      /\ stale' = {s \in stale \cup late : ends => s[1] # h}
      /\ UNCHANGED <<files, time, made>>

\* The process dies, or the request fails: an image that cannot be read, a
\* match that does not exist.
Fail(h) ==
  /\ ~Idles(h)
  /\ End(h)
  /\ stale' = {s \in stale : s[1] # h}
  /\ UNCHANGED <<database, time, made>>

HourPasses == hour < clock /\ hour' = hour + 1 /\ UNCHANGED <<clock, day>>
DayPasses == day < hour /\ day' = day + 1 /\ UNCHANGED <<clock, hour>>

TimePasses == (HourPasses \/ DayPasses) /\ UNCHANGED <<database, req, local, stale, made>>

-----------------------------------------------------------------------------
Init ==
  /\ store = [id \in Uploads \cup Matches \cup Scores |-> Absent]
  /\ inserted = {} /\ files = {}
  /\ clock = 0 /\ hour = 0 /\ day = 0
  /\ req = [h \in Handlers |-> Idle]
  /\ local = [h \in Handlers |-> NoLocals]
  /\ stale = {}
  /\ made = 0

Next ==
  \/ \E h \in Handlers :
       \/ StoreFile(h) \/ AnalyzeDocument(h) \/ VerifyFace(h) \/ LivenessCheck(h)
       \/ ReadDocument(h) \/ ReadMatch(h) \/ CountHour(h) \/ CountDay(h) \/ CountFailures(h)
       \/ Assess(h) \/ Write(h) \/ Fail(h)
  \/ TimePasses

Spec == Init /\ [][Next]_vars

-----------------------------------------------------------------------------
(* Properties *)

Verdicts == <<"APPROVED", "REVIEW", "REJECTED">>
Rank(verdict) == CHOOSE i \in 1..3 : Verdicts[i] = verdict

\* Type invariant; the scores are dated one by one.
TypeOK ==
  /\ \A u \in StoredIn(Uploads) : store[u] \in Documents
  /\ \A m \in StoredIn(Matches) : store[m].similarity \in Similarities \cup {0}
  /\ \A s, t \in StoredIn(Scores) :
       store[s].at \in 1..clock /\ (store[s].at = store[t].at => s = t)
  /\ 0 <= day /\ day <= hour /\ hour <= clock

\* What differs from x in one factor, for the worse.  Failed liveness is among
\* them only for faces at least .1 similar: below that the code takes the face for
\* less risky, .9, once liveness has failed (FailedLivenessNeverHelps).
WorseDocument(x) == {[x EXCEPT !.document = Least(One, @ + n)] : n \in {20000, 50000}}
WorseMatch(x) ==
  {[x EXCEPT !.similarity = s, !.passed = @ /\ s >= FaceMatchThreshold] :
     s \in {s \in 0..x.similarity : s % 10 = 0}}
WorseRecord(x) == {[x EXCEPT !.attempts = @ + 1, !.addresses = @ + 1], [x EXCEPT !.failures = @ + 1]}
WorseLiveness(x) == IF x.similarity >= 10 THEN {[x EXCEPT !.live = FALSE]} ELSE {}
Riskier(x) == WorseDocument(x) \cup WorseMatch(x) \cup WorseRecord(x) \cup WorseLiveness(x)

\* fraud_scoring.py, lines 97-112: no user would have got a better verdict with a
\* more suspicious document, a worse match, more attempts or rejections, or with
\* failed liveness of a face at least .1 similar.
RiskierNeverBetter ==
  \A s \in StoredIn(Scores) :
    \A x \in Riskier(store[s].inputs) : Rank(Verdict(x)) >= Rank(store[s].verdict)

\* fraud_scoring.py, lines 94-95 ("Face risk is high when match fails or liveness
\* fails, regardless of raw similarity"): no user would have got a better verdict
\* with failed liveness, however similar the faces.  (False: a face that is not
\* found is at risk 1 if live, .9 if not.)
FailedLivenessNeverHelps ==
  \A s \in StoredIn(Scores) :
    Rank(Verdict([store[s].inputs EXCEPT !.live = FALSE])) >= Rank(store[s].verdict)

\* fraud_scoring.py, line 95 ("spoofed liveness must never be trusted"): who failed
\* liveness is not approved.  (False: failed liveness weighs .36, and .45 is needed.)
SpoofNeverApproved ==
  \A s \in StoredIn(Scores) : ~store[s].inputs.live => store[s].verdict # "APPROVED"

\* fraud_scoring.py, line 79 (">5 distinct IPs/day maxes out"): no verdict counts
\* more addresses than there are.  (False: it counts scores.)
AddressesDistinct ==
  \A s \in StoredIn(Scores) :
    store[s].inputs.addresses <= Cardinality({store[t].address : t \in StoredIn(Scores)})

\* Two files weigh the measurements of a document (ai.py, lines 226-231, and
\* document_verification.py, lines 144-149): no score takes a document for less
\* suspicious than the audit trail reports it.
DocumentNotUnderrated ==
  \A s \in StoredIn(Scores), i \in inserted :
    i[2][1] = "document" /\ i[2][2] = store[s].of => store[s].inputs.document >= i[2][3]

\* logger.py, lines 2-4: whatever the trail reports of the checks is stored with
\* the reported outcome, a document with its encrypted file, and a score with the
\* document and the match it is about.
TrailFounded ==
  /\ \A i \in inserted :
       LET id == i[2][2]
       IN  /\ Stored(id)
           /\ i[2][3] = CASE i[2][1] = "document" -> TamperRisk(store[id])
                          [] i[2][1] = "face" -> store[id].passed
                          [] i[2][1] = "score" -> store[id].verdict
  /\ StoredIn(Uploads) \subseteq files
  /\ \A s \in StoredIn(Scores) : Stored(store[s].of) /\ Stored(store[s].match)

\* ai.py, lines 184-194 and 216-240: a verdict is stored on a result of the
\* liveness check that the match no longer has only if a check was stored after
\* the handler had read the match.
VerdictOutdatedOnlyByOverlap ==
  [][\A s \in Scores :
       ~Stored(s) /\ store'[s] # Absent /\ store'[s].inputs.live # store[store'[s].match].live
         => \E h \in Handlers : req[h].pc = "flush" /\ <<h, store'[s].match>> \in stale]_vars
=============================================================================
