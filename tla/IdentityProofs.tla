---------------------------- MODULE IdentityProofs ----------------------------
(***************************************************************************)
(* IdentityChecks for any number of handlers and records, and whatever is  *)
(* measured: no verdict gets better with a worse factor, no score takes a  *)
(* document for better than the audit trail reports it, and what the trail *)
(* reports is stored.  Part by part: the arithmetic of the scores; what    *)
(* one handler holds (HandlerOK) and the database (StoreOK); that no step  *)
(* of another handler disturbs the former (Frame); one lemma per action;   *)
(* and a second layer (Recent): the dates of the scores, and which scores  *)
(* rest on a liveness result that has changed since.                       *)
(***************************************************************************)
EXTENDS IdentityChecks, RequestProofs, FiniteSetTheorems

\* What a verdict is based on.
MatchRecords ==
  {m \in [similarity : Similarities \cup {0}, passed : BOOLEAN, live : BOOLEAN] :
     m.passed => m.similarity >= FaceMatchThreshold}
Inputs ==
  {i \in [document : 0..One, similarity : 0..100, passed : BOOLEAN, live : BOOLEAN,
          attempts : Nat, addresses : Nat, failures : Nat] :
     i.passed => i.similarity >= FaceMatchThreshold}

\* The smaller of two numbers.
LEMMA LeastIs ==
  ASSUME NEW a \in Int, NEW b \in Int
  PROVE  Least(a, b) = IF a <= b THEN a ELSE b
<1> DEFINE m == IF a <= b THEN a ELSE b
<1>1. m \in {a, b} /\ \A y \in {a, b} : m <= y
  OBVIOUS
<1>2. \A x \in {a, b} : (\A y \in {a, b} : x <= y) => x = m
  OBVIOUS
<1> QED BY <1>1, <1>2 DEF Least, Min

\* The larger of two numbers.
LEMMA MaxIs ==
  ASSUME NEW a \in Int, NEW b \in Int
  PROVE  Max({a, b}) = IF a >= b THEN a ELSE b
<1> DEFINE m == IF a >= b THEN a ELSE b
<1>1. m \in {a, b} /\ \A y \in {a, b} : m >= y
  OBVIOUS
<1>2. \A x \in {a, b} : (\A y \in {a, b} : x >= y) => x = m
  OBVIOUS
<1> QED BY <1>1, <1>2 DEF Max

\* A document is at least as suspicious to fraud_score as analyze_document
\* reports it, whatever was measured.
LEMMA RiskCoversTamper ==
  ASSUME NEW d \in [noise : Nat, edge : Nat, copied : Nat]
  PROVE  DocumentRisk(d) \in 0..One /\ TamperRisk(d) \in 0..One /\ TamperRisk(d) <= DocumentRisk(d)
<1> DEFINE n == Least(d.noise, 250)
           e == Least(d.edge, 150)
           c == 250 * d.copied
           t == (40000 * n) \div 250 + (35000 * e) \div 150 + c
           r == 400 * d.noise + 350 * d.edge + c
<1>1. n \in Nat /\ n <= d.noise /\ e \in Nat /\ e <= d.edge /\ c \in Nat
  BY LeastIs
<1> HIDE DEF n, e, c
<1>2. (40000 * n) \div 250 \in Nat /\ (40000 * n) \div 250 <= 400 * d.noise
  BY <1>1
<1>3. (35000 * e) \div 150 \in Nat /\ (35000 * e) \div 150 <= 350 * d.edge
  BY <1>1
<1>4. t \in Nat /\ r \in Nat /\ t <= r
  <2> DEFINE a == (40000 * n) \div 250
             b == (35000 * e) \div 150
  <2>1. a \in Nat /\ b \in Nat /\ a <= 400 * d.noise /\ b <= 350 * d.edge
    BY <1>2, <1>3
  <2> HIDE DEF a, b
  <2> QED BY <1>1, <2>1 DEF a, b
<1>5. TamperRisk(d) = Least(One, t) /\ DocumentRisk(d) = Least(One, r)
  BY DEF TamperRisk, DocumentRisk, n, e, c
<1>6. \A x \in Nat : Least(One, x) = IF One <= x THEN One ELSE x
  BY LeastIs DEF One
<1> HIDE DEF t, r
<1>7. TamperRisk(d) = (IF One <= t THEN One ELSE t) /\ DocumentRisk(d) = (IF One <= r THEN One ELSE r)
  BY <1>4, <1>5, <1>6
<1>8. One \in Nat
  BY DEF One
<1> QED BY <1>4, <1>7, <1>8

\* The score of a face is between 0 and One.
LEMMA FaceScoreType ==
  ASSUME NEW i \in Inputs
  PROVE  FaceScore(i) \in 0..One
<1> DEFINE n == 100 - i.similarity
<1>1. n \in 0..100
  BY DEF Inputs
<1>2. FaceScore(i) \in {90000, 1000 * n, 500 * n}
  BY DEF FaceScore
<1> HIDE DEF n
<1> DEFINE x == 1000 * n
           y == 500 * n
<1>3. x \in Int /\ y \in Int /\ 0 <= x /\ x <= 100000 /\ 0 <= y /\ y <= 100000
  BY <1>1
<1>4. FaceScore(i) \in {90000, x, y}
  BY <1>2
<1> HIDE DEF x, y
<1>5. /\ FaceScore(i) \in Int /\ 0 <= FaceScore(i) /\ FaceScore(i) <= 100000
  BY <1>3, <1>4
<1>6. One \in Int /\ 100000 <= One
  BY DEF One
<1> QED BY <1>5, <1>6

\* So is the score of the behaviour, a sum of three capped counts.
LEMMA BehavioralType ==
  ASSUME NEW i \in Inputs
  PROVE  /\ BehavioralScore(i) = 5625 * (IF i.attempts <= 8 THEN i.attempts ELSE 8)
             + 6250 * (IF i.addresses = 0 THEN 0 ELSE IF i.addresses - 1 <= 4 THEN i.addresses - 1 ELSE 4)
             + 10000 * (IF i.failures <= 3 THEN i.failures ELSE 3)
         /\ BehavioralScore(i) \in 0..One
<1> DEFINE m == Max({i.addresses - 1, 0})
<1>1. i.attempts \in Nat /\ i.addresses \in Nat /\ i.failures \in Nat
  BY DEF Inputs
<1>2. m = IF i.addresses = 0 THEN 0 ELSE i.addresses - 1
  BY <1>1, MaxIs
<1>3. Least(m, 4) = IF i.addresses = 0 THEN 0 ELSE IF i.addresses - 1 <= 4 THEN i.addresses - 1 ELSE 4
  BY <1>1, <1>2, LeastIs
<1>4. Least(i.attempts, 8) = (IF i.attempts <= 8 THEN i.attempts ELSE 8)
      /\ Least(i.failures, 3) = (IF i.failures <= 3 THEN i.failures ELSE 3)
  BY <1>1, LeastIs
<1>5. BehavioralScore(i) = 5625 * Least(i.attempts, 8) + 6250 * Least(m, 4) + 10000 * Least(i.failures, 3)
  BY DEF BehavioralScore
<1> DEFINE a == IF i.attempts <= 8 THEN i.attempts ELSE 8
           b == IF i.addresses = 0 THEN 0 ELSE IF i.addresses - 1 <= 4 THEN i.addresses - 1 ELSE 4
           c == IF i.failures <= 3 THEN i.failures ELSE 3
<1>6. a \in 0..8 /\ b \in 0..4 /\ c \in 0..3
  BY <1>1
<1>7. BehavioralScore(i) = 5625 * a + 6250 * b + 10000 * c
  BY <1>3, <1>4, <1>5
<1>8. 5625 * a + 6250 * b + 10000 * c \in 0..One
  <2> DEFINE x == 5625 * a + 6250 * b + 10000 * c
  <2> HIDE DEF a, b, c
  <2>1. x \in Int /\ 0 <= x /\ x <= 100000
    BY <1>6
  <2> HIDE DEF x
  <2>2. One \in Int /\ 100000 <= One
    BY DEF One
  <2>3. x \in 0..One
    BY <2>1, <2>2
  <2> QED BY <2>3 DEF x
<1> QED BY <1>7, <1>8

\* A verdict does not get better if nothing it is based on does.
LEMMA VerdictMonotone ==
  ASSUME NEW i \in Inputs, NEW j \in Inputs, i.document <= j.document,
         FaceScore(i) <= FaceScore(j), BehavioralScore(i) <= BehavioralScore(j)
  PROVE  Rank(Verdict(i)) <= Rank(Verdict(j)) /\ Rank(Verdict(i)) \in 1..3 /\ Rank(Verdict(j)) \in 1..3
<1>1. Rank("APPROVED") = 1 /\ Rank("REVIEW") = 2 /\ Rank("REJECTED") = 3
  BY DEF Rank, Verdicts
<1>2. Overall(i) \in Int /\ Overall(j) \in Int /\ Overall(i) <= Overall(j)
  <2> DEFINE a == 2 * i.document + 2 * FaceScore(i) + BehavioralScore(i)
             b == 2 * j.document + 2 * FaceScore(j) + BehavioralScore(j)
  <2>1. i.document \in Int /\ j.document \in Int
    BY DEF Inputs
  <2>2. a \in Int /\ b \in Int /\ a <= b
    BY <2>1, FaceScoreType, BehavioralType
  <2>3. Overall(i) = a \div 5 /\ Overall(j) = b \div 5
    BY DEF Overall
  <2> HIDE DEF a, b
  <2> QED BY <2>2, <2>3
<1> QED BY <1>1, <1>2 DEF Verdict, RejectThreshold, ReviewThreshold

\* No input that is more suspicious in one factor makes the score lower.
LEMMA RiskierWorse ==
  ASSUME NEW i \in Inputs, NEW x \in Riskier(i)
  PROVE  /\ x \in Inputs /\ i.document <= x.document
         /\ FaceScore(i) <= FaceScore(x) /\ BehavioralScore(i) <= BehavioralScore(x)
<1>0. /\ i \in [document : 0..One, similarity : 0..100, passed : BOOLEAN, live : BOOLEAN,
                attempts : Nat, addresses : Nat, failures : Nat]
      /\ i.passed => i.similarity >= FaceMatchThreshold
  BY DEF Inputs
<1>d. i.document \in Int /\ i.document <= i.document
  <2>1. i.document \in 0..One
    BY <1>0
  <2>2. One \in Int
    BY DEF One
  <2> QED BY <2>1, <2>2
<1> DEFINE Same(a, b) == /\ a.similarity = b.similarity /\ a.passed = b.passed /\ a.live = b.live
           SameB(a, b) == /\ a.attempts = b.attempts /\ a.addresses = b.addresses /\ a.failures = b.failures
<1>a. \A y : Same(i, y) => FaceScore(i) = FaceScore(y)
  BY DEF FaceScore
<1>b. \A y : SameB(i, y) => BehavioralScore(i) = BehavioralScore(y)
  BY DEF BehavioralScore
<1>c. FaceScore(i) \in Int /\ BehavioralScore(i) \in Int
  BY FaceScoreType, BehavioralType
<1>1. CASE \E n \in {20000, 50000} : x = [i EXCEPT !.document = Least(One, i.document + n)]
  <2>1. PICK n \in {20000, 50000} : x = [i EXCEPT !.document = Least(One, i.document + n)]
    BY <1>1
  <2>2. Least(One, i.document + n) \in 0..One /\ i.document <= Least(One, i.document + n)
    <3>1. i.document \in 0..One /\ n \in Nat
      BY <1>0
    <3>2. One \in Int
      BY DEF One
    <3>3. i.document + n \in Int
      BY <3>1, <3>2
    <3> QED BY <3>1, <3>2, <3>3, LeastIs
  <2>3. x \in Inputs /\ i.document <= x.document /\ Same(i, x) /\ SameB(i, x)
    BY <1>0, <2>1, <2>2 DEF Inputs
  <2> QED BY <1>a, <1>b, <1>c, <2>3
<1>2. CASE \E s \in 0..i.similarity :
             x = [i EXCEPT !.similarity = s, !.passed = i.passed /\ s >= FaceMatchThreshold]
  <2>1. PICK s \in 0..i.similarity :
          x = [i EXCEPT !.similarity = s, !.passed = i.passed /\ s >= FaceMatchThreshold]
    BY <1>2
  <2>2. i.similarity \in 0..100 /\ s \in 0..100 /\ s <= i.similarity
    BY <1>0
  <2>3. /\ x \in [document : 0..One, similarity : 0..100, passed : BOOLEAN, live : BOOLEAN,
                  attempts : Nat, addresses : Nat, failures : Nat]
        /\ x.passed => i.passed /\ s >= FaceMatchThreshold
        /\ x.similarity = s /\ x.live = i.live /\ i.document <= x.document /\ SameB(i, x)
    <3> DEFINE p == i.passed /\ s >= FaceMatchThreshold
    <3>1. p \in BOOLEAN /\ (p => i.passed /\ s >= FaceMatchThreshold)
      OBVIOUS
    <3>2. x = [i EXCEPT !.similarity = s, !.passed = p]
      BY <2>1
    <3> HIDE DEF p
    <3> QED BY <1>0, <1>d, <2>2, <3>1, <3>2
  <2>4. x \in Inputs
    BY <2>3 DEF Inputs
  <2>5. FaceScore(i) <= FaceScore(x)
    BY <2>2, <2>3 DEF FaceScore
  <2> QED BY <1>b, <1>c, <2>3, <2>4, <2>5
<1>3. CASE x = [i EXCEPT !.attempts = i.attempts + 1, !.addresses = i.addresses + 1]
  <2> DEFINE m == i.attempts + 1
             n == i.addresses + 1
  <2>1. /\ i.attempts \in Nat /\ i.addresses \in Nat /\ i.failures \in Nat
        /\ m \in Nat /\ n \in Nat
    BY <1>0
  <2>2. x = [i EXCEPT !.attempts = m, !.addresses = n]
    BY <1>3
  <2> HIDE DEF m, n
  <2>3. /\ x \in [document : 0..One, similarity : 0..100, passed : BOOLEAN, live : BOOLEAN,
                  attempts : Nat, addresses : Nat, failures : Nat]
        /\ x.document = i.document /\ Same(i, x)
        /\ x.attempts = m /\ x.addresses = n /\ x.failures = i.failures
    BY <1>0, <2>1, <2>2
  <2>4. x \in Inputs /\ i.document <= x.document
    BY <1>0, <1>d, <2>3 DEF Inputs
  <2>5. BehavioralScore(i) <= BehavioralScore(x)
    BY <2>1, <2>3, <2>4, BehavioralType DEF m, n
  <2> QED BY <1>a, <1>c, <2>3, <2>4, <2>5
<1>4. CASE x = [i EXCEPT !.failures = i.failures + 1]
  <2>1. /\ x \in Inputs /\ i.document <= x.document /\ Same(i, x)
        /\ x.attempts = i.attempts /\ x.addresses = i.addresses /\ x.failures = i.failures + 1
        /\ i.attempts \in Nat /\ i.addresses \in Nat /\ i.failures \in Nat
    BY <1>0, <1>d, <1>4 DEF Inputs
  <2>2. BehavioralScore(i) <= BehavioralScore(x)
    BY <2>1, BehavioralType
  <2> QED BY <1>a, <1>c, <2>1, <2>2
<1>5. CASE x = [i EXCEPT !.live = FALSE] /\ i.similarity >= 10
  <2>1. /\ x \in Inputs /\ i.document <= x.document /\ SameB(i, x)
        /\ ~x.live /\ i.similarity >= 10 /\ i.similarity \in 0..100
    BY <1>0, <1>d, <1>5 DEF Inputs
  <2>2. FaceScore(i) <= FaceScore(x)
    BY <2>1 DEF FaceScore
  <2> QED BY <1>b, <1>c, <2>1, <2>2
<1>6. x \in WorseDocument(i) => \E n \in {20000, 50000} : x = [i EXCEPT !.document = Least(One, i.document + n)]
  BY DEF WorseDocument
<1>7. x \in WorseMatch(i) =>
        \E s \in 0..i.similarity :
          x = [i EXCEPT !.similarity = s, !.passed = i.passed /\ s >= FaceMatchThreshold]
  BY DEF WorseMatch
<1>8. x \in WorseRecord(i) =>
        \/ x = [i EXCEPT !.attempts = i.attempts + 1, !.addresses = i.addresses + 1]
        \/ x = [i EXCEPT !.failures = i.failures + 1]
  BY DEF WorseRecord
<1>9. x \in WorseLiveness(i) => x = [i EXCEPT !.live = FALSE] /\ i.similarity >= 10
  BY DEF WorseLiveness
<1>10. \/ x \in WorseDocument(i) \/ x \in WorseMatch(i) \/ x \in WorseRecord(i)
       \/ x \in WorseLiveness(i)
  BY DEF Riskier
<1> DEFINE Goal == /\ x \in Inputs /\ i.document <= x.document
                   /\ FaceScore(i) <= FaceScore(x) /\ BehavioralScore(i) <= BehavioralScore(x)
<1>11. x \in WorseDocument(i) => Goal
  BY <1>1, <1>6
<1>12. x \in WorseMatch(i) => Goal
  BY <1>2, <1>7
<1>13. x \in WorseRecord(i) => Goal
  BY <1>3, <1>4, <1>8
<1>14. x \in WorseLiveness(i) => Goal
  BY <1>5, <1>9
<1> HIDE DEF Goal
<1>15. Goal
  BY <1>10, <1>11, <1>12, <1>13, <1>14
<1> QED BY <1>15 DEF Goal

-----------------------------------------------------------------------------
\* The records, the places of a handler, the objects it can hold and its local
\* variables.
Ids == Uploads \cup Matches \cup Scores
Middle == {"analyze", "match", "hour", "day", "recent", "assess"}
Scoring == Middle \ {"analyze"}
Names == Basic \cup Middle \cup {"document", "face", "liveness", "score", "log"}
Results == {"APPROVED", "REVIEW", "REJECTED"}
ScoreRecords ==
  {s \in [of : Uploads, match : Matches, inputs : Inputs, verdict : Results, at : Nat,
         address : Addresses] :
     s.verdict = Verdict(s.inputs)}
Events == ({"document"} \X Uploads \X Int) \cup ({"face"} \X Matches \X BOOLEAN)
            \cup ({"score"} \X Scores \X Results)
Items == [id : Uploads, val : Documents] \cup [id : Matches, val : MatchRecords]
           \cup [id : Scores, val : ScoreRecords] \cup [id : {"audit"}, val : Events]
Locals == [id : Ids \cup {"none"}, document : Uploads \cup {"none"}, match : Matches \cup {"none"},
           day : Nat, signals : [attempts : Nat, addresses : Nat, failures : Nat]]

\* What an event of kind op reports of a record.
Outcome(op, v) == CASE op = "document" -> TamperRisk(v)
                    [] op = "face" -> v.passed
                    [] op = "score" -> v.verdict

\* Two versions of a record: only the liveness of a match ever changes.
Same(id, a, b) == IF id \in Matches THEN a.similarity = b.similarity /\ a.passed = b.passed ELSE a = b

\* A score has its document, whose risk it took over, and its match.
Founded(s, st) ==
  /\ st[s.of] # Absent /\ s.inputs.document = DocumentRisk(st[s.of])
  /\ st[s.match] # Absent

\* An object a handler holds is a version of what is stored, or the record it
\* creates.
HeldOK(o, l, st, fs) ==
  o.id # "audit" =>
    /\ IF st[o.id] = Absent THEN o.id = l.id ELSE Same(o.id, o.val, st[o.id])
    /\ o.id \in Uploads => o.id \in fs
    /\ o.id \in Scores => Founded(o.val, st)

\* Before it creates its record, the handler holds what it has read.
Before(r, l, st, fs) ==
  r.pc \in Middle =>
    /\ l.id \in Ids /\ st[l.id] = Absent
    /\ \A n \in DOMAIN r.session.objs : r.session.objs[n].id \notin {"audit", l.id}
    /\ r.session.pending = <<>>
    /\ r.pc = "analyze" => r.op = "document" /\ l.id \in Uploads /\ l.id \in fs
    /\ r.pc \in Scoring => /\ r.op = "score" /\ l.id \in Scores
                           /\ l.document \in Uploads /\ st[l.document] # Absent
                           /\ l.match \in Matches
                           /\ 1 \in DOMAIN r.session.objs /\ r.session.objs[1].id = l.document
    /\ r.pc = "match" => Len(r.session.objs) = 1
    /\ r.pc \in Scoring \ {"match"} => /\ st[l.match] # Absent
                                      /\ 2 \in DOMAIN r.session.objs
                                      /\ r.session.objs[2].id = l.match

\* What a handler is to report, it holds; all its versions of a record agree.
Reported(r) ==
  \A n \in DOMAIN r.session.objs :
    LET a == r.session.objs[n]
    IN  a.id = "audit" =>
          \E m \in DOMAIN r.session.objs :
            /\ r.session.objs[m].id = a.val[2]
            /\ a.val[3] = Outcome(a.val[1], r.session.objs[m].val)
Consistent(r) ==
  \A m, n \in DOMAIN r.session.objs :
    r.session.objs[m].id = r.session.objs[n].id /\ r.session.objs[m].id # "audit"
      => Same(r.session.objs[m].id, r.session.objs[m].val, r.session.objs[n].val)

\* The record an event reports is stored before it.
Ordered(r, st) ==
  \A i \in DOMAIN r.writing :
    LET a == r.session.objs[r.writing[i]]
    IN  a.id = "audit" =>
          \/ st[a.val[2]] # Absent
          \/ \E j \in DOMAIN r.writing : j < i /\ r.session.objs[r.writing[j]].id = a.val[2]

\* The part of a handler with request r and local variables l, when the records
\* st and the files fs are stored.
Placed(r) ==
  /\ r.pc \in Middle \cup {"idle", "flush"}
  /\ r.pc = "flush" => r.then = "idle"
HandlerOK(r, l, st, fs) ==
  /\ r \in Requests(Names, Items) /\ l \in Locals /\ Placed(r)
  /\ Before(r, l, st, fs)
  /\ \A n \in DOMAIN r.session.objs : HeldOK(r.session.objs[n], l, st, fs)
  /\ Reported(r) /\ Consistent(r)
  /\ r.pc = "flush" => Ordered(r, st)

\* The part of the database.
Types(st) ==
  /\ DOMAIN st = Ids
  /\ \A u \in Uploads : st[u] \in Documents \cup {Absent}
  /\ \A m \in Matches : st[m] \in MatchRecords \cup {Absent}
  /\ \A s \in Scores : st[s] \in ScoreRecords \cup {Absent}
Told(ins, st) ==
  \A i \in ins : /\ i[1] = "audit" /\ i[2] \in Events /\ i = <<i[1], i[2]>>
                 /\ st[i[2][2]] # Absent /\ i[2][3] = Outcome(i[2][1], st[i[2][2]])
StoreOK(st, ins, fs) ==
  /\ Types(st) /\ Told(ins, st)
  /\ \A s \in Scores : st[s] # Absent => Founded(st[s], st)
  /\ \A u \in Uploads : st[u] # Absent => u \in fs

\* No two handlers create the same record.
Unique(loc) ==
  \A g, h \in Handlers : loc[g].id = loc[h].id /\ loc[g].id # "none" => g = h

\* The inductive invariant.
Inv ==
  /\ StoreOK(store, inserted, files)
  /\ clock \in Nat /\ hour \in Nat /\ day \in Nat
  /\ req \in [Handlers -> Requests(Names, Items)] /\ local \in [Handlers -> Locals]
  /\ \A h \in Handlers : HandlerOK(req[h], local[h], store, files)
  /\ Unique(local)

\* The names of this model cover those of every request.
LEMMA NamesBasic == Basic \subseteq Names
BY DEF Names

\* A record that is there is not the mark of absence.
LEMMA AbsentIsNone ==
  /\ Absent \notin Documents /\ Absent \notin MatchRecords /\ Absent \notin ScoreRecords
<1>1. Absent.status = "absent" /\ DOMAIN Absent = {"status"}
  BY DEF Absent
<1>2. \A d \in [noise : Nat, edge : Nat, copied : Nat] : d # Absent
  <2>1. \A d \in [noise : Nat, edge : Nat, copied : Nat] : "noise" \in DOMAIN d
    OBVIOUS
  <2> QED BY <1>1, <2>1
<1>3. \A m \in MatchRecords : m # Absent
  <2>1. \A m \in [similarity : Similarities \cup {0}, passed : BOOLEAN, live : BOOLEAN] : "live" \in DOMAIN m
    OBVIOUS
  <2> QED BY <1>1, <2>1 DEF MatchRecords
<1>4. \A s \in ScoreRecords : s # Absent
  <2>1. \A s \in [of : Uploads, match : Matches, inputs : Inputs, verdict : Results, at : Nat,
                 address : Addresses] : "at" \in DOMAIN s
    OBVIOUS
  <2> QED BY <1>1, <2>1 DEF ScoreRecords
<1> QED BY <1>2, <1>3, <1>4, MeasurementsAssumption

\* The id of an object tells what its value is.
LEMMA ItemFacts ==
  ASSUME NEW o \in Items
  PROVE  /\ o.id \in Uploads => o.val \in Documents
         /\ o.id \in Matches => o.val \in MatchRecords
         /\ o.id \in Scores => o.val \in ScoreRecords
         /\ o.id = "audit" => o.val \in Events
         /\ o.id \in {"audit"} \cup Ids
         /\ o = [id |-> o.id, val |-> o.val]
BY RecordsAssumption DEF Items, Ids

\* What an event is about.
LEMMA EventFacts ==
  ASSUME NEW e \in Events
  PROVE  /\ e[2] \in Ids
         /\ \/ e[1] = "document" /\ e[2] \in Uploads
            \/ e[1] = "face" /\ e[2] \in Matches
            \/ e[1] = "score" /\ e[2] \in Scores
         /\ e = <<e[1], e[2], e[3]>>
BY DEF Events, Ids

\* The versions of a record are reported alike.
LEMMA SameOutcome ==
  ASSUME NEW e \in Events, NEW a, NEW b, Same(e[2], a, b)
  PROVE  Outcome(e[1], a) = Outcome(e[1], b)
<1>1. CASE e[1] = "face" /\ e[2] \in Matches
  BY <1>1 DEF Same, Outcome
<1>2. CASE e[2] \notin Matches
  BY <1>2 DEF Same
<1> QED BY <1>1, <1>2, EventFacts, RecordsAssumption

\* Records st become st2: one that a handler with local variables l does not
\* create may appear, and one that is there gets another version.
Extends(l, st, st2) ==
  \A d \in Ids : \/ st2[d] = st[d]
                 \/ st2[d] # Absent /\ IF st[d] = Absent THEN d # l.id ELSE Same(d, st[d], st2[d])

\* A score remains founded.
LEMMA FoundedStays ==
  ASSUME NEW l, NEW st, NEW st2, Extends(l, st, st2), NEW s \in ScoreRecords, Founded(s, st)
  PROVE  Founded(s, st2)
<1>1. s.of \in Uploads /\ s.match \in Matches
  BY DEF ScoreRecords
<1>2. s.of \in Ids /\ s.match \in Ids /\ s.of \notin Matches
  BY <1>1, RecordsAssumption DEF Ids
<1>3. st[s.of] # Absent /\ st[s.match] # Absent /\ s.inputs.document = DocumentRisk(st[s.of])
  BY DEF Founded
<1>4. st2[s.of] = st[s.of] /\ st2[s.match] # Absent
  BY <1>2, <1>3 DEF Extends, Same
<1> QED BY <1>3, <1>4 DEF Founded

\* What others store does not disturb a handler.
LEMMA Monotone ==
  ASSUME NEW r, NEW l, NEW st, NEW fs, NEW st2, NEW fs2, HandlerOK(r, l, st, fs),
         Extends(l, st, st2), fs \subseteq fs2
  PROVE  HandlerOK(r, l, st2, fs2)
<1>1. r \in Requests(Names, Items) /\ l \in Locals /\ Before(r, l, st, fs)
  BY DEF HandlerOK
<1>2. \A n \in DOMAIN r.session.objs : r.session.objs[n] \in Items /\ HeldOK(r.session.objs[n], l, st, fs)
  <2>1. r.session.objs \in Seq(Items)
    BY <1>1 DEF Requests, Shape, Sessions
  <2> QED BY <2>1 DEF HandlerOK
<1>3. \A d \in Ids : st[d] # Absent => st2[d] # Absent
  BY DEF Extends
<1>4. ASSUME NEW n \in DOMAIN r.session.objs PROVE HeldOK(r.session.objs[n], l, st2, fs2)
  <2> DEFINE o == r.session.objs[n]
  <2> SUFFICES ASSUME o.id # "audit" PROVE HeldOK(o, l, st2, fs2)
    BY DEF HeldOK
  <2>1. o.id \in Ids /\ o \in Items /\ HeldOK(o, l, st, fs)
    BY <1>2, ItemFacts
  <2>2. o.id \in Scores => o.val \in ScoreRecords
    BY <2>1, ItemFacts
  <2> HIDE DEF o
  <2>3. o.id \in Scores => Founded(o.val, st2)
    BY <2>1, <2>2, FoundedStays DEF HeldOK
  <2>4. IF st2[o.id] = Absent THEN o.id = l.id ELSE Same(o.id, o.val, st2[o.id])
    BY <2>1 DEF HeldOK, Extends, Same
  <2> QED BY <2>1, <2>3, <2>4 DEF HeldOK
<1>5. Before(r, l, st2, fs2)
  <2> SUFFICES ASSUME r.pc \in Middle PROVE Before(r, l, st2, fs2)
    BY DEF Before
  <2>1. l.id \in Ids /\ st[l.id] = Absent
    BY <1>1 DEF Before
  <2>2. st2[l.id] = Absent
    BY <2>1 DEF Extends
  <2>3. Uploads \subseteq Ids /\ Matches \subseteq Ids
    BY DEF Ids
  <2> QED BY <1>1, <1>3, <2>1, <2>2, <2>3 DEF Before
<1>6. r.pc = "flush" => Ordered(r, st2)
  <2> SUFFICES ASSUME r.pc = "flush" PROVE Ordered(r, st2)
    OBVIOUS
  <2>1. Ordered(r, st) /\ Sound(r)
    BY <1>1 DEF HandlerOK, Requests
  <2>2. \A i \in DOMAIN r.writing : LET a == r.session.objs[r.writing[i]] IN a.id = "audit" => a.val[2] \in Ids
    BY <1>2, <2>1, ItemFacts, EventFacts DEF Sound
  <2> QED BY <1>3, <2>1, <2>2 DEF Ordered
<1> QED BY <1>1, <1>4, <1>5, <1>6 DEF HandlerOK

\* A step of one handler, which creates the record of another name than the rest.
LEMMA Frame ==
  ASSUME Inv, NEW h \in Handlers, NEW r, NEW l,
         req' = [req EXCEPT ![h] = r], local' = [local EXCEPT ![h] = l],
         HandlerOK(r, l, store', files'), StoreOK(store', inserted', files'),
         files \subseteq files', clock' \in Nat /\ hour' \in Nat /\ day' \in Nat,
         \A g \in Handlers \ {h} : /\ Extends(local[g], store, store')
                                   /\ l.id = "none" \/ l.id # local[g].id
  PROVE  Inv'
<1>1. r \in Requests(Names, Items) /\ l \in Locals
  BY DEF HandlerOK
<1>2. req' \in [Handlers -> Requests(Names, Items)] /\ local' \in [Handlers -> Locals]
  BY <1>1 DEF Inv
<1>3. /\ req'[h] = r /\ local'[h] = l
      /\ \A g \in Handlers \ {h} : req'[g] = req[g] /\ local'[g] = local[g]
  BY DEF Inv
<1>4. ASSUME NEW g \in Handlers PROVE HandlerOK(req'[g], local'[g], store', files')
  <2>1. CASE g = h
    BY <1>3, <2>1
  <2>2. CASE g # h
    <3>1. HandlerOK(req[g], local[g], store, files)
      BY DEF Inv
    <3>2. HandlerOK(req[g], local[g], store', files')
      BY <2>2, <3>1, Monotone
    <3> QED BY <1>3, <2>2, <3>2
  <2> QED BY <2>1, <2>2
<1>5. Unique(local')
  BY <1>3 DEF Inv, Unique
<1> QED BY <1>2, <1>4, <1>5 DEF Inv

\* The local variables of a handler at its start.
LEMMA NoLocalsOK == NoLocals \in Locals /\ NoLocals.id = "none"
BY DEF NoLocals, NoSignals, Locals

\* An idle handler satisfies its part of the invariant.
LEMMA IdleOK ==
  ASSUME NEW l \in Locals, NEW st, NEW fs
  PROVE  HandlerOK(Idle, l, st, fs)
<1>1. Idle \in Requests(Names, Items) /\ Idle.pc = "idle" /\ Idle.session.objs = <<>>
  BY IdleType, NamesBasic
<1>2. Placed(Idle) /\ Before(Idle, l, st, fs) /\ Reported(Idle) /\ Consistent(Idle)
  BY <1>1 DEF Placed, Before, Reported, Consistent, Middle
<1> QED BY <1>1, <1>2 DEF HandlerOK

\* What the invariant says of the database and of a handler.
LEMMA StoreFacts ==
  ASSUME Inv
  PROVE  /\ StoreOK(store, inserted, files) /\ Types(store)
         /\ \A u \in Uploads : store[u] # Absent => store[u] \in Documents /\ u \in files
         /\ \A m \in Matches : store[m] # Absent => store[m] \in MatchRecords
         /\ \A s \in Scores : store[s] # Absent => store[s] \in ScoreRecords
         /\ \A h \in Handlers : HandlerOK(req[h], local[h], store, files)
         /\ req \in [Handlers -> Requests(Names, Items)] /\ local \in [Handlers -> Locals]
BY DEF Inv, StoreOK, Types

\* A record that exists may be held in a session.
LEMMA StoredIsItem ==
  ASSUME Inv, NEW d \in Ids, store[d] # Absent
  PROVE  /\ [id |-> d, val |-> store[d]] \in Items
         /\ \A l : HeldOK([id |-> d, val |-> store[d]], l, store, files)
<1>1. [id |-> d, val |-> store[d]] \in Items
  BY StoreFacts DEF Items, Ids
<1>2. ASSUME NEW l PROVE HeldOK([id |-> d, val |-> store[d]], l, store, files)
  BY StoreFacts DEF HeldOK, Same, StoreOK
<1> QED BY <1>1, <1>2

\* A handler that holds what it has read and creates a record that is new, and
\* reports it as it is.
Concluding(r, l, st, fs, record, event) ==
  /\ r \in Requests(Names, Items) /\ r.pc # "flush" /\ r.session.pending = <<>>
  /\ l \in Locals /\ l.id \in Ids /\ st[l.id] = Absent
  /\ \A n \in DOMAIN r.session.objs : /\ r.session.objs[n].id \notin {"audit", l.id}
                                      /\ HeldOK(r.session.objs[n], l, st, fs)
  /\ [id |-> l.id, val |-> record] \in Items
  /\ HeldOK([id |-> l.id, val |-> record], l, st, fs)
  /\ <<r.op, l.id, event>> \in Events /\ event = Outcome(r.op, record)

\* Its record joins the session and will be stored before the event.
LEMMA ConcludeOK ==
  ASSUME NEW r, NEW l, NEW st, NEW fs, NEW record, NEW event, Concluding(r, l, st, fs, record, event)
  PROVE  HandlerOK(Conclude(r, l.id, record, event), l, st, fs)
<1> DEFINE id == l.id
           e == <<r.op, id, event>>
           o == [id |-> id, val |-> record]
           a == AuditItem(e)
           s == AddNew(r.session, id, record)
           q == [r EXCEPT !.session = s]
           f == LogEvent(q, e, "idle")
           m == Len(r.session.objs)
           X == r.session.objs
           none == <<>>
<1>1. /\ r \in Shape(Names, Items) /\ Sound(r) /\ r.session \in Sessions(Items) /\ X \in Seq(Items)
      /\ r.session.pending = none /\ m \in Nat
  BY DEF Concluding, Requests, Shape, Sessions
<1>2. o \in Items /\ e \in Events /\ a \in Items /\ a.id = "audit" /\ a.val = e /\ o.id = id
      /\ id # "audit" /\ id \in Ids
  BY RecordsAssumption DEF Concluding, Items, AuditItem, Ids
<1>3. /\ s \in Sessions(Items) /\ s.objs = Append(X, o) /\ s.pending = Append(none, m + 1)
  <2> DEFINE t == r.session
  <2>1. t \in Sessions(Items) /\ [id |-> id, val |-> record] \in Items /\ t.pending = none
    BY <1>1, <1>2
  <2> HIDE DEF t, id, none
  <2>2. /\ AddNew(t, id, record) \in Sessions(Items)
        /\ AddNew(t, id, record).objs = Append(t.objs, [id |-> id, val |-> record])
        /\ AddNew(t, id, record).pending = Append(t.pending, Len(t.objs) + 1)
    BY <2>1, AddNewType
  <2> QED BY <2>1, <2>2 DEF t
<1>4. Conclude(r, id, record, event) = f
  BY DEF Conclude
<1> HIDE DEF s, o, none
<1>5. /\ q \in Shape(Names, Items) /\ q.session = s /\ q.op = r.op /\ q.pc = r.pc
      /\ q.writing = r.writing
  BY <1>1, <1>3 DEF Shape
<1> HIDE DEF q
<1>6. Append(X, o) \in Seq(Items) /\ DOMAIN X \subseteq DOMAIN Append(X, o)
  <2> HIDE DEF X
  <2> QED BY <1>1, <1>2
<1>7. q \in Requests(Names, Items)
  BY <1>1, <1>3, <1>5, <1>6 DEF Requests, Sound, Concluding
<1>8. Recording(Names, Items, q, e, "idle", f)
  BY <1>2, <1>7, LogEventType, NamesBasic DEF Basic
<1> HIDE DEF f, e, a
<1> DEFINE Y == Append(X, o)
           Z == Append(Y, a)
<1>9. /\ DOMAIN Z = DOMAIN X \cup {m + 1, m + 2} /\ Len(Y) = m + 1
      /\ \A n \in DOMAIN X : Z[n] = X[n] /\ n # m + 1 /\ n # m + 2
      /\ Z[m + 1] = o /\ Z[m + 2] = a
  <2>1. /\ Len(Y) = m + 1 /\ DOMAIN Y = DOMAIN X \cup {Len(Y)} /\ Y[Len(Y)] = o
        /\ \A n \in DOMAIN X : Y[n] = X[n]
    <3> HIDE DEF X
    <3> QED BY <1>1, <1>2, AppendFacts DEF X
  <2>2. Y \in Seq(Items)
    BY <1>6
  <2> HIDE DEF Y
  <2>3. /\ Len(Z) = Len(Y) + 1 /\ DOMAIN Z = DOMAIN Y \cup {Len(Z)} /\ Z[Len(Z)] = a
        /\ \A n \in DOMAIN Y : Z[n] = Y[n]
    BY <2>2, <1>2, AppendFacts
  <2>4. DOMAIN X = 1..m
    BY <1>1
  <2> HIDE DEF X, m, Z
  <2>5. m \in Nat
    BY <1>1
  <2> QED BY <2>1, <2>3, <2>4, <2>5
<1>10. /\ f \in Requests(Names, Items) /\ f.session.objs = Z /\ f.pc = "flush" /\ f.then = "idle"
       /\ StartsWith(f.writing, Append(Append(none, m + 1), m + 2))
  <2>1. q.session.objs = Y /\ q.session.pending = Append(none, m + 1)
    BY <1>3, <1>5
  <2>2. (m + 1) + 1 = m + 2
    BY <1>1
  <2> HIDE DEF Y
  <2> QED BY <1>8, <1>9, <2>1, <2>2 DEF Recording, a
<1>11. /\ f.writing[1] = m + 1 /\ f.writing[2] = m + 2 /\ {1, 2} \subseteq DOMAIN f.writing
  <2> DEFINE P == Append(Append(none, m + 1), m + 2)
  <2>1. P[1] = m + 1 /\ P[2] = m + 2 /\ {1, 2} \subseteq DOMAIN P
    <3> HIDE DEF m
    <3> QED BY <1>1 DEF none
  <2> HIDE DEF P
  <2> QED BY <1>10, <2>1 DEF StartsWith, P
<1> HIDE DEF X, Z, m
<1>12. \A n \in DOMAIN X : X[n].id \notin {"audit", id} /\ HeldOK(X[n], l, st, fs) /\ X[n] \in Items
  BY <1>1 DEF Concluding, X
<1>13. Placed(f) /\ Before(f, l, st, fs)
  BY <1>10 DEF Placed, Before, Middle
<1>14. \A n \in DOMAIN Z : HeldOK(Z[n], l, st, fs)
  <2>1. HeldOK(o, l, st, fs) /\ HeldOK(a, l, st, fs)
    BY <1>2 DEF Concluding, o, HeldOK
  <2> QED BY <1>9, <1>12, <2>1
<1>15. Reported(f)
  <2> SUFFICES ASSUME NEW n \in DOMAIN Z, Z[n].id = "audit"
               PROVE  \E k \in DOMAIN Z : Z[k].id = Z[n].val[2] /\ Z[n].val[3] = Outcome(Z[n].val[1], Z[k].val)
    BY <1>10 DEF Reported
  <2>1. Z[n] = a
    BY <1>2, <1>9, <1>12
  <2>2. Z[n].val[1] = r.op /\ Z[n].val[2] = id /\ Z[n].val[3] = event
    BY <1>2, <2>1 DEF e
  <2>3. event = Outcome(r.op, record) /\ o.val = record
    BY DEF Concluding, o
  <2>4. m + 1 \in DOMAIN Z /\ Z[m + 1] = o
    BY <1>9
  <2> QED BY <1>2, <2>2, <2>3, <2>4
<1>16. Consistent(f)
  <2> SUFFICES ASSUME NEW j \in DOMAIN Z, NEW k \in DOMAIN Z, Z[j].id = Z[k].id, Z[j].id # "audit"
               PROVE  Same(Z[j].id, Z[j].val, Z[k].val)
    BY <1>10 DEF Consistent
  <2>1. CASE j \in DOMAIN X /\ k \in DOMAIN X
    <3>1. Z[j] = X[j] /\ Z[k] = X[k]
      BY <1>9, <2>1
    <3>2. st[X[j].id] # Absent
      BY <1>12, <2>1, <3>1 DEF HeldOK
    <3>3. Same(X[j].id, X[j].val, st[X[j].id]) /\ Same(X[k].id, X[k].val, st[X[k].id])
      BY <1>12, <2>1, <3>1, <3>2 DEF HeldOK
    <3> QED BY <3>1, <3>3 DEF Same
  <2>2. CASE j = m + 1 /\ k = m + 1
    BY <2>2 DEF Same
  <2> QED BY <1>2, <1>9, <1>12, <2>1, <2>2
<1>17. Ordered(f, st)
  <2> SUFFICES ASSUME NEW i \in DOMAIN f.writing, Z[f.writing[i]].id = "audit"
               PROVE  \E j \in DOMAIN f.writing : j < i /\ Z[f.writing[j]].id = Z[f.writing[i]].val[2]
    BY <1>10 DEF Ordered
  <2>1. f.writing[i] \in DOMAIN Z /\ f.writing \in Seq(Nat)
    BY <1>10 DEF Requests, Sound, Shape
  <2>2. f.writing[i] = m + 2
    BY <1>2, <1>9, <1>12, <2>1
  <2>3. i # 1
    <3>1. m + 1 # m + 2
      BY <1>1 DEF m
    <3> QED BY <1>11, <2>2, <3>1
  <2>4. 1 < i
    BY <2>1, <2>3
  <2>5. Z[f.writing[1]].id = id /\ Z[f.writing[i]].val[2] = id
    BY <1>2, <1>9, <1>11, <2>2 DEF e
  <2> QED BY <1>11, <2>4, <2>5
<1> QED BY <1>4, <1>10, <1>13, <1>14, <1>15, <1>16, <1>17 DEF HandlerOK, Concluding

\* A query of a record that exists, in a new session.
LEMMA FirstFetch ==
  ASSUME Inv, NEW d \in Ids, store[d] # Absent, NEW s, s = Fetch(NoSession, d, store[d])
  PROVE  /\ s \in Sessions(Items) /\ s.pending = <<>>
         /\ Len(s.objs) = 1 /\ DOMAIN s.objs = {1} /\ s.objs[1].id = d /\ s.objs[1].val = store[d]
         /\ \A l : HeldOK(s.objs[1], l, store, files)
<1> DEFINE o == [id |-> d, val |-> store[d]]
           none == <<>>
<1>1. o \in Items /\ \A l : HeldOK(o, l, store, files)
  BY StoredIsItem
<1>2. NoSession \in Sessions(Items) /\ NoSession.objs = none /\ NoSession.pending = <<>>
  BY NoSessionType DEF NoSession
<1>3. s \in Sessions(Items) /\ s.objs = Append(none, o) /\ s.pending = <<>>
  BY <1>1, <1>2, FetchType
<1>4. o.id = d /\ o.val = store[d]
  OBVIOUS
<1> HIDE DEF o
<1>5. Len(s.objs) = 1 /\ DOMAIN s.objs = {1} /\ s.objs[1] = o
  BY <1>1, <1>3 DEF none
<1> QED BY <1>1, <1>3, <1>4, <1>5

\* The parts of the invariant that hold of a database that does not change.
LEMMA Stays ==
  ASSUME Inv, UNCHANGED <<store, inserted>>, files \subseteq files'
  PROVE  /\ StoreOK(store', inserted', files') /\ \A l : Extends(l, store, store')
         /\ \A o, l : HeldOK(o, l, store, files) => HeldOK(o, l, store', files')
BY DEF Inv, StoreOK, Extends, HeldOK

\* A handler takes a request.
LEMMA BeginOK ==
  ASSUME Inv, NEW h \in Handlers, NEW r, NEW l, Begin(h, r, l), UNCHANGED <<store, inserted>>,
         files \subseteq files', HandlerOK(r, l, store', files'),
         l.id = "none" \/ \A g \in Handlers : local[g].id # l.id
  PROVE  Inv'
<1>1. /\ req' = [req EXCEPT ![h] = r] /\ local' = [local EXCEPT ![h] = l]
      /\ clock' \in Nat /\ hour' \in Nat /\ day' \in Nat
  BY DEF Begin, time, Inv
<1>2. StoreOK(store', inserted', files') /\ \A k : Extends(k, store, store')
  BY Stays
<1> QED BY <1>1, <1>2, Frame

\* A record that is free: no handler creates it.
LEMMA FreeFacts ==
  ASSUME NEW id, Free(id)
  PROVE  store[id] = Absent /\ \A g \in Handlers : local[g].id # id
BY DEF Free, Stored

\* verify_document starts with nothing but the file.
LEMMA StoreFileOK ==
  ASSUME Inv, NEW h \in Handlers, StoreFile(h)
  PROVE  Inv'
<1> DEFINE r == Start("document", NoSession, "analyze")
<1>1. PICK u \in Uploads :
        /\ Free(u) /\ Begin(h, r, [NoLocals EXCEPT !.id = u])
        /\ files' = files \cup {u} /\ UNCHANGED <<store, inserted>>
  BY DEF StoreFile
<1> DEFINE l == [NoLocals EXCEPT !.id = u]
<1>2. l \in Locals /\ l.id = u
  BY NoLocalsOK DEF Locals, Ids
<1>3. /\ r \in Requests(Names, Items) /\ r.session = NoSession /\ r.pc = "analyze" /\ r.op = "document"
  BY StartType, NamesBasic, NoSessionType DEF Names, Middle
<1>4. r.session.objs = <<>> /\ r.session.pending = <<>>
  BY <1>3 DEF NoSession
<1>5. store'[u] = Absent /\ u \in files'
  BY <1>1, FreeFacts
<1> HIDE DEF l, r
<1>6. Placed(r) /\ Before(r, l, store', files') /\ Reported(r) /\ Consistent(r)
  BY <1>2, <1>3, <1>4, <1>5 DEF Placed, Before, Reported, Consistent, Middle, Scoring, Ids
<1>7. HandlerOK(r, l, store', files')
  BY <1>2, <1>3, <1>4, <1>6 DEF HandlerOK
<1> QED BY <1>1, <1>2, <1>7, BeginOK, FreeFacts DEF l

\* verify_face compares with a document that is stored.
LEMMA VerifyFaceOK ==
  ASSUME Inv, NEW h \in Handlers, VerifyFace(h)
  PROVE  Inv'
<1>1. PICK u \in StoredIn(Uploads), m \in Matches, found \in BOOLEAN, similarity \in Similarities :
        LET match == MatchOf(found, similarity)
            r == Start("face", Fetch(NoSession, u, store[u]), "log")
        IN  /\ Free(m)
            /\ Begin(h, Conclude(r, m, [similarity |-> match.similarity, passed |-> match.passed,
                                        live |-> FALSE], match.passed),
                     [NoLocals EXCEPT !.id = m])
            /\ UNCHANGED database
  BY DEF VerifyFace
<1> DEFINE match == MatchOf(found, similarity)
           s == Fetch(NoSession, u, store[u])
           r == Start("face", s, "log")
           record == [similarity |-> match.similarity, passed |-> match.passed, live |-> FALSE]
           l == [NoLocals EXCEPT !.id = m]
           f == Conclude(r, m, record, match.passed)
<1>2. record \in MatchRecords /\ record.passed = match.passed /\ match.passed \in BOOLEAN
  <2>1. similarity \in 0..100
    BY MeasurementsAssumption
  <2>2. /\ match.similarity = IF found THEN similarity ELSE 0
        /\ match.passed = (found /\ match.similarity >= FaceMatchThreshold)
    BY DEF MatchOf
  <2> HIDE DEF match
  <2> QED BY <2>1, <2>2 DEF MatchRecords
<1>3. Free(m) /\ Begin(h, f, l) /\ UNCHANGED <<store, inserted, files>>
  BY <1>1 DEF database
<1>4. u \in Ids /\ store[u] # Absent
  BY DEF StoredIn, Stored, Ids
<1>5. /\ s \in Sessions(Items) /\ s.pending = <<>> /\ DOMAIN s.objs = {1}
      /\ s.objs[1].id = u /\ \A k : HeldOK(s.objs[1], k, store, files)
  <2> HIDE DEF r, l, f, record, match
  <2> QED BY <1>4, FirstFetch
<1> HIDE DEF s, record, match, f, l
<1>6. l \in Locals /\ l.id = m
  BY NoLocalsOK DEF l, Locals, Ids
<1>7. r \in Requests(Names, Items) /\ r.session = s /\ r.pc = "log" /\ r.op = "face"
  <2>1. "face" \in Names /\ "log" \in Names /\ "log" # "flush"
    BY DEF Names
  <2> QED BY <1>5, <2>1, StartType, NamesBasic
<1> HIDE DEF r
<1>8. store[m] = Absent
  BY <1>3, FreeFacts
<1>9. u # m /\ u # "audit" /\ m # "audit" /\ m \notin Uploads /\ m \notin Scores /\ m \in Ids
  BY RecordsAssumption DEF StoredIn, Ids
<1>10. Concluding(r, l, store, files, record, match.passed)
  <2>1. [id |-> m, val |-> record] \in Items
    BY <1>2 DEF Items
  <2>2. HeldOK([id |-> m, val |-> record], l, store, files)
    BY <1>6, <1>8, <1>9 DEF HeldOK
  <2>3. <<"face", m, match.passed>> \in Events /\ match.passed = Outcome("face", record)
    BY <1>2 DEF Events, Outcome
  <2>4. r.session.pending = <<>> /\ r.pc # "flush"
    BY <1>5, <1>7
  <2>5. \A n \in DOMAIN r.session.objs : /\ r.session.objs[n].id \notin {"audit", l.id}
                                         /\ HeldOK(r.session.objs[n], l, store, files)
    BY <1>5, <1>6, <1>7, <1>9
  <2> QED BY <1>6, <1>7, <1>8, <1>9, <2>1, <2>2, <2>3, <2>4, <2>5 DEF Concluding
<1>11. HandlerOK(f, l, store, files)
  BY <1>6, <1>10, ConcludeOK DEF f
<1>12. HandlerOK(f, l, store', files') /\ files \subseteq files' /\ UNCHANGED <<store, inserted>>
  BY <1>3, <1>11
<1>13. l.id = "none" \/ \A g \in Handlers : local[g].id # l.id
  BY <1>3, <1>6, FreeFacts
<1> QED BY <1>3, <1>12, <1>13, BeginOK

\* fraud_score reads the document first.
LEMMA ReadDocumentOK ==
  ASSUME Inv, NEW h \in Handlers, ReadDocument(h)
  PROVE  Inv'
<1>1. PICK u \in StoredIn(Uploads), m \in Matches, c \in Scores :
        /\ Free(c)
        /\ Begin(h, Start("score", Fetch(NoSession, u, store[u]), "match"),
                 [NoLocals EXCEPT !.id = c, !.document = u, !.match = m])
        /\ UNCHANGED database
  BY DEF ReadDocument
<1> DEFINE s == Fetch(NoSession, u, store[u])
           r == Start("score", s, "match")
           l == [NoLocals EXCEPT !.id = c, !.document = u, !.match = m]
<1>2. Free(c) /\ Begin(h, r, l) /\ UNCHANGED <<store, inserted, files>>
  BY <1>1 DEF database
<1>3. u \in Ids /\ u \in Uploads /\ store[u] # Absent
  BY DEF StoredIn, Stored, Ids
<1>4. /\ s \in Sessions(Items) /\ s.pending = <<>> /\ DOMAIN s.objs = {1} /\ Len(s.objs) = 1
      /\ s.objs[1].id = u /\ \A k : HeldOK(s.objs[1], k, store, files)
  <2> HIDE DEF r, l
  <2> QED BY <1>3, FirstFetch
<1> HIDE DEF s
<1>5. l \in Locals /\ l.id = c /\ l.document = u /\ l.match = m
  BY NoLocalsOK, <1>3 DEF NoLocals, Locals, Ids
<1>6. r \in Requests(Names, Items) /\ r.session = s /\ r.pc = "match" /\ r.op = "score"
  <2>1. "score" \in Names /\ "match" \in Names /\ "match" # "flush"
    BY DEF Names, Middle
  <2>2. s \in Sessions(Items)
    BY <1>4
  <2> HIDE DEF l
  <2> QED BY <2>1, <2>2, StartType, NamesBasic
<1> HIDE DEF r, l
<1>7. store[c] = Absent
  BY <1>2, FreeFacts
<1>8. u # c /\ u # "audit" /\ c \in Ids
  BY <1>3, RecordsAssumption DEF Ids
<1>9. Placed(r) /\ Reported(r)
  BY <1>3, <1>4, <1>6, <1>8 DEF Placed, Reported, Middle
<1>10. Consistent(r)
  BY <1>4, <1>6 DEF Consistent, Same
<1>11. Before(r, l, store, files)
  <2>1. r.pc # "analyze" /\ r.pc \notin Scoring \ {"match"}
    BY <1>6
  <2>2. \A n \in DOMAIN r.session.objs : r.session.objs[n].id \notin {"audit", l.id}
    BY <1>4, <1>5, <1>6, <1>8
  <2>3. 1 \in DOMAIN r.session.objs /\ r.session.objs[1].id = l.document /\ Len(r.session.objs) = 1
        /\ r.session.pending = <<>>
    BY <1>4, <1>5, <1>6
  <2> QED BY <1>3, <1>5, <1>6, <1>7, <1>8, <2>1, <2>2, <2>3 DEF Before
<1>12. HandlerOK(r, l, store', files')
  BY <1>2, <1>4, <1>5, <1>6, <1>9, <1>10, <1>11 DEF HandlerOK
<1> QED BY <1>2, <1>5, <1>12, BeginOK, FreeFacts

\* liveness_check changes nothing of the match but its liveness.
LEMMA LivenessCheckOK ==
  ASSUME Inv, NEW h \in Handlers, LivenessCheck(h)
  PROVE  Inv'
<1>1. PICK m \in StoredIn(Matches), x \in Frames :
        /\ Begin(h, Flush(Start("liveness",
                            Assign(Fetch(NoSession, m, store[m]), 1,
                                   [store[m] EXCEPT !.live = LivenessPassed(x)]), "log"), "idle"),
                 [NoLocals EXCEPT !.match = m])
        /\ UNCHANGED database
  BY DEF LivenessCheck
<1> DEFINE new == [store[m] EXCEPT !.live = LivenessPassed(x)]
           o == [id |-> m, val |-> new]
           s == Assign(Fetch(NoSession, m, store[m]), 1, new)
           r == Start("liveness", s, "log")
           f == Flush(r, "idle")
           l == [NoLocals EXCEPT !.match = m]
<1>2. Begin(h, f, l) /\ UNCHANGED <<store, inserted, files>>
  BY <1>1 DEF database
<1>3. m \in Matches /\ m \in Ids /\ store[m] # Absent /\ m \notin Uploads /\ m \notin Scores /\ m # "audit"
  BY RecordsAssumption DEF StoredIn, Stored, Ids
<1>4. /\ new \in MatchRecords
      /\ new.similarity = store[m].similarity /\ new.passed = store[m].passed
  <2> DEFINE v == store[m]
             b == LivenessPassed(x)
  <2>1. v \in MatchRecords
    BY <1>3, StoreFacts
  <2>2. b \in BOOLEAN
    BY DEF LivenessPassed
  <2> HIDE DEF v, b
  <2>3. [v EXCEPT !.live = b] \in MatchRecords
        /\ [v EXCEPT !.live = b].similarity = v.similarity /\ [v EXCEPT !.live = b].passed = v.passed
    BY <2>1, <2>2 DEF MatchRecords
  <2> QED BY <2>3 DEF v, b
<1> HIDE DEF new
<1>5. [id |-> m, val |-> store[m]] \in Items /\ o \in Items
  BY <1>3, <1>4, StoredIsItem DEF Items
<1>6. s \in Sessions(Items) /\ s.pending = <<>> /\ \A n \in DOMAIN s.objs : s.objs[n] = o
  BY <1>5, FirstObject
<1> HIDE DEF s
<1>7. HeldOK(o, l, store, files)
  BY <1>3, <1>4 DEF HeldOK, Same
<1>8. l \in Locals /\ l.id = "none"
  BY <1>3, NoLocalsOK DEF Locals, NoLocals
<1> HIDE DEF l, o
<1>9. r \in Requests(Names, Items) /\ r.session = s /\ r.op = "liveness" /\ r.pc = "log"
  <2>1. "liveness" \in Names /\ "log" \in Names /\ "log" # "flush"
    BY DEF Names
  <2>2. s \in Sessions(Items)
    BY <1>6
  <2> HIDE DEF f
  <2> QED BY <2>1, <2>2, StartType, NamesBasic
<1> HIDE DEF r
<1>10. /\ f \in Requests(Names, Items) /\ f.session = s
       /\ \/ f.pc = "idle"
          \/ f.pc = "flush" /\ f.then = "idle"
  BY <1>9, FlushType, NamesBasic DEF Basic
<1> HIDE DEF f
<1>11. o.id = m
  BY DEF o
<1>12. Placed(f) /\ Before(f, l, store, files) /\ Reported(f) /\ Consistent(f)
  BY <1>3, <1>6, <1>10, <1>11 DEF Placed, Before, Reported, Consistent, Middle, Same
<1>13. f.pc = "flush" => Ordered(f, store)
  <2>1. \A i \in DOMAIN f.writing : f.session.objs[f.writing[i]] = o
    BY <1>6, <1>10 DEF Requests, Sound
  <2> QED BY <1>3, <1>11, <2>1 DEF Ordered
<1>14. HandlerOK(f, l, store, files)
  BY <1>6, <1>7, <1>8, <1>10, <1>12, <1>13 DEF HandlerOK
<1>15. HandlerOK(f, l, store', files') /\ files \subseteq files'
  BY <1>2, <1>14
<1> QED BY <1>2, <1>8, <1>15, BeginOK

\* A handler that reads, or computes: the database stays, and so does the name of
\* what it creates.
LEMMA StepOK ==
  ASSUME Inv, NEW h \in Handlers, NEW r, NEW l,
         req' = [req EXCEPT ![h] = r], local' = [local EXCEPT ![h] = l],
         UNCHANGED <<store, inserted, files>>, clock' \in Nat /\ hour' \in Nat /\ day' \in Nat,
         HandlerOK(r, l, store, files), l.id = local[h].id
  PROVE  Inv'
<1>1. StoreOK(store', inserted', files') /\ (\A k : Extends(k, store, store')) /\ files \subseteq files'
  BY Stays
<1>2. HandlerOK(r, l, store', files')
  OBVIOUS
<1>3. \A g \in Handlers \ {h} : l.id = "none" \/ l.id # local[g].id
  BY DEF Inv, Unique
<1> QED BY <1>1, <1>2, <1>3, Frame

\* A handler that counts keeps its session.
LEMMA MoveOn ==
  ASSUME NEW r, NEW l, NEW st, NEW fs, HandlerOK(r, l, st, fs), r.pc \in Scoring \ {"match"},
         NEW pc \in Scoring \ {"match"}, NEW q, q = [r EXCEPT !.pc = pc],
         NEW k \in Locals, k.id = l.id, k.document = l.document, k.match = l.match
  PROVE  HandlerOK(q, k, st, fs)
<1>1. r \in Requests(Names, Items) /\ Before(r, l, st, fs)
  BY DEF HandlerOK
<1>2. pc \in Names /\ pc \in Middle /\ pc \notin {"flush", "match", "analyze"}
  BY DEF Names, Middle, Scoring
<1>3. q \in Shape(Names, Items) /\ q.pc = pc /\ q.session = r.session /\ q.op = r.op
      /\ q.writing = r.writing
  BY <1>1, <1>2 DEF Requests, Shape
<1>4. q \in Requests(Names, Items)
  BY <1>1, <1>2, <1>3 DEF Requests, Sound
<1>5. Placed(q) /\ Reported(q) /\ Consistent(q)
  BY <1>2, <1>3 DEF HandlerOK, Placed, Reported, Consistent
<1>6. Before(q, k, st, fs)
  BY <1>1, <1>2, <1>3 DEF Before, Scoring
<1>7. \A n \in DOMAIN q.session.objs : HeldOK(q.session.objs[n], k, st, fs)
  BY <1>3 DEF HandlerOK, HeldOK
<1> QED BY <1>2, <1>3, <1>4, <1>5, <1>6, <1>7 DEF HandlerOK

\* fraud_score reads a match next, and holds it as its second object.
LEMMA ReadMatchOK ==
  ASSUME Inv, NEW h \in Handlers, ReadMatch(h)
  PROVE  Inv'
<1> DEFINE r == req[h]
           m == local[h].match
           t == r.session
           o == [id |-> m, val |-> store[m]]
           s == Fetch(t, m, store[m])
           q == [r EXCEPT !.session = s, !.pc = "hour"]
           l == [local[h] EXCEPT !.signals = NoSignals]
           X == t.objs
<1>1. /\ HandlerOK(r, local[h], store, files) /\ r \in Requests(Names, Items) /\ local[h] \in Locals
      /\ Before(r, local[h], store, files) /\ r.pc = "match" /\ store[m] # Absent
  BY StoreFacts DEF ReadMatch, Stored, HandlerOK
<1>2. /\ r.op = "score" /\ local[h].id \in Scores /\ store[local[h].id] = Absent
      /\ local[h].document \in Uploads /\ store[local[h].document] # Absent /\ m \in Matches
      /\ 1 \in DOMAIN X /\ X[1].id = local[h].document /\ Len(X) = 1 /\ t.pending = <<>>
      /\ \A n \in DOMAIN X : X[n].id \notin {"audit", local[h].id}
  BY <1>1 DEF Before, Middle, Scoring
<1>3. req' = [req EXCEPT ![h] = q] /\ local' = [local EXCEPT ![h] = l]
  BY StoreFacts DEF ReadMatch, Proceed
<1>4. UNCHANGED <<store, inserted, files>> /\ clock' \in Nat /\ hour' \in Nat /\ day' \in Nat
  BY DEF ReadMatch, Proceed, database, time, Inv
<1>5. l \in Locals /\ l.id = local[h].id /\ l.document = local[h].document /\ l.match = m
  BY <1>1 DEF Locals, NoSignals
<1>6. m \in Ids /\ m # "audit" /\ m # local[h].id /\ m \notin Scores
  BY <1>2, RecordsAssumption DEF Ids
<1>7. o \in Items /\ \A k : HeldOK(o, k, store, files)
  BY <1>1, <1>6, StoredIsItem
<1>8. t \in Sessions(Items) /\ X \in Seq(Items) /\ r \in Shape(Names, Items) /\ Sound(r)
  BY <1>1 DEF Requests, Shape, Sessions
<1>9. s \in Sessions(Items) /\ s.objs = Append(X, o) /\ s.pending = <<>>
  <2> DEFINE v == store[m]
  <2>1. [id |-> m, val |-> v] \in Items /\ t \in Sessions(Items)
    BY <1>7, <1>8
  <2> HIDE DEF v, t, m, q, l
  <2>2. /\ Fetch(t, m, v) \in Sessions(Items)
        /\ Fetch(t, m, v).objs = Append(t.objs, [id |-> m, val |-> v])
        /\ Fetch(t, m, v).pending = t.pending
    BY <2>1, FetchType
  <2> QED BY <1>2, <2>2 DEF v
<1> HIDE DEF s, o
<1>10. o.id = m
  BY DEF o
<1>11. /\ DOMAIN s.objs = {1, 2} /\ s.objs[1] = X[1] /\ s.objs[2] = o
  <2> DEFINE Y == s.objs
  <2>1. X \in Seq(Items) /\ o \in Items /\ Y = Append(X, o)
    BY <1>7, <1>8, <1>9
  <2>2. Len(X) = 1
    BY <1>2
  <2> HIDE DEF X, Y, q, l
  <2>3. Len(Y) = Len(X) + 1 /\ DOMAIN Y = DOMAIN X \cup {Len(Y)} /\ Y[Len(Y)] = o
        /\ \A n \in DOMAIN X : Y[n] = X[n]
    BY <2>1, AppendFacts
  <2>4. DOMAIN X = {1}
    BY <2>1, <2>2
  <2> QED BY <2>2, <2>3, <2>4 DEF Y
<1>12. q \in Shape(Names, Items) /\ q.session = s /\ q.pc = "hour" /\ q.op = "score" /\ q.writing = r.writing
  <2>1. "hour" \in Names
    BY DEF Names, Middle
  <2> QED BY <1>2, <1>8, <1>9, <2>1 DEF Shape
<1> HIDE DEF q, l
<1>13. q \in Requests(Names, Items)
  <2>1. DOMAIN X \subseteq DOMAIN s.objs
    <3> HIDE DEF X
    <3> QED BY <1>2, <1>8, <1>11
  <2> QED BY <1>8, <1>12, <2>1 DEF Requests, Sound
<1>14. \A n \in DOMAIN s.objs : s.objs[n].id # "audit" /\ HeldOK(s.objs[n], l, store, files)
  <2>1. HeldOK(X[1], local[h], store, files)
    BY <1>1, <1>2 DEF HandlerOK
  <2>2. HeldOK(X[1], l, store, files)
    BY <1>5, <2>1 DEF HeldOK
  <2> QED BY <1>2, <1>6, <1>7, <1>10, <1>11, <2>2
<1>15. Placed(q) /\ Reported(q)
  BY <1>12, <1>14 DEF Placed, Reported, Middle
<1>16. Consistent(q)
  <2>1. X[1].id # m
    BY <1>2, RecordsAssumption
  <2> QED BY <1>10, <1>11, <1>12, <2>1 DEF Consistent, Same
<1>17. Before(q, l, store, files)
  <2>1. \A n \in DOMAIN s.objs : s.objs[n].id \notin {"audit", l.id}
    BY <1>2, <1>5, <1>6, <1>10, <1>11, <1>14
  <2>2. l.id \in Ids
    BY <1>2, <1>5 DEF Ids
  <2> QED BY <1>1, <1>2, <1>5, <1>9, <1>10, <1>11, <1>12, <2>1, <2>2 DEF Before
<1>18. HandlerOK(q, l, store, files)
  BY <1>5, <1>12, <1>13, <1>14, <1>15, <1>16, <1>17 DEF HandlerOK
<1> QED BY <1>3, <1>4, <1>5, <1>18, StepOK

\* The scores of the user are finitely many.
LEMMA AssessmentsFinite == IsFiniteSet(Assessments)
<1>1. IsFiniteSet(StoredIn(Scores))
  BY FS_Subset, RecordsAssumption DEF StoredIn
<1> DEFINE f == [s \in StoredIn(Scores) |-> store[s]]
<1>2. f \in Surjection(StoredIn(Scores), Assessments)
  BY DEF Surjection, Assessments
<1> HIDE DEF f
<1> QED BY <1>1, <1>2, FS_Surjection

\* So the signals are numbers.
LEMMA SignalsAreNumbers ==
  /\ \A date : CreatedAfter(Assessments, date) \in Nat
  /\ Failures(Assessments) \in Nat
BY AssessmentsFinite, FS_Subset, FS_CardinalityType DEF CreatedAfter, Failures

\* A step that counts.
LEMMA CountOK ==
  ASSUME Inv, NEW h \in Handlers, req[h].pc \in Scoring \ {"match"}, NEW pc \in Scoring \ {"match"},
         NEW l \in Locals, l.id = local[h].id, l.document = local[h].document, l.match = local[h].match,
         req' = [req EXCEPT ![h] = [req[h] EXCEPT !.pc = pc]], local' = [local EXCEPT ![h] = l],
         UNCHANGED <<database, time>>
  PROVE  Inv'
<1> DEFINE q == [req[h] EXCEPT !.pc = pc]
<1>1. HandlerOK(q, l, store, files)
  BY StoreFacts, MoveOn
<1>2. UNCHANGED <<store, inserted, files>> /\ clock' \in Nat /\ hour' \in Nat /\ day' \in Nat
  BY DEF database, time, Inv
<1> HIDE DEF q
<1>3. req' = [req EXCEPT ![h] = q]
  BY DEF q
<1> QED BY <1>1, <1>2, <1>3, StepOK

\* The scores of the last hour are counted.
LEMMA CountHourOK ==
  ASSUME Inv, NEW h \in Handlers, CountHour(h)
  PROVE  Inv'
<1> DEFINE n == CreatedAfter(Assessments, hour)
           l == [local[h] EXCEPT !.signals.attempts = n, !.day = day]
<1>1. local[h] \in Locals /\ n \in Nat /\ day \in Nat
  BY StoreFacts, SignalsAreNumbers DEF Inv
<1>2. /\ req' = [req EXCEPT ![h] = [req[h] EXCEPT !.pc = "day"]] /\ local' = [local EXCEPT ![h] = l]
      /\ req[h].pc \in Scoring \ {"match"} /\ "day" \in Scoring \ {"match"}
      /\ UNCHANGED <<database, time>>
  BY StoreFacts DEF CountHour, Scoring, Middle
<1> HIDE DEF n
<1>3. l \in Locals /\ l.id = local[h].id /\ l.document = local[h].document /\ l.match = local[h].match
  BY <1>1 DEF Locals
<1> HIDE DEF l
<1> QED BY <1>2, <1>3, CountOK

\* The scores of the last day are counted next,
LEMMA CountDayOK ==
  ASSUME Inv, NEW h \in Handlers, CountDay(h)
  PROVE  Inv'
<1> DEFINE n == CreatedAfter(Assessments, local[h].day)
           l == [local[h] EXCEPT !.signals = [local[h].signals EXCEPT !.addresses = n]]
<1>1. local[h] \in Locals /\ n \in Nat
  BY StoreFacts, SignalsAreNumbers DEF Inv
<1>2. /\ req' = [req EXCEPT ![h].session = req[h].session, ![h].pc = "recent"]
      /\ local' = [local EXCEPT ![h] = l]
      /\ req[h].pc \in Scoring \ {"match"} /\ "recent" \in Scoring \ {"match"}
      /\ UNCHANGED <<database, time>>
  BY StoreFacts DEF CountDay, Proceed, Scoring, Middle
<1> HIDE DEF n
<1>3. l \in Locals /\ l.id = local[h].id /\ l.document = local[h].document /\ l.match = local[h].match
  BY <1>1 DEF Locals
<1>4. req' = [req EXCEPT ![h] = [req[h] EXCEPT !.pc = "recent"]]
  <2> DEFINE R == Requests(Names, Items)
  <2>1. req \in [Handlers -> R] /\ req[h] \in Shape(Names, Items)
    BY StoreFacts DEF Requests
  <2> HIDE DEF l
  <2> QED BY <1>2, <2>1 DEF Shape
<1> HIDE DEF l
<1> QED BY <1>2, <1>3, <1>4, CountOK

\* and the latest rejections.
LEMMA CountFailuresOK ==
  ASSUME Inv, NEW h \in Handlers, CountFailures(h)
  PROVE  Inv'
<1> DEFINE n == Failures(Assessments)
           l == [local[h] EXCEPT !.signals = [local[h].signals EXCEPT !.failures = n]]
<1>1. local[h] \in Locals /\ n \in Nat
  BY StoreFacts, SignalsAreNumbers DEF Inv
<1>2. /\ req' = [req EXCEPT ![h].session = req[h].session, ![h].pc = "assess"]
      /\ local' = [local EXCEPT ![h] = l]
      /\ req[h].pc \in Scoring \ {"match"} /\ "assess" \in Scoring \ {"match"}
      /\ UNCHANGED <<database, time>>
  BY StoreFacts DEF CountFailures, Proceed, Scoring, Middle
<1> HIDE DEF n
<1>3. l \in Locals /\ l.id = local[h].id /\ l.document = local[h].document /\ l.match = local[h].match
  BY <1>1 DEF Locals
<1>4. req' = [req EXCEPT ![h] = [req[h] EXCEPT !.pc = "assess"]]
  <2> DEFINE R == Requests(Names, Items)
  <2>1. req \in [Handlers -> R] /\ req[h] \in Shape(Names, Items)
    BY StoreFacts DEF Requests
  <2> HIDE DEF l
  <2> QED BY <1>2, <2>1 DEF Shape
<1> HIDE DEF l
<1> QED BY <1>2, <1>3, <1>4, CountOK

\* A handler that creates its record, the rest staying as it is.
LEMMA FinishOK ==
  ASSUME Inv, NEW h \in Handlers, NEW record, NEW event,
         Concluding(req[h], local[h], store, files, record, event),
         req' = [req EXCEPT ![h] = Conclude(req[h], local[h].id, record, event)],
         UNCHANGED <<local, store, inserted, files>>, clock' \in Nat /\ hour' \in Nat /\ day' \in Nat
  PROVE  Inv'
<1> DEFINE q == Conclude(req[h], local[h].id, record, event)
           l == local[h]
<1>1. HandlerOK(q, l, store, files)
  BY ConcludeOK
<1>2. local' = [local EXCEPT ![h] = l]
  <2>1. local \in [Handlers -> Locals]
    BY StoreFacts
  <2> QED BY <2>1
<1> HIDE DEF q
<1>3. req' = [req EXCEPT ![h] = q]
  BY DEF q
<1> QED BY <1>1, <1>2, <1>3, StepOK

\* verify_document reports the document it has analysed.
LEMMA AnalyzeDocumentOK ==
  ASSUME Inv, NEW h \in Handlers, AnalyzeDocument(h)
  PROVE  Inv'
<1> DEFINE r == req[h]
           l == local[h]
<1>1. PICK d \in Documents : req' = [req EXCEPT ![h] = Conclude(r, l.id, d, TamperRisk(d))]
  BY DEF AnalyzeDocument
<1>2. /\ HandlerOK(r, l, store, files) /\ r \in Requests(Names, Items) /\ l \in Locals
      /\ Before(r, l, store, files) /\ r.pc = "analyze"
  BY StoreFacts DEF AnalyzeDocument, HandlerOK
<1>3. /\ l.id \in Uploads /\ l.id \in Ids /\ l.id \in files /\ store[l.id] = Absent /\ r.op = "document"
      /\ \A n \in DOMAIN r.session.objs : r.session.objs[n].id \notin {"audit", l.id}
      /\ r.session.pending = <<>>
  BY <1>2 DEF Before, Middle
<1>4. UNCHANGED <<local, store, inserted, files>> /\ clock' \in Nat /\ hour' \in Nat /\ day' \in Nat
  BY DEF AnalyzeDocument, database, time, Inv
<1> HIDE DEF r, l
<1>5. l.id \notin Scores /\ l.id \notin Matches
  BY <1>3, RecordsAssumption
<1>6. Concluding(r, l, store, files, d, TamperRisk(d))
  <2>1. [id |-> l.id, val |-> d] \in Items
    BY <1>3 DEF Items
  <2>2. HeldOK([id |-> l.id, val |-> d], l, store, files)
    BY <1>3, <1>5 DEF HeldOK
  <2>3. TamperRisk(d) \in Int
    <3>1. d \in [noise : Nat, edge : Nat, copied : Nat] /\ One \in Int
      BY MeasurementsAssumption DEF One
    <3> QED BY <3>1, RiskCoversTamper
  <2>4. <<r.op, l.id, TamperRisk(d)>> \in Events /\ TamperRisk(d) = Outcome(r.op, d)
    BY <1>3, <2>3 DEF Events, Outcome
  <2>5. \A n \in DOMAIN r.session.objs : HeldOK(r.session.objs[n], l, store, files)
    BY <1>2 DEF HandlerOK
  <2> QED BY <1>2, <1>3, <2>1, <2>2, <2>4, <2>5 DEF Concluding
<1> QED BY <1>1, <1>4, <1>6, FinishOK DEF r, l

\* fraud_score reports the verdict on what it has read.
LEMMA AssessOK ==
  ASSUME Inv, NEW h \in Handlers, Assess(h)
  PROVE  Inv'
<1> DEFINE r == req[h]
           l == local[h]
           x == InputsOf(h)
           a == r.session.objs[1]
           b == r.session.objs[2]
<1>1. PICK address \in Addresses :
        req' = [req EXCEPT ![h] =
                  Conclude(r, l.id, [of |-> l.document, match |-> l.match, inputs |-> x,
                                     verdict |-> Verdict(x), at |-> Date, address |-> address],
                           Verdict(x))]
  BY DEF Assess
<1> DEFINE score == [of |-> l.document, match |-> l.match, inputs |-> x, verdict |-> Verdict(x),
                     at |-> Date, address |-> address]
<1>2. /\ HandlerOK(r, l, store, files) /\ r \in Requests(Names, Items) /\ l \in Locals
      /\ Before(r, l, store, files) /\ r.pc = "assess"
  BY StoreFacts DEF Assess, HandlerOK
<1>3. /\ l.id \in Scores /\ l.id \in Ids /\ store[l.id] = Absent /\ r.op = "score"
      /\ l.document \in Uploads /\ store[l.document] # Absent
      /\ l.match \in Matches /\ store[l.match] # Absent
      /\ 1 \in DOMAIN r.session.objs /\ a.id = l.document
      /\ 2 \in DOMAIN r.session.objs /\ b.id = l.match
      /\ \A n \in DOMAIN r.session.objs : r.session.objs[n].id \notin {"audit", l.id}
      /\ r.session.pending = <<>>
  BY <1>2 DEF Before, Middle, Scoring
<1>4. /\ UNCHANGED <<local, store, inserted, files>> /\ clock' \in Nat /\ hour' \in Nat /\ day' \in Nat
      /\ Date \in Nat
  BY DEF Assess, database, time, Inv, Date
<1>5. /\ x.document = DocumentRisk(a.val) /\ x.similarity = b.val.similarity
      /\ x.passed = b.val.passed /\ x.live = b.val.live
      /\ x = [document |-> x.document, similarity |-> x.similarity, passed |-> x.passed, live |-> x.live,
              attempts |-> l.signals.attempts, addresses |-> l.signals.addresses,
              failures |-> l.signals.failures]
  BY DEF InputsOf, ValOf, Live
<1>6. a \in Items /\ b \in Items /\ HeldOK(a, l, store, files)
  <2>1. r.session.objs \in Seq(Items)
    BY <1>2 DEF Requests, Shape, Sessions
  <2>2. \A n \in DOMAIN r.session.objs : r.session.objs[n] \in Items
    BY <2>1
  <2> QED BY <1>2, <1>3, <2>2 DEF HandlerOK
<1> HIDE DEF r, l, x, a, b
<1>7. a.val = store[l.document] /\ a.val \in Documents /\ b.val \in MatchRecords
  <2>1. a.id \notin Matches /\ a.id # "audit"
    BY <1>3, RecordsAssumption
  <2> QED BY <1>3, <1>6, <2>1, ItemFacts DEF HeldOK, Same
<1>8. x \in Inputs
  <2>1. x.document \in 0..One
    BY <1>5, <1>7, RiskCoversTamper, MeasurementsAssumption
  <2>2. /\ x.similarity \in 0..100 /\ x.passed \in BOOLEAN /\ x.live \in BOOLEAN
        /\ x.passed => x.similarity >= FaceMatchThreshold
    <3> DEFINE v == b.val
    <3>1. v \in MatchRecords /\ x.similarity = v.similarity /\ x.passed = v.passed /\ x.live = v.live
      BY <1>5, <1>7
    <3> HIDE DEF v, score
    <3>2. /\ v.similarity \in Similarities \cup {0} /\ v.passed \in BOOLEAN /\ v.live \in BOOLEAN
          /\ v.passed => v.similarity >= FaceMatchThreshold
      BY <3>1 DEF MatchRecords
    <3>3. v.similarity \in 0..100
      <4> DEFINE n == v.similarity
      <4>1. n \in Similarities \cup {0} /\ Similarities \subseteq 0..100
        BY <3>2, MeasurementsAssumption
      <4> HIDE DEF n
      <4>2. n \in 0..100
        BY <4>1
      <4> QED BY <4>2 DEF n
    <3> QED BY <3>1, <3>2, <3>3
  <2> DEFINE g == l.signals
             p == x.document
             s == x.similarity
             u == x.passed
             w == x.live
  <2>3. g \in [attempts : Nat, addresses : Nat, failures : Nat]
    BY <1>2 DEF Locals
  <2>4. x = [document |-> p, similarity |-> s, passed |-> u, live |-> w,
             attempts |-> g.attempts, addresses |-> g.addresses, failures |-> g.failures]
    BY <1>5
  <2>5. p \in 0..One /\ s \in 0..100 /\ u \in BOOLEAN /\ w \in BOOLEAN /\ (u => s >= FaceMatchThreshold)
    BY <2>1, <2>2
  <2> HIDE DEF g, p, s, u, w
  <2> QED BY <2>3, <2>4, <2>5 DEF Inputs
<1>9. score \in ScoreRecords /\ Founded(score, store)
  <2> DEFINE v == Verdict(x)
  <2>1. v \in Results
    BY DEF Verdict, Results
  <2>2. x.document = DocumentRisk(store[l.document])
    BY <1>5, <1>7
  <2> QED BY <1>3, <1>4, <1>8, <2>1, <2>2 DEF ScoreRecords, Founded
<1>10. score.verdict = Verdict(x)
  OBVIOUS
<1>13. req' = [req EXCEPT ![h] = Conclude(r, l.id, score, Verdict(x))]
  BY <1>1
<1> HIDE DEF score
<1>11. l.id \notin Uploads /\ l.id \notin Matches
  BY <1>3, RecordsAssumption
<1>12. Concluding(r, l, store, files, score, Verdict(x))
  <2>1. [id |-> l.id, val |-> score] \in Items
    BY <1>3, <1>9 DEF Items
  <2>2. HeldOK([id |-> l.id, val |-> score], l, store, files)
    BY <1>3, <1>9, <1>11 DEF HeldOK
  <2>3. <<r.op, l.id, Verdict(x)>> \in Events /\ Verdict(x) = Outcome(r.op, score)
    BY <1>3, <1>10 DEF Events, Outcome, Results, Verdict
  <2>4. \A n \in DOMAIN r.session.objs : HeldOK(r.session.objs[n], l, store, files)
    BY <1>2 DEF HandlerOK
  <2> QED BY <1>2, <1>3, <2>1, <2>2, <2>3, <2>4 DEF Concluding
<1> QED BY <1>4, <1>12, <1>13, FinishOK DEF r, l

\* The database after a write of object o, by a handler whose local variables are l.
Writing(o, l) ==
  /\ o \in Items /\ l \in Locals /\ HeldOK(o, l, store, files) /\ files' = files
  /\ IF o.id \in DOMAIN store
     THEN store' = [store EXCEPT ![o.id] = o.val] /\ UNCHANGED inserted
     ELSE inserted' = inserted \cup {<<o.id, o.val>>} /\ UNCHANGED store

\* It only disturbs a handler that creates the same record.
LEMMA WriteExtends ==
  ASSUME Inv, NEW o, NEW l, Writing(o, l)
  PROVE  /\ \A k : k.id = "none" \/ k.id # l.id => Extends(k, store, store')
         /\ \A d \in Ids : store[d] # Absent => store'[d] # Absent /\ Same(d, store[d], store'[d])
         /\ o.id \in Ids => store'[o.id] = o.val /\ o.val # Absent
         /\ \A d \in Ids : d # o.id => store'[d] = store[d]
<1>1. DOMAIN store = Ids /\ "none" \notin Ids /\ "audit" \notin Ids
  BY StoreFacts, RecordsAssumption DEF Types, Ids
<1>2. CASE o.id \in Ids
  <2>1. store' = [store EXCEPT ![o.id] = o.val] /\ o.id # "audit"
    BY <1>1, <1>2 DEF Writing
  <2>2. store'[o.id] = o.val /\ \A d \in Ids : d # o.id => store'[d] = store[d]
    BY <1>1, <1>2, <2>1
  <2>3. o.val # Absent
    BY <1>2, ItemFacts, AbsentIsNone DEF Writing, Ids
  <2>4. IF store[o.id] = Absent THEN o.id = l.id ELSE Same(o.id, o.val, store[o.id])
    BY <2>1 DEF Writing, HeldOK
  <2>5. store[o.id] # Absent => Same(o.id, store[o.id], store'[o.id])
    BY <2>2, <2>4 DEF Same
  <2>6. \A d \in Ids : store[d] # Absent => store'[d] # Absent /\ Same(d, store[d], store'[d])
    <3>1. \A d : Same(d, store[d], store[d])
      BY DEF Same
    <3> QED BY <1>2, <2>2, <2>3, <2>5, <3>1
  <2>7. ASSUME NEW k, k.id = "none" \/ k.id # l.id PROVE Extends(k, store, store')
    BY <1>1, <1>2, <2>2, <2>3, <2>4, <2>5, <2>7 DEF Extends
  <2> QED BY <2>2, <2>3, <2>6, <2>7
<1>3. CASE o.id \notin Ids
  <2>1. store' = store
    BY <1>1, <1>3 DEF Writing
  <2> QED BY <1>3, <2>1 DEF Extends, Same
<1> QED BY <1>2, <1>3

\* A record that is written is a version of the one stored, or one that is
\* founded; what the trail reports of it remains true.
LEMMA WriteRecordOK ==
  ASSUME Inv, NEW o, NEW l, Writing(o, l), o.id \in Ids
  PROVE  StoreOK(store', inserted', files')
<1>1. /\ DOMAIN store = Ids /\ "audit" \notin Ids /\ Types(store) /\ StoreOK(store, inserted, files)
  BY StoreFacts, RecordsAssumption DEF Types, Ids
<1>2. /\ store' = [store EXCEPT ![o.id] = o.val] /\ inserted' = inserted /\ files' = files
      /\ o.id # "audit"
  BY <1>1 DEF Writing
<1>3. /\ \A d \in Ids : store[d] # Absent => store'[d] # Absent /\ Same(d, store[d], store'[d])
      /\ store'[o.id] = o.val /\ \A d \in Ids : d # o.id => store'[d] = store[d]
      /\ \A k : k.id = "none" \/ k.id # l.id => Extends(k, store, store')
  BY WriteExtends
<1>4. o \in Items /\ HeldOK(o, l, store, files)
  BY DEF Writing
<1>5. Uploads \subseteq Ids /\ Matches \subseteq Ids /\ Scores \subseteq Ids
  BY DEF Ids
<1>6. Types(store')
  <2>1. DOMAIN store' = Ids
    BY <1>1, <1>2
  <2>2. /\ \A u \in Uploads : store'[u] \in Documents \cup {Absent}
        /\ \A m \in Matches : store'[m] \in MatchRecords \cup {Absent}
        /\ \A s \in Scores : store'[s] \in ScoreRecords \cup {Absent}
    BY <1>1, <1>3, <1>4, <1>5, ItemFacts DEF Types
  <2> QED BY <2>1, <2>2 DEF Types
<1>7. Told(inserted, store')
  <2> SUFFICES ASSUME NEW i \in inserted
               PROVE  /\ store'[i[2][2]] # Absent /\ i[2][3] = Outcome(i[2][1], store'[i[2][2]])
                      /\ i[1] = "audit" /\ i[2] \in Events /\ i = <<i[1], i[2]>>
    BY DEF Told
  <2>1. /\ i[1] = "audit" /\ i[2] \in Events /\ i = <<i[1], i[2]>> /\ i[2][2] \in Ids
        /\ store[i[2][2]] # Absent /\ i[2][3] = Outcome(i[2][1], store[i[2][2]])
    BY <1>1, EventFacts DEF StoreOK, Told
  <2>2. store'[i[2][2]] # Absent /\ Same(i[2][2], store[i[2][2]], store'[i[2][2]])
    BY <1>3, <2>1
  <2> QED BY <2>1, <2>2, SameOutcome
<1>8. ASSUME NEW s \in Scores, store'[s] # Absent PROVE Founded(store'[s], store')
  <2>1. Extends(NoLocals, store, store')
    BY <1>3, NoLocalsOK
  <2>2. CASE s = o.id
    <3>1. o.val \in ScoreRecords /\ Founded(o.val, store)
      BY <1>2, <1>4, <2>2, ItemFacts DEF HeldOK
    <3> QED BY <1>3, <2>1, <2>2, <3>1, FoundedStays
  <2>3. CASE s # o.id
    <3>1. store'[s] = store[s]
      BY <1>3, <1>5, <2>3
    <3>2. store[s] \in ScoreRecords /\ Founded(store[s], store)
      BY <1>1, <1>8, <3>1 DEF StoreOK, Types
    <3> QED BY <2>1, <3>1, <3>2, FoundedStays
  <2> QED BY <2>2, <2>3
<1>9. \A u \in Uploads : store'[u] # Absent => u \in files'
  BY <1>1, <1>2, <1>3, <1>4, <1>5 DEF HeldOK, StoreOK
<1> QED BY <1>2, <1>6, <1>7, <1>8, <1>9 DEF StoreOK

\* A write of one handler.
LEMMA WriteStore ==
  ASSUME Inv, NEW h \in Handlers, Write(h)
  PROVE  LET o == NextObject(req[h])
         IN  Writing(o, local[h]) /\ StoreOK(store', inserted', files')
<1> DEFINE r == req[h]
           l == local[h]
           o == NextObject(r)
           e == o.val
<1>1. /\ HandlerOK(r, l, store, files) /\ r.pc = "flush" /\ r \in Requests(Names, Items)
      /\ l \in Locals /\ Reported(r) /\ Ordered(r, store) /\ r.session.objs \in Seq(Items)
  BY StoreFacts DEF Write, HandlerOK, Requests, Shape, Sessions
<1>2. /\ r.writing[1] \in DOMAIN r.session.objs /\ o = r.session.objs[r.writing[1]] /\ o \in Items
      /\ 1 \in DOMAIN r.writing /\ r.writing \in Seq(Nat)
  <2>1. r.writing \in Seq(Nat)
    BY <1>1 DEF Requests, Shape
  <2> QED BY <1>1, <2>1, NextObjectType, NamesBasic
<1>3. Writing(o, l)
  <2>1. HeldOK(o, l, store, files)
    BY <1>1, <1>2 DEF HandlerOK
  <2> QED BY <1>1, <1>2, <2>1 DEF Write, Writing
<1>4. o.id \in Ids => StoreOK(store', inserted', files')
  BY <1>3, WriteRecordOK
<1>5. CASE o.id \notin Ids
  <2>1. o.id = "audit" /\ e \in Events /\ DOMAIN store = Ids
    BY <1>2, <1>5, ItemFacts, StoreFacts DEF Types
  <2>2. inserted' = inserted \cup {<<"audit", e>>} /\ store' = store /\ files' = files
    BY <1>3, <1>5, <2>1 DEF Writing
  <2>3. e[2] \in Ids /\ store[e[2]] # Absent
    <3>1. \A j \in DOMAIN r.writing : ~(j < 1)
      BY <1>2
    <3> QED BY <1>1, <1>2, <2>1, <3>1, EventFacts DEF Ordered
  <2>4. PICK m \in DOMAIN r.session.objs :
          r.session.objs[m].id = e[2] /\ e[3] = Outcome(e[1], r.session.objs[m].val)
    BY <1>1, <1>2, <2>1 DEF Reported
  <2> DEFINE v == r.session.objs[m].val
  <2>5. Same(e[2], v, store[e[2]])
    <3>1. HeldOK(r.session.objs[m], l, store, files)
      BY <1>1 DEF HandlerOK
    <3>2. e[2] # "audit"
      BY <2>3, RecordsAssumption DEF Ids
    <3> QED BY <2>3, <2>4, <3>1, <3>2 DEF HeldOK
  <2>6. e[3] = Outcome(e[1], store[e[2]])
    <3> HIDE DEF v, e
    <3> QED BY <2>1, <2>4, <2>5, SameOutcome DEF v
  <2>7. StoreOK(store, inserted, files)
    BY StoreFacts
  <2> DEFINE i == <<"audit", e>>
  <2>8. i[1] = "audit" /\ i[2] = e
    OBVIOUS
  <2> HIDE DEF i, e
  <2>9. Told(inserted', store')
    BY <2>1, <2>2, <2>3, <2>6, <2>7, <2>8 DEF StoreOK, Told, i
  <2>10. StoreOK(store', inserted', files')
    BY <2>2, <2>7, <2>9 DEF StoreOK
  <2> QED BY <1>3, <2>10
<1> QED BY <1>3, <1>4, <1>5

\* A write preserves the invariant.
LEMMA WriteOK ==
  ASSUME Inv, NEW h \in Handlers, Write(h)
  PROVE  Inv'
<1> DEFINE r == req[h]
           l == local[h]
           o == NextObject(r)
           f == AfterWrite(r)
<1>1. /\ HandlerOK(r, l, store, files) /\ r.pc = "flush" /\ r \in Requests(Names, Items)
      /\ l \in Locals /\ r.then = "idle" /\ Reported(r) /\ Consistent(r) /\ Ordered(r, store)
  BY StoreFacts DEF Write, HandlerOK, Placed
<1>2. Writing(o, l) /\ StoreOK(store', inserted', files')
  BY WriteStore
<1>3. /\ files' = files /\ clock' \in Nat /\ hour' \in Nat /\ day' \in Nat
  BY DEF Write, time, Inv
<1>4. /\ \A d \in Ids : store[d] # Absent => store'[d] # Absent /\ Same(d, store[d], store'[d])
      /\ \A k : k.id = "none" \/ k.id # l.id => Extends(k, store, store')
      /\ o.id \in Ids => store'[o.id] = o.val /\ o.val # Absent
      /\ \A d \in Ids : d # o.id => store'[d] = store[d]
  <2> HIDE DEF o
  <2> QED BY <1>2, WriteExtends
<1>5. \A g \in Handlers \ {h} : Extends(local[g], store, store')
  BY <1>4 DEF Inv, Unique
<1>6. CASE f.pc = "idle"
  <2>1. req' = [req EXCEPT ![h] = Idle] /\ local' = [local EXCEPT ![h] = NoLocals]
    BY <1>6 DEF Write, End
  <2>2. HandlerOK(Idle, NoLocals, store', files') /\ NoLocals.id = "none"
    BY NoLocalsOK, IdleOK
  <2> QED BY <1>2, <1>3, <1>5, <2>1, <2>2, Frame
<1>7. CASE f.pc # "idle"
  <2>1. req' = [req EXCEPT ![h] = f] /\ local' = [local EXCEPT ![h] = l]
    BY <1>7, StoreFacts DEF Write
  <2>2. /\ r.writing \in Seq(Nat) /\ o = r.session.objs[r.writing[1]] /\ r.writing[1] \in DOMAIN r.session.objs
        /\ r.session.objs \in Seq(Items)
    <3>1. r.writing \in Seq(Nat) /\ r.session.objs \in Seq(Items)
      BY <1>1 DEF Requests, Shape, Sessions
    <3> QED BY <1>1, <3>1, NextObjectType, NamesBasic
  <2>3. /\ f \in Requests(Names, Items) /\ f.session.objs = r.session.objs
        /\ f.pc = "flush" /\ f.then = "idle" /\ f.writing = Tail(r.writing) /\ Len(r.writing) > 1
    BY <1>1, <1>7, AfterWriteType, NamesBasic
  <2> HIDE DEF f, o
  <2>4. Placed(f) /\ Before(f, l, store', files') /\ Reported(f) /\ Consistent(f)
    BY <1>1, <2>3 DEF Placed, Before, Reported, Consistent, Middle
  <2>5. ASSUME NEW n \in DOMAIN r.session.objs PROVE HeldOK(r.session.objs[n], l, store', files')
    <3> DEFINE p == r.session.objs[n]
    <3> SUFFICES ASSUME p.id # "audit" PROVE HeldOK(p, l, store', files')
      BY DEF HeldOK
    <3>1. p \in Items /\ HeldOK(p, l, store, files)
      BY <1>1, <2>2 DEF HandlerOK
    <3>2. p.id = o.id => Same(p.id, p.val, o.val)
      BY <1>1, <2>2 DEF Consistent
    <3> HIDE DEF p
    <3>3. p.id \in Ids /\ (p.id \in Scores => p.val \in ScoreRecords)
      BY <3>1, ItemFacts
    <3>4. p.id \in Scores => Founded(p.val, store')
      <4>1. Extends(NoLocals, store, store')
        BY <1>4, NoLocalsOK
      <4> QED BY <3>1, <3>3, <4>1, FoundedStays DEF HeldOK
    <3>5. IF store'[p.id] = Absent THEN p.id = l.id ELSE Same(p.id, p.val, store'[p.id])
      <4>1. CASE p.id = o.id
        BY <1>4, <3>2, <3>3, <4>1
      <4>2. CASE p.id # o.id
        <5>1. store'[p.id] = store[p.id]
          BY <1>4, <3>3, <4>2
        <5> QED BY <3>1, <5>1 DEF HeldOK
      <4> QED BY <4>1, <4>2
    <3> QED BY <1>3, <3>1, <3>4, <3>5 DEF HeldOK
  <2>6. Ordered(f, store')
    <3> SUFFICES ASSUME NEW i \in DOMAIN f.writing, r.session.objs[f.writing[i]].id = "audit"
                 PROVE  \/ store'[r.session.objs[f.writing[i]].val[2]] # Absent
                        \/ \E j \in DOMAIN f.writing :
                             j < i /\ r.session.objs[f.writing[j]].id = r.session.objs[f.writing[i]].val[2]
      BY <2>3 DEF Ordered
    <3>1. i + 1 \in DOMAIN r.writing /\ f.writing[i] = r.writing[i + 1] /\ i \in Nat
      BY <2>2, <2>3, TailFacts
    <3> DEFINE a == r.session.objs[r.writing[i + 1]]
               d == a.val[2]
    <3>2. d \in Ids
      <4>1. a \in Items
        BY SMTT(40), <1>1, <2>2, <3>1 DEF Requests, Sound
      <4>2. a.id = "audit"
        BY <3>1
      <4> HIDE DEF a
      <4> QED BY <4>1, <4>2, ItemFacts, EventFacts
    <3>3. store[d] # Absent \/ \E j \in DOMAIN r.writing : j < i + 1 /\ r.session.objs[r.writing[j]].id = d
      BY <1>1, <3>1 DEF Ordered
    <3>4. CASE store[d] # Absent
      BY <1>4, <3>1, <3>2, <3>4
    <3>5. ASSUME NEW j \in DOMAIN r.writing, j < i + 1, r.session.objs[r.writing[j]].id = d
          PROVE  store'[d] # Absent \/ \E k \in DOMAIN f.writing : k < i /\ r.session.objs[f.writing[k]].id = d
      <4> HIDE DEF d
      <4>1. CASE j = 1
        BY <1>4, <2>2, <3>2, <3>5, <4>1
      <4>2. CASE j # 1
        <5>1. j \in Nat /\ j - 1 \in DOMAIN f.writing /\ f.writing[j - 1] = r.writing[j]
          BY <2>2, <2>3, <4>2, TailFacts
        <5>2. j - 1 < i
          BY <3>1, <3>5, <5>1
        <5> QED BY <3>5, <5>1, <5>2
      <4> QED BY <4>1, <4>2
    <3> QED BY <3>1, <3>3, <3>4, <3>5
  <2>7. HandlerOK(f, l, store', files')
    BY <1>1, <2>3, <2>4, <2>5, <2>6 DEF HandlerOK
  <2>8. \A g \in Handlers \ {h} : l.id = "none" \/ l.id # local[g].id
    BY DEF Inv, Unique
  <2> QED BY <1>2, <1>3, <1>5, <2>1, <2>7, <2>8, Frame
<1> QED BY <1>6, <1>7

\* A handler that fails leaves the database as it is.
LEMMA FailOK ==
  ASSUME Inv, NEW h \in Handlers, Fail(h)
  PROVE  Inv'
<1>1. /\ req' = [req EXCEPT ![h] = Idle] /\ local' = [local EXCEPT ![h] = NoLocals]
      /\ UNCHANGED <<store, inserted, files>> /\ clock' \in Nat /\ hour' \in Nat /\ day' \in Nat
  BY DEF Fail, End, database, time, Inv
<1>2. HandlerOK(Idle, NoLocals, store', files') /\ NoLocals.id = "none"
  BY NoLocalsOK, IdleOK
<1>3. StoreOK(store', inserted', files') /\ \A k : Extends(k, store, store')
  BY <1>1, Stays
<1> QED BY <1>1, <1>2, <1>3, Frame

\* So does time.
LEMMA TimePassesOK ==
  ASSUME Inv, TimePasses
  PROVE  Inv'
<1>1. UNCHANGED <<store, inserted, files, req, local>>
  BY DEF TimePasses, database
<1>2. clock' \in Nat /\ hour' \in Nat /\ day' \in Nat
  BY DEF TimePasses, HourPasses, DayPasses, Inv
<1> QED BY <1>1, <1>2 DEF Inv

\* The invariant holds initially.
LEMMA InitOK == Init => Inv
<1> SUFFICES ASSUME Init PROVE Inv
  OBVIOUS
<1>1. /\ store = [id \in Ids |-> Absent] /\ inserted = {} /\ files = {}
      /\ clock = 0 /\ hour = 0 /\ day = 0
      /\ req = [h \in Handlers |-> Idle] /\ local = [h \in Handlers |-> NoLocals]
  BY DEF Init, Ids
<1>2. StoreOK(store, inserted, files)
  BY <1>1 DEF StoreOK, Types, Told, Ids
<1>3. \A h \in Handlers : HandlerOK(req[h], local[h], store, files)
  BY <1>1, NoLocalsOK, IdleOK
<1>4. req \in [Handlers -> Requests(Names, Items)] /\ local \in [Handlers -> Locals]
  BY <1>1, NoLocalsOK, IdleType, NamesBasic
<1>5. Unique(local)
  BY <1>1, NoLocalsOK DEF Unique
<1> QED BY <1>1, <1>2, <1>3, <1>4, <1>5 DEF Inv

\* Every step preserves it.
LEMMA NextOK == Inv /\ [Next]_vars => Inv'
<1> SUFFICES ASSUME Inv, [Next]_vars PROVE Inv'
  OBVIOUS
<1>1. ASSUME NEW h \in Handlers, StoreFile(h) PROVE Inv'
  BY <1>1, StoreFileOK
<1>2. ASSUME NEW h \in Handlers, AnalyzeDocument(h) PROVE Inv'
  BY <1>2, AnalyzeDocumentOK
<1>3. ASSUME NEW h \in Handlers, VerifyFace(h) PROVE Inv'
  BY <1>3, VerifyFaceOK
<1>4. ASSUME NEW h \in Handlers, LivenessCheck(h) PROVE Inv'
  BY <1>4, LivenessCheckOK
<1>5. ASSUME NEW h \in Handlers, ReadDocument(h) PROVE Inv'
  BY <1>5, ReadDocumentOK
<1>6. ASSUME NEW h \in Handlers, ReadMatch(h) PROVE Inv'
  BY <1>6, ReadMatchOK
<1>7. ASSUME NEW h \in Handlers, CountHour(h) PROVE Inv'
  BY <1>7, CountHourOK
<1>8. ASSUME NEW h \in Handlers, CountDay(h) PROVE Inv'
  BY <1>8, CountDayOK
<1>9. ASSUME NEW h \in Handlers, CountFailures(h) PROVE Inv'
  BY <1>9, CountFailuresOK
<1>10. ASSUME NEW h \in Handlers, Assess(h) PROVE Inv'
  BY <1>10, AssessOK
<1>11. ASSUME NEW h \in Handlers, Write(h) PROVE Inv'
  BY <1>11, WriteOK
<1>12. ASSUME NEW h \in Handlers, Fail(h) PROVE Inv'
  BY <1>12, FailOK
<1>13. ASSUME TimePasses PROVE Inv'
  BY <1>13, TimePassesOK
<1>14. ASSUME UNCHANGED vars PROVE Inv'
  BY <1>14 DEF vars, database, time, Inv
<1> QED BY <1>1, <1>2, <1>3, <1>4, <1>5, <1>6, <1>7, <1>8, <1>9, <1>10, <1>11, <1>12, <1>13, <1>14 DEF Next

\* Therefore it always holds.
LEMMA InvHolds == Spec => []Inv
BY InitOK, NextOK, PTL DEF Spec

-----------------------------------------------------------------------------
\* What is stored of a score, and of the events of the trail.
LEMMA ScoreFacts ==
  ASSUME Inv, NEW s \in StoredIn(Scores)
  PROVE  /\ store[s].inputs \in Inputs /\ store[s].verdict = Verdict(store[s].inputs)
         /\ store[s].of \in Uploads /\ Founded(store[s], store)
<1>1. store[s] \in ScoreRecords /\ Founded(store[s], store)
  BY StoreFacts DEF StoredIn, Stored, StoreOK
<1> QED BY <1>1 DEF ScoreRecords

\* fraud_scoring.py, lines 97-112: no user would have got a better verdict with a
\* more suspicious document, a worse match, more attempts or rejections, or with
\* failed liveness of a face at least .1 similar.
THEOREM VerdictsMonotone == Spec => []RiskierNeverBetter
<1>1. Inv => RiskierNeverBetter
  <2> SUFFICES ASSUME Inv, NEW s \in StoredIn(Scores), NEW x \in Riskier(store[s].inputs)
               PROVE  Rank(Verdict(x)) >= Rank(store[s].verdict)
    BY DEF RiskierNeverBetter
  <2> DEFINE i == store[s].inputs
  <2>1. i \in Inputs /\ store[s].verdict = Verdict(i) /\ x \in Riskier(i)
    BY ScoreFacts
  <2> HIDE DEF i
  <2>2. /\ x \in Inputs /\ i.document <= x.document
        /\ FaceScore(i) <= FaceScore(x) /\ BehavioralScore(i) <= BehavioralScore(x)
    BY <2>1, RiskierWorse
  <2>3. /\ Rank(Verdict(i)) <= Rank(Verdict(x)) /\ Rank(Verdict(i)) \in 1..3 /\ Rank(Verdict(x)) \in 1..3
    BY <2>1, <2>2, VerdictMonotone
  <2> DEFINE a == Rank(Verdict(i))
             b == Rank(Verdict(x))
  <2>4. b >= a
    <3>1. a <= b /\ a \in 1..3 /\ b \in 1..3
      BY <2>3
    <3> HIDE DEF a, b
    <3> QED BY <3>1
  <2> QED BY <2>1, <2>4
<1> QED BY <1>1, InvHolds, PTL

\* ai.py, lines 226-231, and document_verification.py, lines 144-149: no score takes
\* a document for less suspicious than the audit trail reports it.
THEOREM DocumentsNotUnderrated == Spec => []DocumentNotUnderrated
<1>1. Inv => DocumentNotUnderrated
  <2> SUFFICES ASSUME Inv, NEW s \in StoredIn(Scores), NEW i \in inserted,
                      i[2][1] = "document", i[2][2] = store[s].of
               PROVE  store[s].inputs.document >= i[2][3]
    BY DEF DocumentNotUnderrated
  <2> DEFINE d == store[store[s].of]
  <2>1. /\ store[s].of \in Uploads /\ d # Absent /\ store[s].inputs.document = DocumentRisk(d)
    BY ScoreFacts DEF Founded
  <2>2. i[2][3] = TamperRisk(d)
    BY StoreFacts DEF StoreOK, Told, Outcome
  <2>3. d \in Documents
    BY <2>1, StoreFacts
  <2> HIDE DEF d
  <2>4. DocumentRisk(d) \in 0..One /\ TamperRisk(d) \in 0..One /\ TamperRisk(d) <= DocumentRisk(d)
    BY <2>3, MeasurementsAssumption, RiskCoversTamper
  <2> DEFINE a == DocumentRisk(d)
             b == TamperRisk(d)
  <2>5. a >= b
    <3>1. One \in Int
      BY DEF One
    <3>2. a \in 0..One /\ b \in 0..One /\ b <= a
      BY <2>4
    <3> HIDE DEF a, b
    <3>3. b <= a /\ a \in Int /\ b \in Int
      BY <3>1, <3>2
    <3>4. a >= b
      BY <3>3
    <3> QED BY <3>4 DEF a, b
  <2> QED BY <2>1, <2>2, <2>5
<1> QED BY <1>1, InvHolds, PTL

\* logger.py, lines 2-4: whatever the trail reports of the checks is stored with the
\* reported outcome, a document with its encrypted file, and a score with the
\* document and the match it is about.
THEOREM TrailIsFounded == Spec => []TrailFounded
<1>1. Inv => TrailFounded
  <2> SUFFICES ASSUME Inv PROVE TrailFounded
    OBVIOUS
  <2>1. ASSUME NEW i \in inserted
        PROVE  LET id == i[2][2]
               IN  /\ Stored(id)
                   /\ i[2][3] = CASE i[2][1] = "document" -> TamperRisk(store[id])
                                  [] i[2][1] = "face" -> store[id].passed
                                  [] i[2][1] = "score" -> store[id].verdict
    BY StoreFacts DEF StoreOK, Told, Outcome, Stored
  <2>2. StoredIn(Uploads) \subseteq files
    BY StoreFacts DEF StoredIn, Stored
  <2>3. \A s \in StoredIn(Scores) : Stored(store[s].of) /\ Stored(store[s].match)
    BY ScoreFacts DEF Founded, Stored
  <2> QED BY <2>1, <2>2, <2>3 DEF TrailFounded
<1> QED BY <1>1, InvHolds, PTL
-----------------------------------------------------------------------------
(* The second layer: the dates of the scores, and what a score took over of *)
(* its match.                                                               *)

\* A score, stored or held in a session, has the date a.
DatedAs(s, a, rq, st) ==
  \/ st[s] # Absent /\ st[s].at = a
  \/ \E h \in Handlers : \E n \in DOMAIN rq[h].session.objs :
       rq[h].session.objs[n].id = s /\ rq[h].session.objs[n].val.at = a

\* No two scores have the same date, and none a later one than c.
Dates(rq, st, c) ==
  \A s, t \in Scores : \A a :
    DatedAs(s, a, rq, st) => a \in 1..c /\ (DatedAs(t, a, rq, st) => s = t)

\* A score is held only to be stored, and says of the liveness of its match what
\* the handler has read.
Taken(r, l) ==
  \A n \in DOMAIN r.session.objs :
    r.session.objs[n].id \in Scores =>
      /\ r.op = "score" /\ r.pc = "flush" /\ r.session.objs[n].val.match = l.match
      /\ \E k \in DOMAIN r.session.objs :
           /\ r.session.objs[k].id = l.match
           /\ r.session.objs[k].val.live = r.session.objs[n].val.inputs.live

\* The handler h of a score holds one match at most, whose liveness is the stored
\* one unless another was stored since.
Watched(h, r, l, st, sl) ==
  r.op = "score" =>
    /\ r.pc # "idle" /\ l.match \in Matches
    /\ \A n \in DOMAIN r.session.objs :
         r.session.objs[n].id \in Matches =>
           /\ r.session.objs[n].id = l.match
           /\ r.session.objs[n].val.live # st[l.match].live => <<h, l.match>> \in sl
    /\ \A n, k \in DOMAIN r.session.objs :
         r.session.objs[n].id \in Matches /\ r.session.objs[k].id \in Matches
           => r.session.objs[n].val.live = r.session.objs[k].val.live

Seen(h, r, l, st, sl) == Taken(r, l) /\ Watched(h, r, l, st, sl)

Recent ==
  /\ Dates(req, store, clock)
  /\ day <= hour /\ hour <= clock
  /\ \A h \in Handlers : Seen(h, req[h], local[h], store, stale)

\* The request f is r after its handler has created a record and reported it.
Joined(f, r, o) ==
  /\ f.op = r.op /\ f.pc = "flush"
  /\ DOMAIN r.session.objs \subseteq DOMAIN f.session.objs
  /\ \A n \in DOMAIN r.session.objs : f.session.objs[n] = r.session.objs[n]
  /\ \A n \in DOMAIN f.session.objs :
       n \in DOMAIN r.session.objs \/ f.session.objs[n] = o \/ f.session.objs[n].id = "audit"

\* Requests may hold more kinds of objects.
LEMMA RequestsGrow ==
  ASSUME NEW More, Items \subseteq More
  PROVE  Requests(Names, Items) \subseteq Requests(Names, More)
BY SessionsGrow DEF Requests, Shape

\* That is what Conclude makes of it, whatever the record.
LEMMA ConcludeJoins ==
  ASSUME NEW r \in Requests(Names, Items), NEW id, NEW record, NEW event, r.pc # "flush",
         NEW o, o = [id |-> id, val |-> record]
  PROVE  Joined(Conclude(r, id, record, event), r, o)
<1> DEFINE e == <<r.op, id, event>>
           a == AuditItem(e)
           More == Items \cup {o, a}
           s == AddNew(r.session, id, record)
           q == [r EXCEPT !.session = s]
           f == LogEvent(q, e, "idle")
           X == r.session.objs
<1>1. Conclude(r, id, record, event) = f
  BY DEF Conclude
<1>2. r \in Requests(Names, More)
  BY RequestsGrow
<1>3. o \in More /\ a \in More /\ a.id = "audit"
  BY DEF AuditItem
<1> HIDE DEF e, a, More
<1>4. r \in Shape(Names, More) /\ Sound(r) /\ r.session \in Sessions(More) /\ X \in Seq(More)
  BY <1>2 DEF Requests, Shape, Sessions
<1>5. s \in Sessions(More) /\ s.objs = Append(X, o)
  <2>1. [id |-> id, val |-> record] \in More
    BY <1>3
  <2> HIDE DEF q, f
  <2> QED BY <1>4, <2>1, AddNewType
<1> HIDE DEF s
<1>6. q \in Shape(Names, More) /\ q.session = s /\ q.op = r.op /\ q.pc = r.pc /\ q.writing = r.writing
  BY <1>4, <1>5 DEF Shape
<1> DEFINE Y == s.objs
<1>7. /\ Y \in Seq(More) /\ DOMAIN Y = DOMAIN X \cup {Len(Y)} /\ Y[Len(Y)] = o
      /\ \A n \in DOMAIN X : Y[n] = X[n]
  <2>1. X \in Seq(More) /\ Y = Append(X, o) /\ Y \in Seq(More)
    BY <1>4, <1>5 DEF Sessions
  <2> HIDE DEF X, Y, q, f
  <2> QED BY <1>3, <2>1, AppendFacts
<1>8. q \in Requests(Names, More)
  BY <1>4, <1>6, <1>7 DEF Requests, Sound
<1>9. Recording(Names, More, q, e, "idle", f)
  <2>1. AuditItem(e) \in More /\ "idle" \in Names
    BY <1>3, NamesBasic DEF a, Basic
  <2> HIDE DEF q
  <2> QED BY <1>8, <2>1, LogEventType, NamesBasic
<1> HIDE DEF q, f
<1> DEFINE Z == f.session.objs
<1>10. Z = Append(Y, a) /\ f.op = r.op /\ f.pc = "flush"
  BY <1>6, <1>9 DEF Recording, a
<1>11. DOMAIN Z = DOMAIN Y \cup {Len(Z)} /\ Z[Len(Z)] = a /\ \A n \in DOMAIN Y : Z[n] = Y[n]
  <2>1. Y \in Seq(More) /\ a \in More /\ Z = Append(Y, a)
    BY <1>3, <1>7, <1>10
  <2> HIDE DEF X, Y, Z
  <2> QED BY <2>1, AppendFacts
<1> HIDE DEF X, Y, Z
<1>12. /\ DOMAIN X \subseteq DOMAIN Z /\ \A n \in DOMAIN X : Z[n] = X[n]
  BY <1>7, <1>11
<1>13. \A n \in DOMAIN Z : n \in DOMAIN X \/ Z[n] = o \/ Z[n].id = "audit"
  BY <1>3, <1>7, <1>11
<1> QED BY <1>1, <1>10, <1>12, <1>13 DEF Joined, X, Z

\* The dates remain good if no score has a date it did not have.
LEMMA DatesStay ==
  ASSUME NEW rq, NEW st, NEW c \in Nat, NEW rq2, NEW st2, NEW d \in Nat, c <= d, Dates(rq, st, c),
         \A s \in Scores : \A a : DatedAs(s, a, rq2, st2) => DatedAs(s, a, rq, st)
  PROVE  Dates(rq2, st2, d)
<1>1. 1..c \subseteq 1..d
  OBVIOUS
<1> QED BY <1>1 DEF Dates

\* So they do if one gets the next one.
LEMMA DatesAdd ==
  ASSUME NEW rq, NEW st, NEW c \in Nat, NEW rq2, NEW st2, NEW x \in Scores, Dates(rq, st, c),
         \A s \in Scores : \A a :
           DatedAs(s, a, rq2, st2) => DatedAs(s, a, rq, st) \/ (s = x /\ a = c + 1)
  PROVE  Dates(rq2, st2, c + 1)
<1>1. 1..c \subseteq 1..(c + 1) /\ c + 1 \in 1..(c + 1) /\ c + 1 \notin 1..c
  OBVIOUS
<1> DEFINE d == c + 1
<1>2. 1..c \subseteq 1..d /\ d \in 1..d /\ d \notin 1..c
  BY <1>1
<1>3. \A s \in Scores : \A a : DatedAs(s, a, rq2, st2) => DatedAs(s, a, rq, st) \/ (s = x /\ a = d)
  OBVIOUS
<1> HIDE DEF d
<1>4. ASSUME NEW s \in Scores, NEW a, DatedAs(s, a, rq2, st2) PROVE a \in 1..d
  BY <1>2, <1>3, <1>4 DEF Dates
<1>5. ASSUME NEW s \in Scores, NEW t \in Scores, NEW a, DatedAs(s, a, rq2, st2), DatedAs(t, a, rq2, st2)
      PROVE  s = t
  <2>1. (DatedAs(s, a, rq, st) \/ (s = x /\ a = d)) /\ (DatedAs(t, a, rq, st) \/ (t = x /\ a = d))
    BY <1>3, <1>5
  <2>2. CASE a = d
    <3>1. ~DatedAs(s, a, rq, st) /\ ~DatedAs(t, a, rq, st)
      BY <1>2, <2>2 DEF Dates
    <3> QED BY <2>1, <3>1
  <2>3. CASE a # d
    BY <2>1, <2>3 DEF Dates
  <2> QED BY <2>2, <2>3
<1>6. Dates(rq2, st2, d)
  BY <1>4, <1>5 DEF Dates
<1> QED BY <1>6 DEF d

\* A handler holds no other scores than before.
NoNewScore(r, old) ==
  \A n \in DOMAIN r.session.objs :
    r.session.objs[n].id \in Scores =>
      \E k \in DOMAIN old.session.objs : old.session.objs[k] = r.session.objs[n]

\* Then the dates of all scores remain, if the stored ones do.
LEMMA NoNewDate ==
  ASSUME Inv, NEW h \in Handlers, NEW r, req' = [req EXCEPT ![h] = r], NoNewScore(r, req[h]),
         NEW s \in Scores, NEW a, DatedAs(s, a, req', store')
  PROVE  DatedAs(s, a, req, store) \/ (store'[s] # Absent /\ store'[s].at = a)
<1>1. req'[h] = r /\ \A g \in Handlers \ {h} : req'[g] = req[g]
  BY StoreFacts
<1>2. ASSUME NEW g \in Handlers, NEW n \in DOMAIN req'[g].session.objs,
             req'[g].session.objs[n].id = s, req'[g].session.objs[n].val.at = a
      PROVE  DatedAs(s, a, req, store)
  <2>1. CASE g = h
    <3>1. PICK k \in DOMAIN req[h].session.objs : req[h].session.objs[k] = r.session.objs[n]
      BY <1>1, <1>2, <2>1 DEF NoNewScore
    <3> QED BY <1>1, <1>2, <2>1, <3>1 DEF DatedAs
  <2>2. CASE g # h
    BY <1>1, <1>2, <2>2 DEF DatedAs
  <2> QED BY <2>1, <2>2
<1> QED BY <1>2 DEF DatedAs

\* The step of one handler: the others have seen what they have, and are noted if
\* the liveness of their match changes.
LEMMA RecentFrame ==
  ASSUME Inv, Recent, NEW h \in Handlers, NEW r, NEW l,
         req' = [req EXCEPT ![h] = r], local' = [local EXCEPT ![h] = l],
         Seen(h, r, l, store', stale'), Dates(req', store', clock'),
         day' <= hour' /\ hour' <= clock',
         \A g \in Handlers \ {h}, m \in Matches :
           /\ <<g, m>> \in stale => <<g, m>> \in stale'
           /\ req[g].op = "score" /\ local[g].match = m /\ store'[m].live # store[m].live
                => <<g, m>> \in stale'
  PROVE  Recent'
<1>1. /\ req'[h] = r /\ local'[h] = l
      /\ \A g \in Handlers \ {h} : req'[g] = req[g] /\ local'[g] = local[g]
  BY StoreFacts
<1>2. ASSUME NEW g \in Handlers, g # h PROVE Seen(g, req[g], local[g], store', stale')
  <2> DEFINE q == req[g]
             k == local[g]
             m == k.match
  <2>1. Taken(q, k) /\ Watched(g, q, k, store, stale)
    BY DEF Recent, Seen
  <2>2. Watched(g, q, k, store', stale')
    <3> SUFFICES ASSUME q.op = "score" PROVE Watched(g, q, k, store', stale')
      BY DEF Watched
    <3>1. m \in Matches
      BY <2>1 DEF Watched
    <3>2. /\ <<g, m>> \in stale => <<g, m>> \in stale'
          /\ store'[m].live # store[m].live => <<g, m>> \in stale'
      BY <1>2, <3>1
    <3> HIDE DEF q, k
    <3>3. ASSUME NEW n \in DOMAIN q.session.objs, q.session.objs[n].id \in Matches
          PROVE  /\ q.session.objs[n].id = m
                 /\ q.session.objs[n].val.live # store'[m].live => <<g, m>> \in stale'
      BY <2>1, <3>2, <3>3 DEF Watched
    <3> QED BY <2>1, <3>1, <3>3 DEF Watched
  <2> QED BY <2>1, <2>2 DEF Seen
<1>3. \A g \in Handlers : Seen(g, req'[g], local'[g], store', stale')
  BY <1>1, <1>2
<1> QED BY <1>3 DEF Recent

\* The step of a handler that stores nothing and holds no new score.
LEMMA QuietStep ==
  ASSUME Inv, Recent, NEW h \in Handlers, NEW r, NEW l,
         req' = [req EXCEPT ![h] = r], local' = [local EXCEPT ![h] = l],
         store' = store, UNCHANGED time, Seen(h, r, l, store, stale'), NoNewScore(r, req[h]),
         \A g \in Handlers \ {h}, m \in Matches : <<g, m>> \in stale => <<g, m>> \in stale'
  PROVE  Recent'
<1>1. clock' = clock /\ hour' = hour /\ day' = day
  BY DEF time
<1>2. ASSUME NEW s \in Scores, NEW a, DatedAs(s, a, req', store') PROVE DatedAs(s, a, req, store)
  <2>1. DatedAs(s, a, req, store) \/ (store'[s] # Absent /\ store'[s].at = a)
    BY <1>2, NoNewDate
  <2> QED BY <2>1 DEF DatedAs
<1>3. Dates(req', store', clock')
  <2>1. Dates(req, store, clock) /\ clock \in Nat /\ clock <= clock
    BY DEF Recent, Inv
  <2> QED BY <1>1, <1>2, <2>1, DatesStay
<1>4. day' <= hour' /\ hour' <= clock'
  BY <1>1 DEF Recent
<1>5. \A m : ~(store'[m].live # store[m].live)
  OBVIOUS
<1> QED BY <1>3, <1>4, <1>5, RecentFrame

\* A handler of a request other than a score has seen nothing it would rely on.
LEMMA OtherSeen ==
  ASSUME NEW h, NEW r, NEW l, NEW st, NEW sl, NEW old, r.op # "score",
         \A n \in DOMAIN r.session.objs : r.session.objs[n].id \notin Scores
  PROVE  Seen(h, r, l, st, sl) /\ NoNewScore(r, old)
BY DEF Seen, Taken, Watched, NoNewScore

\* Before it creates its record, a handler holds no score.
LEMMA NoScoreYet ==
  ASSUME Recent, NEW h \in Handlers, req[h].pc # "flush"
  PROVE  \A n \in DOMAIN req[h].session.objs : req[h].session.objs[n].id \notin Scores
BY DEF Recent, Seen, Taken

\* A handler takes a request.
LEMMA BeginRecent ==
  ASSUME Inv, Recent, NEW h \in Handlers, NEW r, NEW l, Begin(h, r, l), store' = store,
         Seen(h, r, l, store, stale), NoNewScore(r, req[h])
  PROVE  Recent'
<1>1. /\ req' = [req EXCEPT ![h] = r] /\ local' = [local EXCEPT ![h] = l]
      /\ UNCHANGED time /\ stale' = stale
  BY DEF Begin, time
<1>2. Seen(h, r, l, store, stale')
  BY <1>1
<1> QED BY <1>1, <1>2, QuietStep

\* verify_document starts with nothing.
LEMMA StoreFileRecent ==
  ASSUME Inv, Recent, NEW h \in Handlers, StoreFile(h)
  PROVE  Recent'
<1> DEFINE r == Start("document", NoSession, "analyze")
<1>1. PICK u \in Uploads :
        /\ Begin(h, r, [NoLocals EXCEPT !.id = u]) /\ store' = store
  BY DEF StoreFile
<1> DEFINE l == [NoLocals EXCEPT !.id = u]
<1>2. r.session = NoSession /\ r.op = "document"
  <2>1. "document" \in Names /\ "analyze" \in Names /\ "analyze" # "flush"
    BY DEF Names, Middle
  <2> HIDE DEF l
  <2> QED BY <2>1, StartType, NamesBasic, NoSessionType
<1>3. r.session.objs = <<>> /\ r.op # "score"
  BY <1>2 DEF NoSession
<1> HIDE DEF r, l
<1>4. Seen(h, r, l, store, stale) /\ NoNewScore(r, req[h])
  BY <1>3, OtherSeen
<1>5. Begin(h, r, l) /\ store' = store
  BY <1>1 DEF l
<1> QED BY <1>4, <1>5, BeginRecent

\* verify_face holds a document and a new match.
LEMMA VerifyFaceRecent ==
  ASSUME Inv, Recent, NEW h \in Handlers, VerifyFace(h)
  PROVE  Recent'
<1>1. PICK u \in StoredIn(Uploads), m \in Matches, found \in BOOLEAN, similarity \in Similarities :
        LET match == MatchOf(found, similarity)
            r == Start("face", Fetch(NoSession, u, store[u]), "log")
        IN  /\ Free(m)
            /\ Begin(h, Conclude(r, m, [similarity |-> match.similarity, passed |-> match.passed,
                                        live |-> FALSE], match.passed),
                     [NoLocals EXCEPT !.id = m])
            /\ UNCHANGED database
  BY DEF VerifyFace
<1> DEFINE match == MatchOf(found, similarity)
           s == Fetch(NoSession, u, store[u])
           r == Start("face", s, "log")
           record == [similarity |-> match.similarity, passed |-> match.passed, live |-> FALSE]
           l == [NoLocals EXCEPT !.id = m]
           f == Conclude(r, m, record, match.passed)
           o == [id |-> m, val |-> record]
<1>2. Begin(h, f, l) /\ store' = store
  BY <1>1 DEF database
<1>3. u \in Ids /\ store[u] # Absent
  BY DEF StoredIn, Stored, Ids
<1>4. s \in Sessions(Items) /\ DOMAIN s.objs = {1} /\ s.objs[1].id = u
  <2> HIDE DEF r, l, f, record, match
  <2> QED BY <1>3, FirstFetch
<1> HIDE DEF s, record, match
<1>5. r \in Requests(Names, Items) /\ r.session = s /\ r.pc = "log" /\ r.op = "face"
  <2>1. "face" \in Names /\ "log" \in Names /\ "log" # "flush"
    BY DEF Names
  <2> HIDE DEF f
  <2> QED BY <1>4, <2>1, StartType, NamesBasic
<1> HIDE DEF r
<1>6. Joined(f, r, o)
  <2>1. r \in Requests(Names, Items) /\ r.pc # "flush" /\ o = [id |-> m, val |-> record]
    BY <1>5
  <2> HIDE DEF o
  <2> QED BY <2>1, ConcludeJoins
<1>7. o.id = m /\ m \notin Scores /\ u \notin Scores /\ "audit" \notin Scores
  BY RecordsAssumption DEF StoredIn
<1> HIDE DEF o, f, l
<1>8. f.op # "score" /\ \A n \in DOMAIN f.session.objs : f.session.objs[n].id \notin Scores
  <2>1. \A n \in DOMAIN r.session.objs : r.session.objs[n].id = u
    BY <1>4, <1>5
  <2> QED BY <1>5, <1>6, <1>7, <2>1 DEF Joined
<1>9. Seen(h, f, l, store, stale) /\ NoNewScore(f, req[h])
  BY <1>8, OtherSeen
<1> QED BY <1>2, <1>9, BeginRecent

\* liveness_check holds a match.
LEMMA LivenessCheckRecent ==
  ASSUME Inv, Recent, NEW h \in Handlers, LivenessCheck(h)
  PROVE  Recent'
<1>1. PICK m \in StoredIn(Matches), x \in Frames :
        /\ Begin(h, Flush(Start("liveness",
                            Assign(Fetch(NoSession, m, store[m]), 1,
                                   [store[m] EXCEPT !.live = LivenessPassed(x)]), "log"), "idle"),
                 [NoLocals EXCEPT !.match = m])
        /\ UNCHANGED database
  BY DEF LivenessCheck
<1> DEFINE new == [store[m] EXCEPT !.live = LivenessPassed(x)]
           o == [id |-> m, val |-> new]
           s == Assign(Fetch(NoSession, m, store[m]), 1, new)
           r == Start("liveness", s, "log")
           f == Flush(r, "idle")
           l == [NoLocals EXCEPT !.match = m]
           More == Items \cup {o}
<1>2. Begin(h, f, l) /\ store' = store
  BY <1>1 DEF database
<1>3. m \in Matches /\ m \in Ids /\ store[m] # Absent /\ m \notin Scores
  BY RecordsAssumption DEF StoredIn, Stored, Ids
<1> HIDE DEF new
<1>4. [id |-> m, val |-> store[m]] \in More /\ o \in More /\ o.id = m
  BY <1>3, StoredIsItem
<1> HIDE DEF More
<1>5. s \in Sessions(More) /\ \A n \in DOMAIN s.objs : s.objs[n] = o
  BY <1>4, FirstObject
<1> HIDE DEF s, o
<1>6. r \in Requests(Names, More) /\ r.session = s /\ r.op = "liveness"
  <2>1. "liveness" \in Names /\ "log" \in Names /\ "log" # "flush"
    BY DEF Names
  <2>2. s \in Sessions(More)
    BY <1>5
  <2> HIDE DEF f, l
  <2> QED BY <2>1, <2>2, StartType, NamesBasic
<1> HIDE DEF r
<1>7. f.session = s /\ f.op = "liveness"
  <2>1. "idle" \in Names /\ "idle" # "flush"
    BY NamesBasic DEF Basic
  <2> QED BY <1>6, <2>1, FlushType, NamesBasic
<1> HIDE DEF f, l
<1>8. f.op # "score" /\ \A n \in DOMAIN f.session.objs : f.session.objs[n].id \notin Scores
  BY <1>3, <1>4, <1>5, <1>7
<1>9. Seen(h, f, l, store, stale) /\ NoNewScore(f, req[h])
  BY <1>8, OtherSeen
<1> QED BY <1>2, <1>9, BeginRecent

\* fraud_score holds the document only at first.
LEMMA ReadDocumentRecent ==
  ASSUME Inv, Recent, NEW h \in Handlers, ReadDocument(h)
  PROVE  Recent'
<1>1. PICK u \in StoredIn(Uploads), m \in Matches, c \in Scores :
        /\ Begin(h, Start("score", Fetch(NoSession, u, store[u]), "match"),
                 [NoLocals EXCEPT !.id = c, !.document = u, !.match = m])
        /\ UNCHANGED database
  BY DEF ReadDocument
<1> DEFINE s == Fetch(NoSession, u, store[u])
           r == Start("score", s, "match")
           l == [NoLocals EXCEPT !.id = c, !.document = u, !.match = m]
<1>2. Begin(h, r, l) /\ store' = store
  BY <1>1 DEF database
<1>3. u \in Ids /\ store[u] # Absent /\ u \notin Matches /\ u \notin Scores
  BY RecordsAssumption DEF StoredIn, Stored, Ids
<1>4. s \in Sessions(Items) /\ DOMAIN s.objs = {1} /\ s.objs[1].id = u
  <2> HIDE DEF r, l
  <2> QED BY <1>3, FirstFetch
<1> HIDE DEF s
<1>5. l.match = m
  BY DEF NoLocals
<1>6. r.session = s /\ r.pc = "match" /\ r.op = "score"
  <2>1. "score" \in Names /\ "match" \in Names /\ "match" # "flush"
    BY DEF Names, Middle
  <2>2. s \in Sessions(Items)
    BY <1>4
  <2> HIDE DEF l
  <2> QED BY <2>1, <2>2, StartType, NamesBasic
<1> HIDE DEF r, l
<1>7. \A n \in DOMAIN r.session.objs : r.session.objs[n].id \notin Matches \cup Scores
  BY <1>3, <1>4, <1>6
<1>8. Seen(h, r, l, store, stale) /\ NoNewScore(r, req[h])
  BY <1>5, <1>6, <1>7 DEF Seen, Taken, Watched, NoNewScore
<1> QED BY <1>2, <1>8, BeginRecent

\* The match is read: it is the only one the handler holds, as it is stored.
LEMMA ReadMatchRecent ==
  ASSUME Inv, Recent, NEW h \in Handlers, ReadMatch(h)
  PROVE  Recent'
<1> DEFINE r == req[h]
           m == local[h].match
           t == r.session
           o == [id |-> m, val |-> store[m]]
           s == Fetch(t, m, store[m])
           q == [r EXCEPT !.session = s, !.pc = "hour"]
           l == [local[h] EXCEPT !.signals = NoSignals]
           X == t.objs
<1>1. /\ r \in Requests(Names, Items) /\ local[h] \in Locals
      /\ Before(r, local[h], store, files) /\ r.pc = "match" /\ store[m] # Absent
  BY StoreFacts DEF ReadMatch, Stored, HandlerOK
<1>2. /\ r.op = "score" /\ m \in Matches /\ local[h].document \in Uploads
      /\ X[1].id = local[h].document /\ Len(X) = 1
  BY <1>1 DEF Before, Middle, Scoring
<1>3. /\ req' = [req EXCEPT ![h] = q] /\ local' = [local EXCEPT ![h] = l]
      /\ store' = store /\ UNCHANGED time /\ stale' = stale \ {<<h, m>>}
  BY StoreFacts DEF ReadMatch, Proceed, database
<1>4. l.match = m
  BY <1>1 DEF Locals
<1>5. m \in Ids /\ m \notin Scores /\ X[1].id \notin Matches \cup Scores
  BY <1>2, RecordsAssumption DEF Ids
<1>6. o \in Items /\ o.id = m /\ o.val = store[m]
  BY <1>1, <1>5, StoredIsItem
<1>7. t \in Sessions(Items) /\ X \in Seq(Items) /\ r \in Shape(Names, Items)
  BY <1>1 DEF Requests, Shape, Sessions
<1>8. s.objs = Append(X, o)
  <2> DEFINE v == store[m]
  <2>1. [id |-> m, val |-> v] \in Items /\ t \in Sessions(Items)
    BY <1>6, <1>7
  <2> HIDE DEF v, t, m, q, l
  <2>2. Fetch(t, m, v).objs = Append(t.objs, [id |-> m, val |-> v])
    BY <2>1, FetchType
  <2> QED BY <2>2 DEF v
<1> HIDE DEF s, o
<1>9. q.session = s /\ q.pc = "hour" /\ q.op = "score"
  BY <1>2, <1>7 DEF Shape
<1> HIDE DEF q, l
<1>10. DOMAIN s.objs = {1, 2} /\ s.objs[1] = X[1] /\ s.objs[2] = o
  <2> DEFINE Y == s.objs
  <2>1. X \in Seq(Items) /\ o \in Items /\ Y = Append(X, o)
    BY <1>6, <1>7, <1>8
  <2>4. Len(X) = 1
    BY <1>2
  <2> HIDE DEF X, Y
  <2>2. Len(Y) = Len(X) + 1 /\ DOMAIN Y = DOMAIN X \cup {Len(Y)} /\ Y[Len(Y)] = o
        /\ \A n \in DOMAIN X : Y[n] = X[n]
    BY <2>1, AppendFacts
  <2>3. DOMAIN X = {1}
    BY <2>1, <2>4
  <2> QED BY <2>2, <2>3, <2>4 DEF Y
<1> HIDE DEF r, t, X
<1> DEFINE k == local[h].match
<1>11. k = m
  OBVIOUS
<1> HIDE DEF m
<1>12. \A n \in DOMAIN q.session.objs : q.session.objs[n].id \notin Scores
  BY <1>5, <1>6, <1>9, <1>10
<1>13. Watched(h, q, l, store, stale')
  <2>1. \A n \in DOMAIN q.session.objs : q.session.objs[n].id \in Matches => q.session.objs[n] = o
    BY <1>5, <1>9, <1>10
  <2> QED BY <1>2, <1>4, <1>6, <1>9, <2>1 DEF Watched
<1>14. Seen(h, q, l, store, stale') /\ NoNewScore(q, req[h])
  BY <1>12, <1>13 DEF Seen, Taken, NoNewScore
<1>15. \A g \in Handlers \ {h}, x \in Matches : <<g, x>> \in stale => <<g, x>> \in stale'
  BY <1>3
<1> QED BY <1>3, <1>14, <1>15, QuietStep

\* Counting changes neither what the handler holds nor its match.
LEMMA CountRecent ==
  ASSUME Inv, Recent, NEW h \in Handlers, req[h].pc \in Scoring \ {"match"}, NEW pc, pc # "idle",
         NEW l, l.match = local[h].match,
         req' = [req EXCEPT ![h] = [req[h] EXCEPT !.pc = pc]], local' = [local EXCEPT ![h] = l],
         UNCHANGED <<database, time, stale>>
  PROVE  Recent'
<1> DEFINE r == req[h]
           q == [req[h] EXCEPT !.pc = pc]
<1>1. r \in Shape(Names, Items) /\ Seen(h, r, local[h], store, stale) /\ r.pc # "flush"
  BY StoreFacts DEF Recent, Requests, Scoring, Middle
<1>2. q.session = r.session /\ q.op = r.op /\ q.pc = pc
  BY <1>1 DEF Shape
<1>3. store' = store /\ UNCHANGED time /\ stale' = stale /\ req' = [req EXCEPT ![h] = q]
  BY DEF database, time
<1>4. \A n \in DOMAIN r.session.objs : r.session.objs[n].id \notin Scores
  BY <1>1, NoScoreYet
<1> HIDE DEF q, r
<1>5. Watched(h, q, l, store, stale)
  BY <1>1, <1>2 DEF Seen, Watched
<1>6. Seen(h, q, l, store, stale) /\ NoNewScore(q, req[h])
  BY <1>2, <1>4, <1>5 DEF Seen, Taken, NoNewScore
<1>7. Seen(h, q, l, store, stale')
  BY <1>3, <1>6
<1> QED BY <1>3, <1>6, <1>7, QuietStep

\* The scores of the last hour are counted,
LEMMA CountHourRecent ==
  ASSUME Inv, Recent, NEW h \in Handlers, CountHour(h)
  PROVE  Recent'
<1> DEFINE n == CreatedAfter(Assessments, hour)
           l == [local[h] EXCEPT !.signals.attempts = n, !.day = day]
<1>1. /\ req' = [req EXCEPT ![h] = [req[h] EXCEPT !.pc = "day"]] /\ local' = [local EXCEPT ![h] = l]
      /\ req[h].pc \in Scoring \ {"match"} /\ UNCHANGED <<database, time, stale>>
  BY StoreFacts DEF CountHour, Scoring, Middle
<1>2. local[h] \in Locals
  BY StoreFacts
<1> HIDE DEF n
<1>3. l.match = local[h].match
  BY <1>2 DEF Locals
<1> HIDE DEF l
<1> QED BY <1>1, <1>3, CountRecent

\* those of the last day,
LEMMA CountDayRecent ==
  ASSUME Inv, Recent, NEW h \in Handlers, CountDay(h)
  PROVE  Recent'
<1> DEFINE n == CreatedAfter(Assessments, local[h].day)
           l == [local[h] EXCEPT !.signals = [local[h].signals EXCEPT !.addresses = n]]
<1>1. /\ req' = [req EXCEPT ![h].session = req[h].session, ![h].pc = "recent"]
      /\ local' = [local EXCEPT ![h] = l]
      /\ req[h].pc \in Scoring \ {"match"} /\ UNCHANGED <<database, time, stale>>
  BY StoreFacts DEF CountDay, Proceed, Scoring, Middle
<1>2. local[h] \in Locals
  BY StoreFacts
<1> HIDE DEF n
<1>3. l.match = local[h].match
  BY <1>2 DEF Locals
<1>4. req' = [req EXCEPT ![h] = [req[h] EXCEPT !.pc = "recent"]]
  <2> DEFINE R == Requests(Names, Items)
  <2>1. req \in [Handlers -> R] /\ req[h] \in Shape(Names, Items)
    BY StoreFacts DEF Requests
  <2> HIDE DEF l
  <2> QED BY <1>1, <2>1 DEF Shape
<1> HIDE DEF l
<1> QED BY <1>1, <1>3, <1>4, CountRecent

\* and the latest rejections.
LEMMA CountFailuresRecent ==
  ASSUME Inv, Recent, NEW h \in Handlers, CountFailures(h)
  PROVE  Recent'
<1> DEFINE n == Failures(Assessments)
           l == [local[h] EXCEPT !.signals = [local[h].signals EXCEPT !.failures = n]]
<1>1. /\ req' = [req EXCEPT ![h].session = req[h].session, ![h].pc = "assess"]
      /\ local' = [local EXCEPT ![h] = l]
      /\ req[h].pc \in Scoring \ {"match"} /\ UNCHANGED <<database, time, stale>>
  BY StoreFacts DEF CountFailures, Proceed, Scoring, Middle
<1>2. local[h] \in Locals
  BY StoreFacts
<1> HIDE DEF n
<1>3. l.match = local[h].match
  BY <1>2 DEF Locals
<1>4. req' = [req EXCEPT ![h] = [req[h] EXCEPT !.pc = "assess"]]
  <2> DEFINE R == Requests(Names, Items)
  <2>1. req \in [Handlers -> R] /\ req[h] \in Shape(Names, Items)
    BY StoreFacts DEF Requests
  <2> HIDE DEF l
  <2> QED BY <1>1, <2>1 DEF Shape
<1> HIDE DEF l
<1> QED BY <1>1, <1>3, <1>4, CountRecent

\* verify_document holds the document it has analysed.
LEMMA AnalyzeDocumentRecent ==
  ASSUME Inv, Recent, NEW h \in Handlers, AnalyzeDocument(h)
  PROVE  Recent'
<1> DEFINE r == req[h]
           l == local[h]
<1>1. PICK d \in Documents : req' = [req EXCEPT ![h] = Conclude(r, l.id, d, TamperRisk(d))]
  BY DEF AnalyzeDocument
<1>2. r \in Requests(Names, Items) /\ Before(r, l, store, files) /\ r.pc = "analyze"
  BY StoreFacts DEF AnalyzeDocument, HandlerOK
<1>3. r.op = "document" /\ l.id \in Uploads /\ l.id \notin Scores /\ "audit" \notin Scores
  BY <1>2, RecordsAssumption DEF Before, Middle
<1>4. store' = store /\ UNCHANGED time /\ stale' = stale /\ local' = local
  BY DEF AnalyzeDocument, database, time
<1>5. local' = [local EXCEPT ![h] = l]
  <2>1. local \in [Handlers -> Locals]
    BY StoreFacts
  <2> QED BY <1>4, <2>1
<1>6. \A n \in DOMAIN r.session.objs : r.session.objs[n].id \notin Scores
  BY <1>2, NoScoreYet
<1> DEFINE f == Conclude(r, l.id, d, TamperRisk(d))
           o == [id |-> l.id, val |-> d]
<1>7. req' = [req EXCEPT ![h] = f] /\ o.id = l.id
  BY <1>1
<1>8. Joined(f, r, o)
  <2> DEFINE i == l.id
             e == TamperRisk(d)
  <2>1. r \in Requests(Names, Items) /\ r.pc # "flush" /\ o = [id |-> i, val |-> d]
    BY <1>2
  <2> HIDE DEF o, r, i, e
  <2>2. Joined(Conclude(r, i, d, e), r, o)
    BY <2>1, ConcludeJoins
  <2> QED BY <2>2 DEF i, e
<1> HIDE DEF f, o, r, l
<1>9. f.op # "score" /\ \A n \in DOMAIN f.session.objs : f.session.objs[n].id \notin Scores
  BY <1>3, <1>6, <1>7, <1>8 DEF Joined
<1>10. Seen(h, f, l, store, stale') /\ NoNewScore(f, req[h])
  BY <1>9, OtherSeen
<1> QED BY <1>4, <1>5, <1>7, <1>10, QuietStep

\* A score is made of what the handler has seen, and dated next.
LEMMA AssessRecent ==
  ASSUME Inv, Recent, NEW h \in Handlers, Assess(h)
  PROVE  Recent'
<1> DEFINE r == req[h]
           l == local[h]
           x == InputsOf(h)
           b == r.session.objs[2]
<1>1. PICK address \in Addresses :
        req' = [req EXCEPT ![h] =
                  Conclude(r, l.id, [of |-> l.document, match |-> l.match, inputs |-> x,
                                     verdict |-> Verdict(x), at |-> Date, address |-> address],
                           Verdict(x))]
  BY DEF Assess
<1> DEFINE score == [of |-> l.document, match |-> l.match, inputs |-> x, verdict |-> Verdict(x),
                     at |-> Date, address |-> address]
           o == [id |-> l.id, val |-> score]
           f == Conclude(r, l.id, score, Verdict(x))
<1>2. r \in Requests(Names, Items) /\ Before(r, l, store, files) /\ r.pc = "assess"
  BY StoreFacts DEF Assess, HandlerOK
<1>3. /\ l.id \in Scores /\ r.op = "score" /\ l.match \in Matches
      /\ 2 \in DOMAIN r.session.objs /\ b.id = l.match
  BY <1>2 DEF Before, Middle, Scoring
<1>4. /\ store' = store /\ stale' = stale /\ local' = local
      /\ clock' = clock + 1 /\ hour' = hour /\ day' = day
  BY DEF Assess, database, time
<1>5. local' = [local EXCEPT ![h] = l]
  <2>1. local \in [Handlers -> Locals]
    BY StoreFacts
  <2> QED BY <1>4, <2>1
<1>6. \A n \in DOMAIN r.session.objs : r.session.objs[n].id \notin Scores
  BY <1>2, NoScoreYet
<1>7. x.live = b.val.live
  BY DEF InputsOf, ValOf, Live
<1>8. /\ score.match = l.match /\ score.inputs = x /\ score.at = clock + 1
      /\ o.id = l.id /\ o.val = score
  BY DEF Date
<1>9. Joined(f, r, o)
  <2> DEFINE i == l.id
             e == Verdict(x)
  <2>1. r \in Requests(Names, Items) /\ r.pc # "flush" /\ o = [id |-> i, val |-> score]
    BY <1>2
  <2> HIDE DEF o, r, i, e, score
  <2>2. Joined(Conclude(r, i, score, e), r, o)
    BY <2>1, ConcludeJoins
  <2> QED BY <2>2 DEF i, e
<1>10. Taken(r, l) /\ Watched(h, r, l, store, stale)
  BY DEF Recent, Seen
<1>20. req' = [req EXCEPT ![h] = f]
  BY <1>1
<1> HIDE DEF f, o, score, x, r, l, b
<1>11. /\ l.id \notin Matches /\ "audit" \notin Matches /\ "audit" \notin Scores
  BY <1>3, RecordsAssumption
<1>12. /\ \A n \in DOMAIN f.session.objs :
            \/ n \in DOMAIN r.session.objs /\ f.session.objs[n] = r.session.objs[n]
            \/ f.session.objs[n] = o
            \/ f.session.objs[n].id = "audit"
       /\ 2 \in DOMAIN f.session.objs /\ f.session.objs[2] = b /\ f.op = "score" /\ f.pc = "flush"
  BY <1>3, <1>9 DEF Joined, b
<1>13. Taken(f, l)
  <2> SUFFICES ASSUME NEW n \in DOMAIN f.session.objs, f.session.objs[n].id \in Scores
               PROVE  /\ f.op = "score" /\ f.pc = "flush" /\ f.session.objs[n].val.match = l.match
                      /\ \E k \in DOMAIN f.session.objs :
                           /\ f.session.objs[k].id = l.match
                           /\ f.session.objs[k].val.live = f.session.objs[n].val.inputs.live
    BY DEF Taken
  <2>1. f.session.objs[n] = o
    BY <1>6, <1>11, <1>12
  <2> QED BY <1>3, <1>7, <1>8, <1>12, <2>1
<1>14. Watched(h, f, l, store, stale')
  <2>1. \A n \in DOMAIN f.session.objs :
          f.session.objs[n].id \in Matches =>
            n \in DOMAIN r.session.objs /\ f.session.objs[n] = r.session.objs[n]
    BY <1>8, <1>11, <1>12
  <2> QED BY <1>3, <1>4, <1>10, <1>12, <2>1 DEF Watched
<1>15. ASSUME NEW s \in Scores, NEW a, DatedAs(s, a, req', store')
       PROVE  DatedAs(s, a, req, store) \/ (s = l.id /\ a = clock + 1)
  <2>1. req'[h] = f /\ \A g \in Handlers \ {h} : req'[g] = req[g]
    BY <1>20, StoreFacts
  <2>2. ASSUME NEW g \in Handlers, NEW n \in DOMAIN req'[g].session.objs,
               req'[g].session.objs[n].id = s, req'[g].session.objs[n].val.at = a
        PROVE  DatedAs(s, a, req, store) \/ (s = l.id /\ a = clock + 1)
    <3>1. CASE g = h
      <4>1. f.session.objs[n].id = s /\ f.session.objs[n].val.at = a /\ n \in DOMAIN f.session.objs
        BY <2>1, <2>2, <3>1
      <4>2. f.session.objs[n] = o
        BY <1>6, <1>11, <1>12, <4>1
      <4> QED BY <1>8, <4>1, <4>2
    <3>2. CASE g # h
      BY <2>1, <2>2, <3>2 DEF DatedAs
    <3> QED BY <3>1, <3>2
  <2> QED BY <1>4, <1>15, <2>2 DEF DatedAs
<1>16. Dates(req', store', clock')
  <2>1. Dates(req, store, clock) /\ clock \in Nat
    BY DEF Recent, Inv
  <2>2. Dates(req', store', clock + 1)
    BY <1>3, <1>15, <2>1, DatesAdd
  <2> QED BY <1>4, <2>2
<1>17. day' <= hour' /\ hour' <= clock'
  BY <1>4 DEF Recent, Inv
<1>18. \A g \in Handlers \ {h}, m \in Matches :
         /\ <<g, m>> \in stale => <<g, m>> \in stale'
         /\ req[g].op = "score" /\ local[g].match = m /\ store'[m].live # store[m].live
              => <<g, m>> \in stale'
  BY <1>4
<1>19. Seen(h, f, l, store', stale')
  BY <1>4, <1>13, <1>14 DEF Seen
<1> QED BY <1>5, <1>16, <1>17, <1>18, <1>19, <1>20, RecentFrame

\* A handler that does nothing has seen nothing.
LEMMA IdleSeen ==
  ASSUME NEW h, NEW l, NEW st, NEW sl, NEW old
  PROVE  Seen(h, Idle, l, st, sl) /\ NoNewScore(Idle, old)
<1>1. Idle.op # "score" /\ Idle.session.objs = <<>>
  BY IdleType, NamesBasic
<1> QED BY <1>1, OtherSeen

\* What a write stores is what the handler holds; the other handlers that have
\* read the match are noted.
LEMMA WriteFacts ==
  ASSUME Inv, Recent, NEW h \in Handlers, Write(h), NEW o, o = NextObject(req[h])
  PROVE  /\ \E n \in DOMAIN req[h].session.objs : o = req[h].session.objs[n]
         /\ o.id \in Ids => store'[o.id] = o.val /\ o.val # Absent
         /\ \A d \in Ids : d # o.id => store'[d] = store[d]
         /\ req[h].pc = "flush" /\ req[h] \in Requests(Names, Items)
         /\ clock' = clock /\ hour' = hour /\ day' = day
         /\ \A g \in Handlers \ {h}, m \in Matches :
              /\ <<g, m>> \in stale => <<g, m>> \in stale'
              /\ req[g].op = "score" /\ local[g].match = m /\ store'[m].live # store[m].live
                   => <<g, m>> \in stale'
<1> DEFINE r == req[h]
<1>1. r.pc = "flush" /\ r \in Requests(Names, Items) /\ clock' = clock /\ hour' = hour /\ day' = day
  BY StoreFacts DEF Write, time
<1>2. \E n \in DOMAIN r.session.objs : o = r.session.objs[n]
  BY <1>1, NextObjectType, NamesBasic
<1>3. Writing(o, local[h])
  BY WriteStore
<1>4. /\ o.id \in Ids => store'[o.id] = o.val /\ o.val # Absent
      /\ \A d \in Ids : d # o.id => store'[d] = store[d]
  BY <1>3, WriteExtends
<1> DEFINE late == {<<g, o.id>> : g \in {g \in Handlers \ {h} : ~Idles(g) /\ local[g].match = o.id}}
           ends == AfterWrite(r).pc = "idle"
<1>5. stale' = {s \in stale \cup late : ends => s[1] # h}
  BY DEF Write
<1> HIDE DEF ends
<1>6. ASSUME NEW g \in Handlers \ {h}, NEW m \in Matches
      PROVE  /\ <<g, m>> \in stale => <<g, m>> \in stale'
             /\ req[g].op = "score" /\ local[g].match = m /\ store'[m].live # store[m].live
                  => <<g, m>> \in stale'
  <2>1. <<g, m>> \in stale \cup late => <<g, m>> \in stale'
    BY <1>5
  <2>2. ASSUME req[g].op = "score", local[g].match = m, store'[m].live # store[m].live
        PROVE  <<g, m>> \in late
    <3>1. m = o.id
      BY <1>4, <2>2 DEF Ids
    <3>2. ~Idles(g)
      BY <2>2 DEF Recent, Seen, Watched, Idles
    <3> QED BY <2>2, <3>1, <3>2
  <2> QED BY <2>1, <2>2
<1> QED BY <1>1, <1>2, <1>4, <1>6

\* So a write preserves the dates,
LEMMA WriteDates ==
  ASSUME Inv, Recent, NEW h \in Handlers, Write(h), NEW r, req' = [req EXCEPT ![h] = r],
         NoNewScore(r, req[h])
  PROVE  Dates(req', store', clock') /\ day' <= hour' /\ hour' <= clock'
<1> DEFINE o == NextObject(req[h])
<1> HIDE DEF o
<1>1. /\ \E n \in DOMAIN req[h].session.objs : o = req[h].session.objs[n]
      /\ o.id \in Ids => store'[o.id] = o.val
      /\ \A d \in Ids : d # o.id => store'[d] = store[d]
      /\ clock' = clock /\ hour' = hour /\ day' = day
  BY WriteFacts DEF o
<1>2. ASSUME NEW s \in Scores, NEW a, DatedAs(s, a, req', store') PROVE DatedAs(s, a, req, store)
  <2>1. DatedAs(s, a, req, store) \/ (store'[s] # Absent /\ store'[s].at = a)
    BY <1>2, NoNewDate
  <2>2. CASE s = o.id
    BY <1>1, <2>1, <2>2 DEF DatedAs, Ids
  <2>3. CASE s # o.id
    BY <1>1, <2>1, <2>3 DEF DatedAs, Ids
  <2> QED BY <2>2, <2>3
<1>3. Dates(req, store, clock) /\ clock \in Nat /\ clock <= clock
  BY DEF Recent, Inv
<1>4. Dates(req', store', clock')
  BY <1>1, <1>2, <1>3, DatesStay
<1>5. day' <= hour' /\ hour' <= clock'
  BY <1>1 DEF Recent
<1> QED BY <1>4, <1>5

\* and what the handlers have seen.
LEMMA WriteRecent ==
  ASSUME Inv, Recent, NEW h \in Handlers, Write(h)
  PROVE  Recent'
<1> DEFINE r == req[h]
           l == local[h]
           o == NextObject(r)
           f == AfterWrite(r)
<1>1. /\ \E n \in DOMAIN r.session.objs : o = r.session.objs[n]
      /\ o.id \in Ids => store'[o.id] = o.val
      /\ \A d \in Ids : d # o.id => store'[d] = store[d]
      /\ r.pc = "flush" /\ r \in Requests(Names, Items)
      /\ \A g \in Handlers \ {h}, m \in Matches :
           /\ <<g, m>> \in stale => <<g, m>> \in stale'
           /\ req[g].op = "score" /\ local[g].match = m /\ store'[m].live # store[m].live
                => <<g, m>> \in stale'
  <2> HIDE DEF o, r
  <2>1. o = NextObject(req[h]) /\ r = req[h]
    BY DEF o, r
  <2> QED BY <2>1, WriteFacts
<1>2. ASSUME NEW q, NEW k, req' = [req EXCEPT ![h] = q], local' = [local EXCEPT ![h] = k],
             Seen(h, q, k, store', stale'), NoNewScore(q, req[h])
      PROVE  Recent'
  <2>1. Dates(req', store', clock') /\ day' <= hour' /\ hour' <= clock'
    BY <1>2, WriteDates
  <2> HIDE DEF o, f, r, l
  <2> QED BY <1>1, <1>2, <2>1, RecentFrame
<1>3. CASE f.pc = "idle"
  <2>1. req' = [req EXCEPT ![h] = Idle] /\ local' = [local EXCEPT ![h] = NoLocals]
    BY <1>3 DEF Write, End
  <2>2. Seen(h, Idle, NoLocals, store', stale') /\ NoNewScore(Idle, req[h])
    BY IdleSeen
  <2> QED BY <1>2, <2>1, <2>2
<1>4. CASE f.pc # "idle"
  <2>1. req' = [req EXCEPT ![h] = f] /\ local' = [local EXCEPT ![h] = l]
    BY <1>4, StoreFacts DEF Write
  <2>2. f.session.objs = r.session.objs /\ f.op = r.op /\ f.pc = "flush"
    <3>1. r.then = "idle"
      BY <1>1, StoreFacts DEF HandlerOK, Placed
    <3> QED BY <1>1, <1>4, <3>1, AfterWriteType, NamesBasic
  <2>3. Taken(r, l) /\ Watched(h, r, l, store, stale)
    BY DEF Recent, Seen
  <2> DEFINE late == {<<g, o.id>> : g \in {g \in Handlers \ {h} : ~Idles(g) /\ local[g].match = o.id}}
  <2>4. stale \subseteq stale'
    <3>1. stale' = {s \in stale \cup late : f.pc = "idle" => s[1] # h}
      BY DEF Write
    <3> QED BY <1>4, <3>1
  <2> HIDE DEF late, f, r, l, o
  <2>5. Taken(f, l)
    BY <2>2, <2>3, <1>1 DEF Taken
  <2>6. Watched(h, f, l, store', stale')
    <3> SUFFICES ASSUME r.op = "score" PROVE Watched(h, f, l, store', stale')
      BY <2>2 DEF Watched
    <3> DEFINE m == l.match
               X == r.session.objs
    <3>1. /\ m \in Matches
          /\ \A n \in DOMAIN X : X[n].id \in Matches =>
               X[n].id = m /\ (X[n].val.live # store[m].live => <<h, m>> \in stale)
          /\ \A n, k \in DOMAIN X :
               X[n].id \in Matches /\ X[k].id \in Matches => X[n].val.live = X[k].val.live
      BY <2>3 DEF Watched
    <3>2. PICK p \in DOMAIN X : o = X[p]
      BY <1>1
    <3>3. ASSUME NEW n \in DOMAIN X, X[n].id \in Matches, X[n].val.live # store'[m].live
          PROVE  <<h, m>> \in stale'
      <4>1. CASE o.id = m
        <5>1. store'[m] = o.val /\ X[p].id \in Matches
          BY <1>1, <3>1, <3>2, <4>1 DEF Ids
        <5>2. X[n].val.live = X[p].val.live
          BY <3>1, <3>3, <5>1
        <5> QED BY <3>2, <3>3, <5>1, <5>2
      <4>2. CASE o.id # m
        <5>1. store'[m] = store[m]
          BY <1>1, <3>1, <4>2 DEF Ids
        <5> QED BY <2>4, <3>1, <3>3, <5>1
      <4> QED BY <4>1, <4>2
    <3>4. f.session.objs = X /\ f.pc # "idle"
      BY <2>2
    <3> HIDE DEF X
    <3>5. m = l.match
      OBVIOUS
    <3> HIDE DEF m
    <3> QED BY <3>1, <3>3, <3>4, <3>5 DEF Watched
  <2>7. NoNewScore(f, req[h])
    BY <2>2 DEF NoNewScore, r
  <2>8. Seen(h, f, l, store', stale')
    BY <2>5, <2>6 DEF Seen
  <2> QED BY <1>2, <2>1, <2>7, <2>8
<1> QED BY <1>3, <1>4

\* A handler that fails forgets what it has seen.
LEMMA FailRecent ==
  ASSUME Inv, Recent, NEW h \in Handlers, Fail(h)
  PROVE  Recent'
<1>1. /\ req' = [req EXCEPT ![h] = Idle] /\ local' = [local EXCEPT ![h] = NoLocals]
      /\ store' = store /\ UNCHANGED time /\ stale' = {s \in stale : s[1] # h}
  BY DEF Fail, End, database, time
<1>2. Seen(h, Idle, NoLocals, store, stale') /\ NoNewScore(Idle, req[h])
  BY IdleSeen
<1>3. \A g \in Handlers \ {h}, m \in Matches : <<g, m>> \in stale => <<g, m>> \in stale'
  BY <1>1
<1> QED BY <1>1, <1>2, <1>3, QuietStep

\* An hour or a day passes of the time there has been.
LEMMA TimePassesRecent ==
  ASSUME Inv, Recent, TimePasses
  PROVE  Recent'
<1>1. UNCHANGED <<store, req, local, stale, clock>>
  BY DEF TimePasses, HourPasses, DayPasses, database
<1>2. day' <= hour' /\ hour' <= clock'
  BY DEF TimePasses, HourPasses, DayPasses, Recent, Inv
<1> QED BY <1>1, <1>2 DEF Recent

\* The second layer holds initially.
LEMMA InitRecent == Init => Recent
<1> SUFFICES ASSUME Init PROVE Recent
  OBVIOUS
<1>1. /\ store = [id \in Ids |-> Absent] /\ clock = 0 /\ hour = 0 /\ day = 0
      /\ req = [h \in Handlers |-> Idle]
  BY DEF Init, Ids
<1>2. Idle.session.objs = <<>>
  BY IdleType, NamesBasic
<1>3. \A s \in Scores : \A a : ~DatedAs(s, a, req, store)
  BY <1>1, <1>2 DEF DatedAs, Ids
<1>4. \A h \in Handlers : Seen(h, req[h], local[h], store, stale)
  BY <1>1, IdleSeen
<1> QED BY <1>1, <1>3, <1>4 DEF Recent, Dates

\* Every step preserves it.
LEMMA NextRecent == Inv /\ Recent /\ [Next]_vars => Recent'
<1> SUFFICES ASSUME Inv, Recent, [Next]_vars PROVE Recent'
  OBVIOUS
<1>1. ASSUME NEW h \in Handlers, StoreFile(h) PROVE Recent'
  BY <1>1, StoreFileRecent
<1>2. ASSUME NEW h \in Handlers, AnalyzeDocument(h) PROVE Recent'
  BY <1>2, AnalyzeDocumentRecent
<1>3. ASSUME NEW h \in Handlers, VerifyFace(h) PROVE Recent'
  BY <1>3, VerifyFaceRecent
<1>4. ASSUME NEW h \in Handlers, LivenessCheck(h) PROVE Recent'
  BY <1>4, LivenessCheckRecent
<1>5. ASSUME NEW h \in Handlers, ReadDocument(h) PROVE Recent'
  BY <1>5, ReadDocumentRecent
<1>6. ASSUME NEW h \in Handlers, ReadMatch(h) PROVE Recent'
  BY <1>6, ReadMatchRecent
<1>7. ASSUME NEW h \in Handlers, CountHour(h) PROVE Recent'
  BY <1>7, CountHourRecent
<1>8. ASSUME NEW h \in Handlers, CountDay(h) PROVE Recent'
  BY <1>8, CountDayRecent
<1>9. ASSUME NEW h \in Handlers, CountFailures(h) PROVE Recent'
  BY <1>9, CountFailuresRecent
<1>10. ASSUME NEW h \in Handlers, Assess(h) PROVE Recent'
  BY <1>10, AssessRecent
<1>11. ASSUME NEW h \in Handlers, Write(h) PROVE Recent'
  BY <1>11, WriteRecent
<1>12. ASSUME NEW h \in Handlers, Fail(h) PROVE Recent'
  BY <1>12, FailRecent
<1>13. ASSUME TimePasses PROVE Recent'
  BY <1>13, TimePassesRecent
<1>14. ASSUME UNCHANGED vars PROVE Recent'
  BY <1>14 DEF vars, database, time, Recent
<1> QED BY <1>1, <1>2, <1>3, <1>4, <1>5, <1>6, <1>7, <1>8, <1>9, <1>10, <1>11, <1>12, <1>13, <1>14 DEF Next

\* Both layers always hold.
LEMMA LayersHold == Spec => [](Inv /\ Recent)
BY InitOK, InitRecent, NextOK, NextRecent, PTL DEF Spec

\* Whatever is stored is what was measured or computed, each score has a date of
\* its own, and the hour and the day lie in the past.
THEOREM TypeCorrect == Spec => []TypeOK
<1>1. Inv /\ Recent => TypeOK
  <2> SUFFICES ASSUME Inv, Recent PROVE TypeOK
    OBVIOUS
  <2>1. \A u \in StoredIn(Uploads) : store[u] \in Documents
    BY StoreFacts DEF StoredIn, Stored
  <2>2. \A m \in StoredIn(Matches) : store[m].similarity \in Similarities \cup {0}
    BY StoreFacts DEF StoredIn, Stored, MatchRecords
  <2>3. \A s \in StoredIn(Scores) : DatedAs(s, store[s].at, req, store)
    BY DEF StoredIn, Stored, DatedAs
  <2>4. \A s, t \in StoredIn(Scores) :
          store[s].at \in 1..clock /\ (store[s].at = store[t].at => s = t)
    <3>1. \A s \in StoredIn(Scores) : s \in Scores
      BY DEF StoredIn
    <3> QED BY <2>3, <3>1 DEF Recent, Dates
  <2>5. 0 <= day /\ day <= hour /\ hour <= clock
    BY DEF Recent, Inv
  <2> QED BY <2>1, <2>2, <2>4, <2>5 DEF TypeOK
<1> QED BY <1>1, LayersHold, PTL

\* ai.py, lines 184-194 and 216-240: a verdict is stored on a result of the
\* liveness check that the match no longer has only if a check was stored after
\* the handler had read the match.
THEOREM VerdictsCurrent == Spec => VerdictOutdatedOnlyByOverlap
<1> DEFINE A ==
      \A s \in Scores :
        ~Stored(s) /\ store'[s] # Absent /\ store'[s].inputs.live # store[store'[s].match].live
          => \E h \in Handlers : req[h].pc = "flush" /\ <<h, store'[s].match>> \in stale
<1>1. Inv /\ Recent /\ [Next]_vars => [A]_vars
  <2> SUFFICES ASSUME Inv, Recent, [Next]_vars, NEW s \in Scores, store[s] = Absent, store'[s] # Absent,
                      store'[s].inputs.live # store[store'[s].match].live
               PROVE  \E h \in Handlers : req[h].pc = "flush" /\ <<h, store'[s].match>> \in stale
    BY DEF Stored
  <2>1. store' # store
    OBVIOUS
  <2>2. PICK h \in Handlers : Write(h)
    BY ZenonT(60), <2>1 DEF Next, vars, database, StoreFile, AnalyzeDocument, VerifyFace, LivenessCheck,
         ReadDocument, ReadMatch, Proceed, CountHour, CountDay, CountFailures, Assess, Fail, TimePasses
  <2> DEFINE r == req[h]
             o == NextObject(r)
             m == o.val.match
  <2>3. /\ \E n \in DOMAIN r.session.objs : o = r.session.objs[n]
        /\ \A d \in Ids : d # o.id => store'[d] = store[d]
        /\ o.id \in Ids => store'[o.id] = o.val
        /\ r.pc = "flush"
    <3> HIDE DEF o, r
    <3>1. o = NextObject(req[h]) /\ r = req[h]
      BY DEF o, r
    <3> QED BY <2>2, <3>1, WriteFacts
  <2>4. Taken(r, local[h]) /\ Watched(h, r, local[h], store, stale)
    BY DEF Recent, Seen
  <2> HIDE DEF o, r
  <2>5. o.id = s /\ store'[s] = o.val
    BY <2>1, <2>3 DEF Ids
  <2>6. PICK k \in DOMAIN r.session.objs :
          r.session.objs[k].id = m /\ r.session.objs[k].val.live = o.val.inputs.live
          /\ r.op = "score" /\ m = local[h].match
    BY ZenonT(60), <2>3, <2>4, <2>5 DEF Taken
  <2>7. m \in Matches /\ (r.session.objs[k].val.live # store[m].live => <<h, m>> \in stale)
    BY <2>4, <2>6 DEF Watched
  <2> QED BY <2>3, <2>5, <2>6, <2>7 DEF r
<1>2. Spec => [][A]_vars
  BY <1>1, LayersHold, PTL DEF Spec
<1> QED BY <1>2 DEF VerdictOutdatedOnlyByOverlap
===============================================================================
