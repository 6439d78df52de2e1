---------------------------- MODULE FraudScoring ----------------------------
(***************************************************************************)
(* What the identity checks compute (services/ai): the tamper risk of a    *)
(* document, the match of two faces, liveness, the behavioural signals and *)
(* the verdict.  What OpenCV measures in the images is an input.           *)
(*                                                                         *)
(* Measurements are in hundredths, scores in hundred-thousandths and       *)
(* exact; the code rounds each score to four digits, which decides a       *)
(* verdict only for a sum within a ten-thousandth of a threshold.          *)
(***************************************************************************)
EXTENDS Integers, FiniteSets, FiniteSetsExt

One == 100000
ReviewThreshold == 45000
RejectThreshold == 75000
FaceMatchThreshold == 72

Least(a, b) == Min({a, b})

\* analyze_document: the share of each measurement is capped.
TamperRisk(d) ==
  Least(One, (40000 * Least(d.noise, 250)) \div 250 + (35000 * Least(d.edge, 150)) \div 150
               + 250 * d.copied)

\* (Mutant: capped as in analyze_document, and two weights swapped.)
DocumentRiskSwapped(d) ==
  Least(One, (35000 * Least(d.noise, 250)) \div 250 + (40000 * Least(d.edge, 150)) \div 150
               + 250 * d.copied)

\* The same measurements as fraud_score weighs them: not capped.
DocumentRisk(d) == Least(One, 400 * d.noise + 350 * d.edge + 250 * d.copied)

\* verify_face: no similarity if a face is not found.
MatchOf(found, similarity) ==
  LET s == IF found THEN similarity ELSE 0
  IN  [similarity |-> s, passed |-> found /\ s >= FaceMatchThreshold]

\* assess_liveness of frames with this many faces, blinks and this variance.
LivenessPassed(f) ==
  LET motion == 400 <= f.variance /\ f.variance <= 40000
      blinks == 5 * f.faces <= 100 * f.blinks /\ 10 * f.blinks <= 6 * f.faces
      score == (IF motion THEN 60 ELSE 0) + (IF blinks THEN 40 ELSE 0)
  IN  f.faces >= 2 /\ score >= 60

\* (Mutant: a face that does not match is judged by how much it does.)
FaceScoreOfMismatch(i) ==
  IF ~i.live THEN 90000
  ELSE IF ~i.passed THEN 1000 * i.similarity ELSE 500 * (100 - i.similarity)

FaceScore(i) ==
  IF ~i.live THEN 90000
  ELSE IF ~i.passed THEN 1000 * (100 - i.similarity) ELSE 500 * (100 - i.similarity)

\* _behavioral_risk: 8 attempts, 5 addresses or 3 rejections are the most.
BehavioralScore(i) ==
  5625 * Least(i.attempts, 8) + 6250 * Least(Max({i.addresses - 1, 0}), 4)
    + 10000 * Least(i.failures, 3)

Overall(i) == (2 * i.document + 2 * FaceScore(i) + BehavioralScore(i)) \div 5

\* assess_fraud
Verdict(i) ==
  IF Overall(i) >= RejectThreshold THEN "REJECTED"
  ELSE IF Overall(i) >= ReviewThreshold THEN "REVIEW" ELSE "APPROVED"

\* compute_behavioral_signals, over the assessments of a user.
CreatedAfter(assessments, date) == Cardinality({a \in assessments : a.at > date})

\* The rejections since the last other verdict, among the five latest.
Failures(assessments) ==
  Cardinality({a \in assessments :
    /\ \A b \in assessments : b.at >= a.at => b.verdict = "REJECTED"
    /\ CreatedAfter(assessments, a.at) < 5})
=============================================================================
