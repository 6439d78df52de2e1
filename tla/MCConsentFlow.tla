--------------------------- MODULE MCConsentFlow ----------------------------
(* Instances of ConsentFlow for TLC: predicates on different claims, such as *)
(* age_gte_18 and is_student_eq_true, or on one, such as age_gte_18 and      *)
(* age_gte_21.                                                               *)
EXTENDS ConsentFlow, TLC

CONSTANTS h1, h2, c1, p1, age18, age21, student

TwoHandlers == {h1, h2}
OneConsent == {c1}
OneProof == {p1}
AgeAndStudent == {age18, student}
TwoAges == {age18, age21}
OwnClaim == [s \in Scopes |-> s]
OwnText == [s \in Scopes |-> {s}]
OneClaim == [s \in Scopes |-> "age"]
OneText == [s \in Scopes |-> {"age"}]
Symmetric == Permutations(Handlers) \cup Permutations(Scopes)
=============================================================================
