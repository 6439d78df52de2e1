-------------------------- MODULE MCIdentityChecks --------------------------
(* An instance of IdentityChecks for TLC: a clean document and a suspicious  *)
(* one, faces that hardly match, do not or do, a live and a still burst.     *)
EXTENDS IdentityChecks, TLC

CONSTANTS h1, h2, u1, m1, s1, s2, s3, a1

OneHandler == {h1}
TwoHandlers == {h1, h2}
OneUpload == {u1}
OneMatch == {m1}
TwoScores == {s1, s2}
ThreeScores == {s1, s2, s3}
OneAddress == {a1}
OneDocument == {[noise |-> 40, edge |-> 0, copied |-> 0]}
TwoDocuments == {[noise |-> 50, edge |-> 15, copied |-> 0], [noise |-> 125, edge |-> 150, copied |-> 40]}
TwoSimilarities == {40, 90}
TwoBursts == {[faces |-> 4, blinks |-> 1, variance |-> 5000], [faces |-> 4, blinks |-> 1, variance |-> 10]}
Symmetric == Permutations(Handlers) \cup Permutations(Scores)
=============================================================================
