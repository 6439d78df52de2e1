--------------------------- MODULE MCSessionShim ----------------------------
(* Instances of SessionShim for TLC.                                         *)
EXTENDS SessionShim

CONSTANTS s1, s2, d1, d2, email, status

TwoSessions == {s1, s2}
OneDoc == {d1}
TwoDocs == {d1, d2}
Email == {email}
EmailAndStatus == {email, status}
Symmetric == Permutations(Handlers) \cup Permutations(Fields)
=============================================================================
