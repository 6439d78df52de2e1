---------------------------- MODULE MCLoginAuth -----------------------------
(* An instance of LoginAuth for TLC: each handler in a process of its own.   *)
EXTENDS LoginAuth, TLC

CONSTANTS h1, h2, u1, u2, s1, s2, t1

TwoHandlers == {h1, h2}
TwoUsers == {u1, u2}
OneUser == {u1}
TwoSecrets == {s1, s2}
OneChallenge == {t1}
Own == [h \in Handlers |-> h]
Symmetric == Permutations(Handlers) \cup Permutations(Users) \cup Permutations(Secrets)
=============================================================================
