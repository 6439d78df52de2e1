------------------------- MODULE MCIssuerGovernance -------------------------
(* Instances of IssuerGovernance for TLC.                                    *)
EXTENDS IssuerGovernance, TLC
CONSTANTS h1, h2, k1, k2, c1, c2
OneHandler == {h1}
TwoHandlers == {h1, h2}
TwoKeys == {k1, k2}
OneCredential == {c1}
Symmetric == Permutations(Handlers) \cup Permutations(Keys) \cup Permutations(Credentials)
=============================================================================
