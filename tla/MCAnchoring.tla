---------------------------- MODULE MCAnchoring -----------------------------
(* Instances of Anchoring for TLC.                                           *)
EXTENDS Anchoring, TLC

CONSTANTS h1, h2, commitment, other

TwoHandlers == {h1, h2}
TwoHashes == {commitment, other}
=============================================================================
