----------------------------- MODULE Registries -----------------------------
(***************************************************************************)
(* The three registries (contracts/contracts/*.sol) as a value, and the    *)
(* transactions they accept, for one credential and one issuer: which      *)
(* calls succeed and what they leave.  (The roles are left out: the        *)
(* deployment gives the backend and the administrator theirs, and whoever  *)
(* calls here has the role the function asks for.)                         *)
(*                                                                         *)
(* A date is the number of a block; 0 is none.                             *)
(***************************************************************************)
EXTENDS Naturals

CONSTANT Hashes  \* the values of bytes32 but for the zero hash

Registry == {"issuers", "credentials", "revocations"}
ZeroHash == "zero"

Deployed ==
  [issuers     |-> [hash |-> ZeroHash, approved |-> FALSE, blocked |-> FALSE, at |-> 0],
   credentials |-> [hash |-> ZeroHash, byIssuer |-> FALSE, at |-> 0, exists |-> FALSE],
   revocations |-> [hash |-> ZeroHash, at |-> 0, revoked |-> FALSE],
   paused      |-> {}]

Call(to, function, hash) == [to |-> to, function |-> function, hash |-> hash]

IsApprovedIssuer(chain) == chain.issuers.approved /\ ~chain.issuers.blocked
IsRevoked(chain) == chain.revocations.revoked
VerifyIntegrity(chain, hash) == chain.credentials.exists /\ chain.credentials.hash = hash

\* (Mutant: a record is anchored again.)
AnchoredNever(chain) == FALSE

Anchored(chain) == chain.credentials.exists

\* What the functions require, apart from whenNotPaused and whenPaused.
Required(chain, call) ==
  CASE call.function = "anchorRecord" /\ call.to = "credentials" ->
         call.hash # ZeroHash /\ ~Anchored(chain)
    [] call.function = "anchorRecordWithIssuer" ->
         call.hash # ZeroHash /\ ~Anchored(chain) /\ IsApprovedIssuer(chain)
    [] call.function = "anchorRecord" /\ call.to # "credentials" -> call.hash # ZeroHash
    [] call.function \in {"approveIssuer", "blockIssuer", "unblockIssuer"} -> chain.issuers.at # 0
    [] call.function = "reverseRevocation" -> IsRevoked(chain)
    [] OTHER -> TRUE

Succeeds(chain, call) ==
  /\ call.to \in chain.paused <=> call.function = "unpause"
  /\ Required(chain, call)

\* The registries after a call that succeeds in block number n; one that does
\* not is reverted.
Executed(chain, call, n) ==
  IF ~Succeeds(chain, call) THEN chain
  ELSE CASE call.function = "anchorRecord" /\ call.to = "issuers" ->
              [chain EXCEPT !.issuers.hash = call.hash,
                            !.issuers.at = IF @ = 0 THEN n ELSE @]
         [] call.function = "anchorRecord" /\ call.to = "revocations" ->
              [chain EXCEPT !.revocations = [hash |-> call.hash, at |-> n, revoked |-> TRUE]]
         [] call.to = "credentials" /\ call.function \in {"anchorRecord", "anchorRecordWithIssuer"} ->
              [chain EXCEPT !.credentials =
                 [hash |-> call.hash, byIssuer |-> call.function = "anchorRecordWithIssuer",
                  at |-> n, exists |-> TRUE]]
         [] call.function = "approveIssuer" ->
              [chain EXCEPT !.issuers.approved = TRUE, !.issuers.blocked = FALSE]
         [] call.function = "blockIssuer" -> [chain EXCEPT !.issuers.blocked = TRUE]
         [] call.function = "unblockIssuer" -> [chain EXCEPT !.issuers.blocked = FALSE]
         [] call.function = "reverseRevocation" -> [chain EXCEPT !.revocations.revoked = FALSE]
         [] call.function = "pause" -> [chain EXCEPT !.paused = @ \cup {call.to}]
         [] call.function = "unpause" -> [chain EXCEPT !.paused = @ \ {call.to}]

\* What a caller outside the backend can call: whoever holds an administrator's
\* or the backend's role, for instance with the scripts of contracts/.  These are
\* all the functions that change the state of a registry, with any hash.
OutsideCalls ==
  {Call("issuers", f, ZeroHash) : f \in {"approveIssuer", "blockIssuer", "unblockIssuer"}}
    \cup {Call(r, "anchorRecord", hash) : r \in Registry, hash \in Hashes}
    \cup {Call("credentials", "anchorRecordWithIssuer", hash) : hash \in Hashes}
    \cup {Call("revocations", "reverseRevocation", ZeroHash)}
    \cup {Call(r, f, ZeroHash) : r \in Registry, f \in {"pause", "unpause"}}
=============================================================================
