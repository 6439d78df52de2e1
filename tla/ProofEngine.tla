---------------------------- MODULE ProofEngine -----------------------------
(***************************************************************************)
(* The OR-proofs of services/zk/proof_engine.py in a small group: a proof  *)
(* that a Pedersen commitment is one to 0 or to 1.  The scalars a prover   *)
(* draws are inputs; the challenge, a hash in the code, is any function of *)
(* what is hashed.  (The predicate is hashed as well; prover and verifier  *)
(* have the same one.)                                                     *)
(***************************************************************************)
EXTENDS Naturals

CONSTANTS P, G, H  \* the modulus, a prime; the two generators

ASSUME GroupAssumption == P \in Nat /\ P > 3 /\ {G, H} \subseteq 2..(P - 2)

\* _rand_scalar
Scalars == 1..(P - 2)

Power(base, exponent) ==
  LET power[e \in Nat] == IF e = 0 THEN 1 ELSE (base * power[e - 1]) % P
  IN  power[exponent]

\* The modulus is a prime: Fermat's little theorem, which holds of no other number.
ASSUME PrimeAssumption == \A x \in 1..(P - 1) : Power(x, P - 1) = 1

InverseOf(x) == CHOOSE y \in 1..(P - 1) : (x * y) % P = 1
PedersenCommit(value, blinding) == (Power(G, value) * Power(H, blinding)) % P

\* _fiat_shamir_challenge of the commitment and of the first messages of the
\* branches for 0 and for 1.
Challenge(commitment, t0, t1) == (commitment + 2 * t0 + 3 * t1) % (P - 1)

\* The statement of a branch: the commitment, divided by g for 1.
Point(commitment, bit) == IF bit = 1 THEN (commitment * InverseOf(G)) % P ELSE commitment

\* (Mutant: the first message of the real branch is hashed first.)
HashedRealFirst(commitment, bit, real, fake) == Challenge(commitment, real, fake)

Hashed(commitment, bit, real, fake) ==
  IF bit = 1 THEN Challenge(commitment, fake, real) ELSE Challenge(commitment, real, fake)

\* _prove_bit: the branch of the bit is proved with the blinding, the other one
\* is made up from its challenge and response.
ProveBit(bit, x) ==
  LET commitment == PedersenCommit(bit, x.blinding)
      real == Power(H, x.r)
      fake == (Power(H, x.resp) * InverseOf(Power(Point(commitment, 1 - bit), x.c))) % P
      c == (Hashed(commitment, bit, real, fake) + (P - 1) - x.c) % (P - 1)
      proved == [t |-> real, c |-> c, resp |-> (x.r + c * x.blinding) % (P - 1)]
      simulated == [t |-> fake, c |-> x.c, resp |-> x.resp]
  IN  [commitment |-> commitment,
       branch |-> [b \in {0, 1} |-> IF b = bit THEN proved ELSE simulated]]

\* _verify_bit_proof
VerifyBitProof(proof) ==
  LET b == proof.branch
  IN  /\ (b[0].c + b[1].c) % (P - 1) = Challenge(proof.commitment, b[0].t, b[1].t)
      /\ \A i \in {0, 1} :
           Power(H, b[i].resp) = (b[i].t * Power(Point(proof.commitment, i), b[i].c)) % P

Draws == [blinding : Scalars, r : Scalars, c : Scalars, resp : Scalars]

\* What verify_proof can say of what generate_proof makes of a predicate that
\* does or does not hold.
Judgements == [satisfied \in BOOLEAN |->
                 {VerifyBitProof(ProveBit(IF satisfied THEN 1 ELSE 0, x)) : x \in Draws}]
=============================================================================
