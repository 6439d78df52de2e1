----------------------------- MODULE ConsentProofs -----------------------------
(***************************************************************************)
(* What holds of the proof engine for any prime, and of ConsentFlow for    *)
(* any number of handlers, consents, proofs and scopes, in three layers.   *)
(*                                                                         *)
(* Inv: an answer to a consent that a handler holds needs its audit        *)
(* records; each is stored already or is the very next thing this handler  *)
(* stores.                                                                 *)
(* Fresh: what a handler holds of a consent is what is stored, or follows  *)
(* it in the order of ConsentStatus, or is out of date.                    *)
(* Linear: what a verification has read since, if it was not in force when *)
(* the handler began, can no longer be read as in force.                   *)
(***************************************************************************)
EXTENDS ConsentFlow, RequestProofs, WellFoundedInduction

-----------------------------------------------------------------------------
(* The proof engine *)

\* A number is its quotient and its remainder.
LEMMA DivMod ==
  ASSUME NEW n \in Nat, n > 0, NEW a \in Nat
  PROVE  /\ a \div n \in Nat /\ a % n \in 0..(n - 1) /\ a = n * (a \div n) + (a % n)
OBVIOUS

\* The remainder is the only one.
LEMMA ModUnique ==
  ASSUME NEW n \in Nat, n > 0, NEW q \in Nat, NEW r \in 0..(n - 1)
  PROVE  (n * q + r) % n = r
OBVIOUS

\* Multiples of the modulus do not count.
LEMMA ModSkip ==
  ASSUME NEW n \in Nat, n > 0, NEW q \in Nat, NEW a \in Nat
  PROVE  (n * q + a) % n = a % n
<1> DEFINE d == a \div n
           r == a % n
           k == q + d
<1>1. d \in Nat /\ r \in 0..(n - 1) /\ a = n * d + r
  BY DivMod
<1> HIDE DEF d, r
<1>2. k \in Nat /\ n * q + a = n * k + r
  BY <1>1
<1> HIDE DEF k
<1>3. (n * k + r) % n = r
  BY <1>1, <1>2, ModUnique
<1> QED BY <1>2, <1>3 DEF r

\* A factor may be reduced before the product is.
LEMMA ModTimes ==
  ASSUME NEW n \in Nat, n > 0, NEW a \in Nat, NEW b \in Nat
  PROVE  ((a % n) * b) % n = (a * b) % n
<1> DEFINE q == a \div n
           r == a % n
           x == q * b
           y == r * b
<1>1. q \in Nat /\ r \in Nat /\ a = n * q + r
  BY DivMod
<1> HIDE DEF q, r
<1>2. a * b = n * x + y
  BY <1>1
<1>3. x \in Nat /\ y \in Nat
  BY <1>1
<1> HIDE DEF x, y
<1>4. (n * x + y) % n = y % n
  BY <1>3, ModSkip
<1> QED BY <1>2, <1>4 DEF y, r

\* Induction over the numbers, for a set: first-order, unlike NatInduction.
LEMMA SetInduction ==
  ASSUME NEW S \in SUBSET Nat, 0 \in S, \A n \in S : n + 1 \in S
  PROVE  S = Nat
<1> SUFFICES ASSUME Nat \ S # {} PROVE FALSE
  OBVIOUS
<1>1. PICK k \in Nat \ S : \A j \in Nat \ S : ~(<<j, k>> \in OpToRel(<, Nat))
  <2>1. Nat \ S \subseteq Nat
    OBVIOUS
  <2> QED BY <2>1, NatLessThanWellFounded, WFMin
<1>2. k - 1 \in Nat /\ k - 1 < k /\ (k - 1) + 1 = k
  OBVIOUS
<1>3. k - 1 \in S
  BY <1>1, <1>2 DEF OpToRel
<1> QED BY <1>2, <1>3

\* The recursion of Power has a solution: its finite parts exist and agree.
LEMMA PowersExist ==
  ASSUME NEW b \in Nat
  PROVE  \E f : f = [e \in Nat |-> IF e = 0 THEN 1 ELSE (b * f[e - 1]) % P]
<1> DEFINE Step(f, e) == IF e = 0 THEN 1 ELSE (b * f[e - 1]) % P
           Part(n) == {f \in [0..n -> Nat] : \A e \in 0..n : f[e] = Step(f, e)}
           Found == {n \in Nat : Part(n) # {}}
           Same == {e \in Nat : \A m, n \in Nat : e <= m /\ e <= n =>
                                  \A f \in Part(m), g \in Part(n) : f[e] = g[e]}
           Some(n) == CHOOSE f \in Part(n) : TRUE
           F == [n \in Nat |-> Some(n)[n]]
<1>1. Found = Nat
  <2>1. 0 \in Found
    <3> DEFINE f == [e \in 0..0 |-> 1]
    <3>1. f \in Part(0)
      OBVIOUS
    <3> HIDE DEF f, Part
    <3> QED BY <3>1
  <2>2. ASSUME NEW n \in Found PROVE n + 1 \in Found
    <3>1. PICK f \in Part(n) : TRUE
      OBVIOUS
    <3>2. n \in Nat /\ f \in [0..n -> Nat] /\ \A e \in 0..n : f[e] = Step(f, e)
      BY <3>1
    <3> DEFINE v == (b * f[n]) % P
               g == [e \in 0..(n + 1) |-> IF e = n + 1 THEN v ELSE f[e]]
    <3>3. v \in Nat
      <4>1. b * f[n] \in Nat /\ P \in Nat /\ P > 0
        BY <3>2, GroupAssumption
      <4> QED BY <4>1, DivMod
    <3>4. 0..n \subseteq 0..(n + 1) /\ \A e \in 0..(n + 1) : e = n + 1 \/ e \in 0..n
      BY <3>2
    <3> HIDE DEF v, Part, Step
    <3>5. g \in [0..(n + 1) -> Nat]
      BY <3>2, <3>3, <3>4
    <3>6. ASSUME NEW e \in 0..(n + 1) PROVE g[e] = Step(g, e)
      <4>1. CASE e = n + 1
        <5>1. e # 0 /\ e - 1 = n /\ n \in 0..n /\ n \in 0..(n + 1) /\ n # n + 1
          BY <4>1, <3>2
        <5>2. g[e] = v /\ g[n] = f[n]
          BY <4>1, <5>1
        <5> QED BY <5>1, <5>2 DEF Step, v
      <4>2. CASE e # n + 1
        <5>1. e \in 0..n /\ (e # 0 => e - 1 \in 0..n /\ e - 1 # n + 1)
          BY <4>2, <3>2, <3>4
        <5>2. g[e] = f[e] /\ (e # 0 => g[e - 1] = f[e - 1])
          BY <4>2, <5>1, <3>4
        <5> QED BY <5>1, <5>2, <3>2 DEF Step
      <4> QED BY <4>1, <4>2
    <3>7. g \in Part(n + 1)
      BY <3>5, <3>6 DEF Part
    <3> HIDE DEF g
    <3> QED BY <3>2, <3>7
  <2> HIDE DEF Part
  <2>3. Found \in SUBSET Nat
    OBVIOUS
  <2> HIDE DEF Found
  <2> QED BY <2>1, <2>2, <2>3, SetInduction
<1>2. Same = Nat
  <2>1. 0 \in Same
    <3>1. \A n \in Nat : \A f \in Part(n) : f[0] = 1
      OBVIOUS
    <3> HIDE DEF Part
    <3> QED BY <3>1
  <2>2. ASSUME NEW e \in Same PROVE e + 1 \in Same
    <3>1. ASSUME NEW m \in Nat, NEW n \in Nat, e + 1 <= m, e + 1 <= n,
                 NEW f \in Part(m), NEW g \in Part(n)
          PROVE  f[e + 1] = g[e + 1]
      <4>1. e \in Nat /\ e <= m /\ e <= n /\ e + 1 # 0 /\ (e + 1) - 1 = e
            /\ e + 1 \in 0..m /\ e + 1 \in 0..n
        BY <3>1
      <4>2. f[e] = g[e]
        <5> HIDE DEF Part
        <5> QED BY <4>1
      <4>3. f[e + 1] = Step(f, e + 1) /\ g[e + 1] = Step(g, e + 1)
        <5> HIDE DEF Step
        <5> QED BY <4>1
      <4> QED BY <4>1, <4>2, <4>3
    <3>2. e + 1 \in Nat
      OBVIOUS
    <3> HIDE DEF Part
    <3> QED BY <3>1, <3>2
  <2>3. Same \in SUBSET Nat
    OBVIOUS
  <2> HIDE DEF Same
  <2> QED BY <2>1, <2>2, <2>3, SetInduction
<1>3. ASSUME NEW n \in Nat PROVE Some(n) \in Part(n)
  <2> HIDE DEF Part
  <2> QED BY <1>1
<1>4. ASSUME NEW n \in Nat PROVE F[n] = Step(F, n)
  <2>1. Some(n)[n] = Step(Some(n), n) /\ n \in 0..n
    <3>1. n \in 0..n
      OBVIOUS
    <3> HIDE DEF Step, Some
    <3> QED BY <1>3, <3>1
  <2>2. CASE n = 0
    BY <2>1, <2>2
  <2>3. CASE n # 0
    <3> DEFINE k == n - 1
    <3>1. k \in Nat /\ k <= n /\ k <= k
      BY <2>3
    <3>2. Some(n) \in Part(n) /\ Some(k) \in Part(k)
      <4> HIDE DEF Some, Part, k
      <4> QED BY <1>3, <3>1
    <3>3. k \in Same
      <4> HIDE DEF Same, k
      <4> QED BY <1>2, <3>1
    <3>4. Some(n)[k] = Some(k)[k]
      <4> HIDE DEF Some, Part, k
      <4> QED BY <3>1, <3>2, <3>3
    <3>5. F[n] = Some(n)[n] /\ F[k] = Some(k)[k]
      <4> HIDE DEF Some, k
      <4> QED BY <3>1
    <3> HIDE DEF F, Some
    <3> QED BY <2>1, <2>3, <3>4, <3>5
  <2> QED BY <2>2, <2>3
<1>5. F = [n \in Nat |-> F[n]]
  <2> HIDE DEF Some
  <2> QED OBVIOUS
<1>6. F = [e \in Nat |-> Step(F, e)]
  <2> HIDE DEF F, Step
  <2> QED BY <1>4, <1>5
<1> HIDE DEF F
<1> QED BY <1>6

\* Power by its recursion.
LEMMA PowerRecursion ==
  ASSUME NEW b \in Nat
  PROVE  /\ Power(b, 0) = 1
         /\ \A e \in Nat : Power(b, e + 1) = (b * Power(b, e)) % P
<1> DEFINE power == CHOOSE f : f = [e \in Nat |-> IF e = 0 THEN 1 ELSE (b * f[e - 1]) % P]
<1>1. power = [e \in Nat |-> IF e = 0 THEN 1 ELSE (b * power[e - 1]) % P]
  BY PowersExist
<1>2. \A e : Power(b, e) = power[e]
  BY DEF Power
<1> HIDE DEF power
<1>3. power[0] = 1
  BY <1>1
<1>4. ASSUME NEW e \in Nat PROVE power[e + 1] = (b * power[e]) % P
  <2>1. e + 1 \in Nat /\ e + 1 # 0 /\ (e + 1) - 1 = e
    OBVIOUS
  <2> QED BY <1>1, <2>1
<1> QED BY <1>2, <1>3, <1>4

\* Multiplication modulo P, and the numbers that have an inverse.
Times(a, b) == (a * b) % P
Units == 1..(P - 1)

\* Multiplication modulo P: type, neutral and zero element, and the laws of a
\* product.
LEMMA TimesLaws ==
  /\ \A a, b \in Nat : Times(a, b) \in 0..(P - 1) /\ Times(a, b) = Times(b, a)
  /\ \A a \in 0..(P - 1) : Times(1, a) = a /\ Times(a, 1) = a
  /\ \A a \in Nat : Times(0, a) = 0 /\ Times(a, 0) = 0
  /\ \A a, b, c \in Nat : Times(Times(a, b), c) = Times(a, Times(b, c))
  /\ \A a \in 0..(P - 1) : a \in Nat
<1> USE GroupAssumption
<1>1. ASSUME NEW a \in Nat, NEW b \in Nat
      PROVE  Times(a, b) \in 0..(P - 1) /\ Times(a, b) = Times(b, a)
  <2> DEFINE x == a * b
  <2>1. x \in Nat /\ x = b * a
    OBVIOUS
  <2> HIDE DEF x
  <2>2. x % P \in 0..(P - 1)
    BY <2>1, DivMod
  <2> QED BY <2>1, <2>2 DEF Times, x
<1>2. \A a \in 0..(P - 1) : Times(1, a) = a /\ Times(a, 1) = a
  <2> SUFFICES ASSUME NEW a \in 0..(P - 1) PROVE Times(1, a) = a /\ Times(a, 1) = a
    OBVIOUS
  <2>1. (P * 0 + a) % P = a /\ P * 0 + a = a
    BY ModUnique
  <2> QED BY <2>1 DEF Times
<1>3. \A a \in Nat : Times(0, a) = 0 /\ Times(a, 0) = 0
  <2>1. 0 % P = 0 /\ \A a \in Nat : 0 * a = 0 /\ a * 0 = 0
    OBVIOUS
  <2> QED BY <2>1 DEF Times
<1>4. ASSUME NEW a \in Nat, NEW b \in Nat, NEW c \in Nat
      PROVE  Times(Times(a, b), c) = Times(a, Times(b, c))
  <2> DEFINE x == a * b
             y == b * c
  <2>1. x \in Nat /\ y \in Nat /\ x * c = a * y /\ a * y = y * a
    OBVIOUS
  <2>2. x % P \in 0..(P - 1) /\ y % P \in 0..(P - 1)
    <3> HIDE DEF x, y
    <3> QED BY <2>1, DivMod
  <2> HIDE DEF x, y
  <2>3. ((x % P) * c) % P = (x * c) % P
    <3>1. P \in Nat /\ P > 0 /\ x \in Nat /\ c \in Nat
      BY <2>1
    <3> QED BY ONLY <3>1, ModTimes
  <2>4. ((y % P) * a) % P = (y * a) % P
    <3>1. P \in Nat /\ P > 0 /\ y \in Nat /\ a \in Nat
      BY <2>1
    <3> QED BY ONLY <3>1, ModTimes
  <2>5. (y % P) * a = a * (y % P)
    BY <2>2
  <2> QED BY <2>1, <2>3, <2>4, <2>5 DEF Times, x, y
<1>5. \A a \in 0..(P - 1) : a \in Nat
  OBVIOUS
<1> QED BY <1>1, <1>2, <1>3, <1>4, <1>5

\* The laws of exponents.
LEMMA PowerLaws ==
  ASSUME NEW b \in Nat
  PROVE  /\ Power(b, 0) = 1
         /\ \A e \in Nat : Power(b, e + 1) = Times(b, Power(b, e))
         /\ \A e \in Nat : Power(b, e) \in 0..(P - 1) /\ Power(b, e) \in Nat
         /\ \A i, j \in Nat : Power(b, i + j) = Times(Power(b, i), Power(b, j))
<1>1. Power(b, 0) = 1 /\ \A e \in Nat : Power(b, e + 1) = Times(b, Power(b, e))
  BY PowerRecursion DEF Times
<1>2. \A e \in Nat : Power(b, e) \in 0..(P - 1)
  <2> DEFINE S == {e \in Nat : Power(b, e) \in 0..(P - 1)}
  <2>1. 0 \in S
    BY <1>1, GroupAssumption
  <2>2. ASSUME NEW e \in S PROVE e + 1 \in S
    BY <1>1, TimesLaws
  <2>3. S \in SUBSET Nat
    OBVIOUS
  <2>4. S = Nat
    <3> HIDE DEF S
    <3> QED BY <2>1, <2>2, <2>3, SetInduction
  <2> QED BY <2>4
<1>3. \A e \in Nat : Power(b, e) \in Nat
  BY <1>2, TimesLaws
<1>4. ASSUME NEW j \in Nat
      PROVE  \A i \in Nat : Power(b, i + j) = Times(Power(b, i), Power(b, j))
  <2> DEFINE S == {i \in Nat : Power(b, i + j) = Times(Power(b, i), Power(b, j))}
  <2>1. 0 \in S
    <3>1. 0 + j = j
      OBVIOUS
    <3> QED BY <1>1, <1>2, <3>1, TimesLaws
  <2>2. ASSUME NEW i \in S PROVE i + 1 \in S
    <3>1. (i + 1) + j = (i + j) + 1 /\ i \in Nat /\ i + j \in Nat /\ i + 1 \in Nat
      OBVIOUS
    <3>2. Power(b, (i + 1) + j) = Times(b, Times(Power(b, i), Power(b, j)))
      BY <1>1, <3>1
    <3>3. Power(b, i + 1) = Times(b, Power(b, i))
      BY <1>1, <3>1
    <3>4. Times(Times(b, Power(b, i)), Power(b, j)) = Times(b, Times(Power(b, i), Power(b, j)))
      BY <1>3, <3>1, TimesLaws
    <3> QED BY <3>1, <3>2, <3>3, <3>4
  <2>3. S \in SUBSET Nat
    OBVIOUS
  <2>4. S = Nat
    <3> HIDE DEF S
    <3> QED BY <2>1, <2>2, <2>3, SetInduction
  <2> QED BY <2>4
<1> QED BY <1>1, <1>2, <1>3, <1>4

\* Every power of 1 is 1.
LEMMA PowerOfOne == \A e \in Nat : Power(1, e) = 1
<1> DEFINE S == {e \in Nat : Power(1, e) = 1}
<1>1. 0 \in S
  BY PowerLaws
<1>2. ASSUME NEW e \in S PROVE e + 1 \in S
  <2>1. Power(1, e + 1) = Times(1, Power(1, e))
    BY PowerLaws
  <2>2. 1 \in 0..(P - 1)
    BY GroupAssumption
  <2> QED BY <2>1, <2>2, TimesLaws
<1>3. S \in SUBSET Nat
  OBVIOUS
<1>4. S = Nat
  <2> HIDE DEF S
  <2> QED BY <1>1, <1>2, <1>3, SetInduction
<1> QED BY <1>4

\* A power of a power.
LEMMA PowerOfPower ==
  ASSUME NEW b \in Nat, NEW i \in Nat, NEW j \in Nat
  PROVE  Power(b, i * j) = Power(Power(b, i), j)
<1> DEFINE S == {k \in Nat : Power(b, i * k) = Power(Power(b, i), k)}
           c == Power(b, i)
<1>0. c \in Nat
  BY PowerLaws
<1>1. 0 \in S
  <2>1. i * 0 = 0
    OBVIOUS
  <2> QED BY <1>0, <2>1, PowerLaws
<1>2. ASSUME NEW k \in S PROVE k + 1 \in S
  <2> DEFINE m == i * k
  <2>1. i * (k + 1) = i + m /\ m \in Nat /\ k \in Nat /\ k + 1 \in Nat
    OBVIOUS
  <2>2. Power(b, m) = Power(c, k)
    OBVIOUS
  <2> HIDE DEF m, c
  <2>3. Power(b, i + m) = Times(Power(b, i), Power(b, m))
    BY <2>1, PowerLaws
  <2>4. Power(c, k + 1) = Times(c, Power(c, k))
    BY <1>0, <2>1, PowerLaws
  <2> QED BY <2>1, <2>2, <2>3, <2>4 DEF c
<1>3. S \in SUBSET Nat
  OBVIOUS
<1>4. S = Nat
  <2> HIDE DEF S
  <2> QED BY <1>1, <1>2, <1>3, SetInduction
<1> QED BY <1>4

\* Exponents count modulo P - 1.
LEMMA PowerPeriod ==
  ASSUME NEW b \in Units, NEW e \in Nat
  PROVE  Power(b, e % (P - 1)) = Power(b, e)
<1> DEFINE n == P - 1
           q == e \div n
           r == e % n
           m == n * q
<1>1. n \in Nat /\ n > 0 /\ b \in Nat
  BY GroupAssumption DEF Units
<1>2. q \in Nat /\ r \in Nat /\ e = m + r
  <2> HIDE DEF n
  <2> QED BY <1>1, DivMod
<1> HIDE DEF q, r
<1>3. m \in Nat
  <2> HIDE DEF n
  <2> QED BY <1>1, <1>2
<1>4. Power(b, m) = Power(Power(b, n), q)
  <2> HIDE DEF n
  <2> QED BY <1>1, <1>2, PowerOfPower
<1>5. Power(b, n) = 1
  BY PrimeAssumption DEF Units
<1>6. Power(b, m) = 1
  <2> HIDE DEF m, n
  <2> QED BY <1>2, <1>4, <1>5, PowerOfOne
<1>7. Power(b, m + r) = Times(Power(b, m), Power(b, r)) /\ Power(b, r) \in 0..(P - 1)
  <2>1. b \in Nat /\ m \in Nat /\ r \in Nat
    BY <1>1, <1>2, <1>3
  <2> HIDE DEF m
  <2>2. Power(b, m + r) = Times(Power(b, m), Power(b, r))
    BY <2>1, PowerLaws
  <2>3. Power(b, r) \in 0..(P - 1)
    BY <2>1, PowerLaws
  <2> QED BY <2>2, <2>3
<1> HIDE DEF m
<1>8. Power(b, m + r) = Power(b, r)
  BY <1>6, <1>7, TimesLaws
<1> QED BY <1>2, <1>8 DEF r, n

\* Every number below P but 0 has an inverse, and pow(x, -1, P), modelled by
\* InverseOf, is one.
LEMMA InverseLaws ==
  ASSUME NEW x \in Units
  PROVE  InverseOf(x) \in Units /\ Times(x, InverseOf(x)) = 1 /\ Times(InverseOf(x), x) = 1
<1> DEFINE y == Power(x, P - 2)
<1>1. P - 2 \in Nat /\ (P - 2) + 1 = P - 1 /\ x \in Nat
  BY GroupAssumption DEF Units
<1>2. y \in 0..(P - 1) /\ y \in Nat /\ Times(x, y) = 1
  <2>1. Power(x, (P - 2) + 1) = Times(x, Power(x, P - 2))
    BY <1>1, PowerLaws
  <2>2. Power(x, P - 1) = 1
    BY PrimeAssumption DEF Units
  <2> QED BY <1>1, <2>1, <2>2, PowerLaws
<1> HIDE DEF y
<1>3. y # 0
  BY <1>1, <1>2, TimesLaws
<1>4. y \in 1..(P - 1)
  BY <1>2, <1>3, GroupAssumption
<1>5. InverseOf(x) \in 1..(P - 1) /\ (x * InverseOf(x)) % P = 1
  BY <1>2, <1>4 DEF InverseOf, Times
<1>6. InverseOf(x) \in Nat
  BY <1>5
<1> QED BY <1>1, <1>5, <1>6, TimesLaws DEF Times, Units

\* Numbers below P other than 0 stay so under multiplication and powers, and
\* dividing undoes multiplying.
LEMMA UnitLaws ==
  /\ \A a \in Units : a \in Nat /\ a \in 0..(P - 1)
  /\ \A a, b \in Units : Times(a, b) \in Units
  /\ \A a \in Units, b \in 0..(P - 1) :
       /\ Times(Times(a, b), InverseOf(a)) = b
       /\ Times(Times(b, InverseOf(a)), a) = b
  /\ \A a \in Units, e \in Nat : Power(a, e) \in Units
<1>1. \A a \in Units : a \in Nat /\ a \in 0..(P - 1)
  BY GroupAssumption DEF Units
<1>2. ASSUME NEW a \in Units, NEW b \in 0..(P - 1)
      PROVE  /\ Times(Times(a, b), InverseOf(a)) = b
             /\ Times(Times(b, InverseOf(a)), a) = b
  <2> DEFINE i == InverseOf(a)
  <2>1. i \in Nat /\ a \in Nat /\ b \in Nat /\ Times(a, i) = 1 /\ Times(i, a) = 1
    BY <1>1, InverseLaws, TimesLaws
  <2> HIDE DEF i
  <2>2. Times(a, b) = Times(b, a)
    BY <2>1, TimesLaws
  <2>3. Times(Times(b, a), i) = Times(b, Times(a, i))
    BY <2>1, TimesLaws
  <2>4. Times(Times(b, i), a) = Times(b, Times(i, a))
    BY <2>1, TimesLaws
  <2>5. Times(b, 1) = b
    BY TimesLaws
  <2> QED BY <2>1, <2>2, <2>3, <2>4, <2>5 DEF i
<1>3. ASSUME NEW a \in Units, NEW b \in Units PROVE Times(a, b) \in Units
  <2>1. a \in Nat /\ b \in Nat /\ b \in 0..(P - 1) /\ b # 0
    BY <1>1 DEF Units
  <2>2. Times(a, b) \in 0..(P - 1)
    BY <2>1, TimesLaws
  <2>3. Times(a, b) # 0
    <3>1. Times(Times(a, b), InverseOf(a)) = b
      BY <1>2, <2>1
    <3>2. InverseOf(a) \in Nat
      BY <1>1, InverseLaws
    <3>3. Times(0, InverseOf(a)) = 0
      BY <3>2, TimesLaws
    <3> QED BY <2>1, <3>1, <3>3
  <2> QED BY <2>2, <2>3, GroupAssumption DEF Units
<1>4. ASSUME NEW a \in Units PROVE \A e \in Nat : Power(a, e) \in Units
  <2> DEFINE S == {e \in Nat : Power(a, e) \in Units}
  <2>1. 0 \in S
    <3>1. Power(a, 0) = 1
      BY <1>1, PowerLaws
    <3>2. 1 \in Units
      BY GroupAssumption DEF Units
    <3> QED BY <3>1, <3>2
  <2>2. ASSUME NEW e \in S PROVE e + 1 \in S
    <3>1. Power(a, e + 1) = Times(a, Power(a, e))
      BY <1>1, PowerLaws
    <3> QED BY <1>3, <3>1
  <2>3. S \in SUBSET Nat
    OBVIOUS
  <2>4. S = Nat
    <3> HIDE DEF S
    <3> QED BY <2>1, <2>2, <2>3, SetInduction
  <2> QED BY <2>4
<1> QED BY <1>1, <1>2, <1>3, <1>4

\* Both statements of an OR-proof are units; that of the bit is the power of
\* the blinding.
LEMMA PointLaws ==
  ASSUME NEW bit \in {0, 1}, NEW e \in Nat, NEW C, C = PedersenCommit(bit, e)
  PROVE  /\ C \in Units
         /\ \A i \in {0, 1} : Point(C, i) \in Units
         /\ Point(C, bit) = Power(H, e)
<1> DEFINE x == Power(H, e)
<1>1. G \in Units /\ H \in Units /\ G \in Nat /\ G \in 0..(P - 1)
  BY GroupAssumption DEF Units
<1>2. x \in Units /\ x \in 0..(P - 1) /\ x \in Nat
  BY <1>1, UnitLaws
<1>3. C = Times(Power(G, bit), x) /\ \A i : Point(C, i) = IF i = 1 THEN Times(C, InverseOf(G)) ELSE C
  BY DEF PedersenCommit, Times, Point
<1> HIDE DEF x
<1>4. Power(G, 0) = 1
  BY <1>1, PowerLaws
<1>5. Power(G, 1) = G
  <2>1. Power(G, 0 + 1) = Times(G, Power(G, 0)) /\ 0 + 1 = 1
    BY <1>1, PowerLaws
  <2> QED BY <1>1, <1>4, <2>1, TimesLaws
<1>6. Times(1, x) = x
  BY <1>2, TimesLaws
<1>7. Times(Times(G, x), InverseOf(G)) = x
  BY <1>1, <1>2, UnitLaws
<1>8. C \in Units
  BY <1>1, <1>2, <1>3, <1>4, <1>5, <1>6, UnitLaws
<1>9. Times(C, InverseOf(G)) \in Units
  BY <1>1, <1>8, InverseLaws, UnitLaws
<1> QED BY <1>3, <1>4, <1>5, <1>6, <1>7, <1>8, <1>9 DEF x

\* The challenges of the two branches add up.
LEMMA ChallengesAddUp ==
  ASSUME NEW n \in Nat, n > 0, NEW hash \in 0..(n - 1), NEW c \in 1..(n - 1)
  PROVE  /\ (hash + n - c) % n \in 0..(n - 1)
         /\ (((hash + n - c) % n) + c) % n = hash
<1> DEFINE d == (hash + n - c) % n
<1>1. CASE hash >= c
  <2>1. hash - c \in 0..(n - 1) /\ n * 1 + (hash - c) = hash + n - c
    BY <1>1
  <2>2. d = hash - c
    BY <2>1, ModUnique
  <2>3. (n * 0 + hash) % n = hash /\ n * 0 + hash = hash
    BY ModUnique
  <2>4. d + c = hash
    BY <2>2
  <2> QED BY <2>1, <2>2, <2>3, <2>4
<1>2. CASE hash < c
  <2>1. hash + n - c \in 0..(n - 1) /\ n * 0 + (hash + n - c) = hash + n - c
    BY <1>2
  <2>2. d = hash + n - c
    BY <2>1, ModUnique
  <2>3. (n * 1 + hash) % n = hash /\ n * 1 + hash = hash + n
    BY ModUnique
  <2>4. d + c = hash + n
    BY <2>2
  <2> QED BY <2>1, <2>2, <2>3, <2>4
<1> QED BY <1>1, <1>2

\* The branch that is proved satisfies its equation.
LEMMA RealBranch ==
  ASSUME NEW b \in Units, NEW r \in Nat, NEW c \in Nat, NEW e \in Nat
  PROVE  Power(b, (r + c * e) % (P - 1)) = Times(Power(b, r), Power(Power(b, e), c))
<1> DEFINE m == e * c
<1>1. m \in Nat /\ c * e = m /\ r + m \in Nat /\ b \in Nat
  <2>1. b \in Nat
    BY UnitLaws
  <2>2. m \in Nat /\ c * e = m /\ r + m \in Nat
    OBVIOUS
  <2> QED BY <2>1, <2>2
<1>2. Power(b, m) = Power(Power(b, e), c)
  BY <1>1, PowerOfPower
<1> HIDE DEF m
<1>3. Power(b, (r + m) % (P - 1)) = Power(b, r + m)
  BY <1>1, PowerPeriod
<1>4. Power(b, r + m) = Times(Power(b, r), Power(b, m))
  BY <1>1, PowerLaws
<1> QED BY <1>1, <1>2, <1>3, <1>4

\* proof_engine.py, lines 194-201: whatever scalars the prover draws and whichever
\* branch is the real one, _verify_bit_proof accepts what _prove_bit makes.
THEOREM Completeness ==
  ASSUME NEW bit \in {0, 1}, NEW x \in Draws
  PROVE  VerifyBitProof(ProveBit(bit, x))
<1> DEFINE n == P - 1
           C == PedersenCommit(bit, x.blinding)
           D == Point(C, 1 - bit)
           real == Power(H, x.r)
           fake == (Power(H, x.resp) * InverseOf(Power(D, x.c))) % P
           hash == Hashed(C, bit, real, fake)
           c == (hash + n - x.c) % n
           resp == (x.r + c * x.blinding) % n
           proved == [t |-> real, c |-> c, resp |-> resp]
           simulated == [t |-> fake, c |-> x.c, resp |-> x.resp]
           branch == [b \in {0, 1} |-> IF b = bit THEN proved ELSE simulated]
           proof == [commitment |-> C, branch |-> branch]
<1>1. /\ x.blinding \in Nat /\ x.r \in Nat /\ x.c \in Nat /\ x.resp \in Nat
      /\ x.c \in 1..(n - 1) /\ n \in Nat /\ n > 0 /\ H \in Units /\ H \in Nat
  BY GroupAssumption DEF Draws, Scalars, Units
<1>2. ProveBit(bit, x) = proof
  BY DEF ProveBit
<1>3. C \in Units /\ D \in Units /\ Point(C, bit) = Power(H, x.blinding)
  <2>1. 1 - bit \in {0, 1}
    OBVIOUS
  <2> HIDE DEF C
  <2>2. C = PedersenCommit(bit, x.blinding)
    BY DEF C
  <2> QED BY <1>1, <2>1, <2>2, PointLaws
<1>4. real \in Nat /\ Power(H, x.resp) \in 0..(P - 1)
  BY <1>1, PowerLaws
<1> HIDE DEF C
<1>5. Power(D, x.c) \in Units
  BY <1>1, <1>3, UnitLaws
<1>6. fake = Times(Power(H, x.resp), InverseOf(Power(D, x.c)))
  BY DEF Times
<1>7. fake \in Nat /\ Power(H, x.resp) = (fake * Power(D, x.c)) % P
  <2>1. InverseOf(Power(D, x.c)) \in Nat
    BY <1>5, InverseLaws, UnitLaws
  <2>2. fake \in Nat
    BY <1>4, <1>6, <2>1, TimesLaws
  <2>3. Times(fake, Power(D, x.c)) = Power(H, x.resp)
    BY <1>4, <1>5, <1>6, UnitLaws
  <2> HIDE DEF fake, D
  <2> QED BY <2>2, <2>3 DEF Times
<1> HIDE DEF D, fake, real
<1>8. hash \in 0..(n - 1) /\ hash = Challenge(C, branch[0].t, branch[1].t)
  <2>1. C \in Nat
    BY <1>3, UnitLaws
  <2>2. \A t0, t1 \in Nat : Challenge(C, t0, t1) \in 0..(n - 1)
    <3> SUFFICES ASSUME NEW t0 \in Nat, NEW t1 \in Nat PROVE Challenge(C, t0, t1) \in 0..(n - 1)
      OBVIOUS
    <3>1. C + 2 * t0 + 3 * t1 \in Nat
      BY <2>1
    <3> QED BY <1>1, <3>1, DivMod DEF Challenge
  <2>3. hash = Challenge(C, branch[0].t, branch[1].t)
    BY DEF Hashed
  <2> QED BY <1>4, <1>7, <2>2, <2>3 DEF Hashed
<1> HIDE DEF hash
<1>9. c \in 0..(n - 1) /\ (c + x.c) % n = hash
  <2> HIDE DEF n
  <2> QED BY <1>1, <1>8, ChallengesAddUp
<1>10. c \in Nat /\ c + x.c = x.c + c
  BY <1>1, <1>9
<1> HIDE DEF c
<1>11. Power(H, resp) = (real * Power(Point(C, bit), c)) % P
  <2> DEFINE r == x.r
             e == x.blinding
  <2>1. H \in Units /\ r \in Nat /\ c \in Nat /\ e \in Nat
    BY <1>1, <1>10
  <2> HIDE DEF r, e, n
  <2>2. Power(H, (r + c * e) % (P - 1)) = Times(Power(H, r), Power(Power(H, e), c))
    BY ONLY <2>1, RealBranch
  <2>3. resp = (r + c * e) % (P - 1) /\ real = Power(H, r) /\ Point(C, bit) = Power(H, e)
    BY <1>3 DEF r, e, real, n
  <2> HIDE DEF resp
  <2> QED BY <2>2, <2>3 DEF Times
<1> HIDE DEF n, resp
<1>12. (branch[0].c + branch[1].c) % n = hash
  BY <1>9, <1>10
<1>13. ASSUME NEW i \in {0, 1}
       PROVE  Power(H, branch[i].resp) = (branch[i].t * Power(Point(C, i), branch[i].c)) % P
  <2>1. CASE i = bit
    BY <2>1, <1>11
  <2>2. CASE i # bit
    <3>1. i = 1 - bit
      BY <2>2
    <3> QED BY <2>2, <3>1, <1>7 DEF D
  <2> QED BY <2>1, <2>2
<1> HIDE DEF branch
<1> QED BY <1>2, <1>8, <1>12, <1>13 DEF VerifyBitProof, n

\* What the engine says of the proofs it makes, in the terms of ConsentFlow.
LEMMA EngineComplete == \A satisfied \in BOOLEAN : Judgements[satisfied] \subseteq {TRUE}
<1>1. ASSUME NEW bit \in {0, 1}, NEW x \in Draws PROVE VerifyBitProof(ProveBit(bit, x)) = TRUE
  <2>1. VerifyBitProof(ProveBit(bit, x))
    BY <1>1, Completeness
  <2> QED BY <2>1 DEF VerifyBitProof
<1> QED BY <1>1 DEF Judgements

-----------------------------------------------------------------------------
(* Types *)

\* The places of a handler, the documents and what else it can hold; what a
\* proof the engine made is found to be.
Ops == {"request", "approve", "deny", "revoke", "prove", "verify", "zk_verify"}
Names == Basic \cup Ops \cup {"log", "proof", "credential", "issuer", "signature", "judge", "end"}
Verdicts == {"unset", "yes"}
ConsentDocs == [status : Statuses, scopes : SUBSET Scopes, expires : BOOLEAN]
ProofDocs == [status : {"proof"}, scope : Scopes, satisfied : BOOLEAN,
              valid : Verdicts, expires : {TRUE}]
Profiles == [active : BOOLEAN, keyed : BOOLEAN]
Nobody == "none"
Events == [op : Ops, id : Consents \cup Proofs \cup {Nobody}, scopes : SUBSET Scopes]
Verifications == [consent : Consents \cup {Nobody}, scopes : SUBSET Scopes, result : Results]
Items == [id : Consents, val : ConsentDocs] \cup [id : Proofs, val : ProofDocs]
           \cup [id : {Issuer}, val : Profiles] \cup [id : {"audit"}, val : Events]
           \cup [id : {"verification"}, val : Verifications]
Locals == [consent : Consents \cup {Nobody}, proof : Proofs \cup {Nobody},
           scopes : SUBSET Scopes, result : Results, inForce : BOOLEAN]

\* Where a request is, or will be after its flush.
At(r) == IF r.pc = "flush" THEN r.then ELSE r.pc

\* The second object of a verification is the proof.
HoldsProof(r) == 2 \in DOMAIN r.session.objs /\ r.session.objs[2].id \in Proofs

\* What the local variables l of request r hold there.
Control(r, l) ==
  /\ At(r) \in {"idle", "proof", "credential", "issuer", "signature", "judge", "prove"}
  /\ r.pc # "idle" => r.op \in Ops
  /\ r.pc = "idle" => r.session.objs = <<>>
  /\ At(r) # "idle" => l.result = "none"
  /\ At(r) = "proof" => r.op = "verify" /\ Len(r.session.objs) = 1
  /\ At(r) \in {"credential", "issuer", "judge"} => r.op = "verify" /\ HoldsProof(r)
  /\ At(r) = "signature" => r.op = "prove" \/ (r.op = "verify" /\ HoldsProof(r))
  /\ At(r) = "prove" => r.op = "prove"
  /\ r.op \in {"prove", "verify"} => l.proof \in Proofs

\* The event e that must be on the trail before o is stored.
Needs(o, e) ==
  /\ o.id \in Consents
  /\ \/ o.val.status \in {"approved", "revoked"} /\ e = Event("approve", o.id, o.val.scopes)
     \/ o.val.status = "denied" /\ e = Event("deny", o.id, o.val.scopes)
     \/ o.val.status = "revoked" /\ e = Event("revoke", o.id, {})

\* The event e is the next thing request r will store.
Due(r, e) == r.pc = "flush" /\ NextObject(r) = AuditItem(e)

\* Every object of a request may be stored when its turn comes.
Reviewed(r, ins) ==
  \A n \in DOMAIN r.session.objs : \A e \in Events :
    Needs(r.session.objs[n], e) => <<"audit", e>> \in ins \/ Due(r, e)

\* A verification rests on an approval, unless it was denied.
Disclosed(r, l, ins) ==
  r.op = "verify" /\ l.result # "consent_denied"
    => <<"audit", Event("approve", l.consent, l.scopes)>> \in ins

\* The part of a handler with request r and local variables l, when the records
\* ins are stored.
HandlerOK(r, l, ins) ==
  /\ r \in Requests(Names, Items) /\ l \in Locals /\ Control(r, l)
  /\ Reviewed(r, ins)
  /\ Disclosed(r, l, ins)

\* The part of the database.
StoreOK(st, ins) ==
  /\ DOMAIN st = Consents \cup Proofs \cup {Credential, Issuer}
  /\ \A c \in Consents : st[c] \in ConsentDocs \cup {Absent}
  /\ \A p \in Proofs : st[p] \in ProofDocs \cup {Absent}
  /\ st[Credential] \in [status : {"active", "revoked"}]
  /\ st[Issuer] \in Profiles
  /\ \A c \in Consents : \A e \in Events :
       Needs([id |-> c, val |-> st[c]], e) => <<"audit", e>> \in ins

\* The first layer of the inductive invariant.
Inv ==
  /\ StoreOK(store, inserted)
  /\ req \in [Handlers -> Requests(Names, Items)] /\ local \in [Handlers -> Locals]
  /\ \A h \in Handlers : HandlerOK(req[h], local[h], inserted)

\* The order of ConsentStatus.
InOrderOf == {<<"pending", "approved">>, <<"pending", "denied">>, <<"approved", "revoked">>}

\* Handler h's object o of a consent is what is stored or follows it, or is out of date.
Current(h, o, st, sl) ==
  /\ st[o.id] # Absent => o.val.expires = st[o.id].expires
  /\ \/ <<h, o.id>> \in sl
     \/ st[o.id] \in {Absent, o.val}
     \/ <<st[o.id].status, o.val.status>> \in InOrderOf

\* A handler holds at most one consent, its own.
FreshAt(h, r, l, st, sl) ==
  \A n \in DOMAIN r.session.objs :
    r.session.objs[n].id \in Consents =>
      /\ r.session.objs[n].id = l.consent
      /\ Current(h, r.session.objs[n], st, sl)
      /\ \A m \in DOMAIN r.session.objs :
           r.session.objs[m].id \in Consents => r.session.objs[m] = r.session.objs[n]

\* The second layer.
Fresh ==
  /\ \A d \in expired : d \in Consents \cup Proofs /\ Stored(d) /\ store[d].expires
  /\ \A h \in Handlers : FreshAt(h, req[h], local[h], store, stale)
  /\ \A c \in Consents : ~Stored(c) =>
       \A g, h \in Handlers : local[g].consent = c /\ local[h].consent = c => g = h

\* What was not in force when a verification began, and what it still can read;
\* the documents ex have expired.
LinearAt(r, l, st, ex) ==
  r.op = "verify" /\ ~l.inForce =>
    /\ At(r) = "proof" => l.proof \in ex \/ st[Credential].status = "revoked" \/ ~st[Issuer].active
    /\ At(r) = "credential" => st[Credential].status = "revoked" \/ ~st[Issuer].active
    /\ At(r) = "issuer" => ~st[Issuer].active
    /\ At(r) \notin {"signature", "judge"}
    /\ l.result # "valid"

\* The third layer.
Linear == undone = {} => \A h \in Handlers : LinearAt(req[h], local[h], store, expired)

\* A handler holds a proof with the scope that is stored, and one that is not
\* stored only if it is generating it.
ProofHeld(o, r, l, st) ==
  IF st[o.id] = Absent THEN r.op = "prove" /\ l.proof = o.id ELSE o.val.scope = st[o.id].scope

\* So for every proof it holds, and two copies agree.
ProofsHeld(r, l, st) ==
  \A n \in DOMAIN r.session.objs : r.session.objs[n].id \in Proofs =>
    /\ ProofHeld(r.session.objs[n], r, l, st)
    /\ \A m \in DOMAIN r.session.objs :
         r.session.objs[m].id = r.session.objs[n].id =>
           r.session.objs[m].val.scope = r.session.objs[n].val.scope

\* And what it verifies is stored, of a claim that one of the approved scopes
\* mentions.
ScopedAt(r, l, st) ==
  /\ ProofsHeld(r, l, st)
  /\ r.op = "prove" /\ At(r) # "idle" =>
       /\ st[l.proof] = Absent
       /\ \A n \in DOMAIN r.session.objs : r.session.objs[n].id \notin Proofs
  /\ r.op = "verify" /\ (At(r) \in {"credential", "issuer", "signature", "judge"} \/ l.result = "valid") =>
       st[l.proof] # Absent /\ Covered(st[l.proof].scope, l.scopes)

\* The fourth layer; a proof that is not stored is generated by one handler.
Scoped ==
  /\ \A h \in Handlers : ScopedAt(req[h], local[h], store)
  /\ \A p \in Proofs : ~Stored(p) =>
       \A g, h \in Handlers :
         /\ req[g].op = "prove" /\ local[g].proof = p
         /\ req[h].op = "prove" /\ local[h].proof = p
         => g = h

\* The names of this model cover those of every request.
LEMMA NamesBasic == Basic \subseteq Names
BY DEF Names

\* The id of an object tells what its value is.
LEMMA ItemFacts ==
  ASSUME NEW o \in Items
  PROVE  /\ o.id \in Consents => o.val \in ConsentDocs
         /\ o.id \in Proofs => o.val \in ProofDocs
         /\ o.id = Issuer => o.val \in Profiles
         /\ o.id \in Consents \cup Proofs \cup {Issuer, "audit", "verification"}
         /\ o = [id |-> o.id, val |-> o.val]
BY DocumentsAssumption DEF Items, Issuer

\* What may be held in a session.
LEMMA IsItem ==
  /\ \A c \in Consents : \A v \in ConsentDocs : [id |-> c, val |-> v] \in Items
  /\ \A p \in Proofs : \A v \in ProofDocs : [id |-> p, val |-> v] \in Items
  /\ \A v \in Profiles : [id |-> Issuer, val |-> v] \in Items
  /\ \A e \in Events : AuditItem(e) \in Items
  /\ \A v \in Verifications : [id |-> "verification", val |-> v] \in Items
BY DEF Items, AuditItem

\* The names of the other documents are those of no consent and no proof.
LEMMA OtherIds ==
  /\ Credential \notin Consents \cup Proofs /\ Issuer \notin Consents \cup Proofs
  /\ Credential # Issuer /\ Nobody \notin Consents \cup Proofs
  /\ "audit" \notin Consents \cup Proofs /\ "verification" \notin Consents \cup Proofs
  /\ \A p \in Proofs : p \notin Consents
BY DocumentsAssumption DEF Credential, Issuer, Nobody

\* What the invariant says of one handler and of the database.
LEMMA Facts ==
  ASSUME Inv
  PROVE  /\ StoreOK(store, inserted)
         /\ DOMAIN store = Consents \cup Proofs \cup {Credential, Issuer}
         /\ \A c \in Consents : Stored(c) => store[c] \in ConsentDocs
         /\ \A p \in Proofs : Stored(p) => store[p] \in ProofDocs
         /\ store[Issuer] \in Profiles
         /\ req \in [Handlers -> Requests(Names, Items)] /\ local \in [Handlers -> Locals]
         /\ \A h \in Handlers : /\ HandlerOK(req[h], local[h], inserted)
                                /\ req[h] \in Requests(Names, Items) /\ local[h] \in Locals
                                /\ req[h] \in Shape(Names, Items) /\ Sound(req[h])
                                /\ req[h].session \in Sessions(Items)
                                /\ Control(req[h], local[h])
<1>1. ASSUME NEW h \in Handlers
      PROVE  req[h] \in Shape(Names, Items) /\ Sound(req[h]) /\ req[h].session \in Sessions(Items)
  <2>1. req[h] \in Shape(Names, Items) /\ Sound(req[h])
    BY DEF Inv, HandlerOK, Requests
  <2> QED BY <2>1 DEF Shape
<1> QED BY <1>1 DEF Inv, StoreOK, HandlerOK, Stored

\* More records disturb no handler.
LEMMA Monotone ==
  ASSUME NEW r, NEW l, NEW ins, NEW ins2, HandlerOK(r, l, ins), ins \subseteq ins2
  PROVE  HandlerOK(r, l, ins2)
BY DEF HandlerOK, Reviewed, Disclosed

\* A step of one handler.
LEMMA Frame ==
  ASSUME Inv, NEW h \in Handlers, NEW r, NEW l,
         req' = [req EXCEPT ![h] = r], local' = [local EXCEPT ![h] = l],
         HandlerOK(r, l, inserted'), StoreOK(store', inserted'), inserted \subseteq inserted'
  PROVE  Inv'
<1>1. r \in Requests(Names, Items) /\ l \in Locals
  BY DEF HandlerOK
<1>2. req' \in [Handlers -> Requests(Names, Items)] /\ local' \in [Handlers -> Locals]
  BY <1>1 DEF Inv
<1>3. ASSUME NEW g \in Handlers PROVE HandlerOK(req'[g], local'[g], inserted')
  <2>1. CASE g = h
    BY <2>1 DEF Inv
  <2>2. CASE g # h
    <3>1. req'[g] = req[g] /\ local'[g] = local[g]
      BY <2>2 DEF Inv
    <3>2. HandlerOK(req[g], local[g], inserted')
      BY Monotone DEF Inv
    <3> QED BY <3>1, <3>2
  <2> QED BY <2>1, <2>2
<1> QED BY <1>2, <1>3 DEF Inv

\* A handler that does nothing holds nothing.
LEMMA IdleOK ==
  /\ \A ins : HandlerOK(Idle, NoLocals, ins)
  /\ Idle.session.objs = <<>> /\ Idle.op = "none" /\ Idle.pc = "idle" /\ NoLocals.consent = Nobody
  /\ Idle \in Requests(Names, Items) /\ NoLocals \in Locals
<1>1. /\ Idle \in Requests(Names, Items) /\ Idle.pc = "idle" /\ Idle.op = "none"
      /\ Idle.session.objs = <<>>
  BY IdleType, NamesBasic
<1>2. NoLocals \in Locals /\ NoLocals.consent = Nobody
  BY DEF NoLocals, Locals, Results, Nobody
<1>3. At(Idle) = "idle"
  BY <1>1 DEF At
<1>4. Control(Idle, NoLocals)
  BY <1>1, <1>3 DEF Control
<1>5. \A ins : Reviewed(Idle, ins) /\ Disclosed(Idle, NoLocals, ins)
  BY <1>1 DEF Reviewed, Disclosed
<1> QED BY <1>1, <1>2, <1>4, <1>5 DEF HandlerOK

\* The consents among the objects new are among old.
SameConsents(new, old) ==
  \A n \in DOMAIN new : new[n].id \in Consents => n \in DOMAIN old /\ new[n] = old[n]

\* The proofs among the objects new are among old.
SameProofs(new, old) ==
  \A n \in DOMAIN new : new[n].id \in Proofs => n \in DOMAIN old /\ new[n] = old[n]

\* An object that is no consent is added at the end.
LEMMA AppendSame ==
  ASSUME NEW g \in Seq(Items), NEW o \in Items, o.id \notin Consents, NEW q, q = Append(g, o)
  PROVE  /\ SameConsents(q, g) /\ StartsWith(q, g)
         /\ o.id \notin Proofs => SameProofs(q, g)
BY AppendFacts DEF SameConsents, SameProofs, StartsWith

\* The record of the verification that request r makes.
Verification(l) == [consent |-> l.consent, scopes |-> l.scopes, result |-> l.result]
EventOf(r, l) ==
  Event(r.op, IF l.consent = "none" \/ r.op = "verify" THEN l.proof ELSE l.consent, l.scopes)

\* What the end of a handler makes of it: its objects and the records are
\* stored, a consent's record before the consent.
LEMMA FinishFacts ==
  ASSUME NEW r \in Requests(Names, Items), r.op \in Ops, NEW l \in Locals, NEW f, f = Finish(r, l)
  PROVE  /\ f \in Requests(Names, Items) /\ f.op = r.op /\ f.pc = "flush" /\ f.then = "idle"
         /\ SameConsents(f.session.objs, r.session.objs) /\ SameProofs(f.session.objs, r.session.objs)
         /\ StartsWith(f.session.objs, r.session.objs)
         /\ r.op # "verify" /\ r.session.pending = <<>> => NextObject(f) = AuditItem(EventOf(r, l))
<1> DEFINE s == AddNew(r.session, "verification", Verification(l))
           a == IF r.op = "verify" THEN [r EXCEPT !.session = s] ELSE r
           ev == EventOf(r, l)
           pc == "idle"
<1>1. f = LogEvent(a, ev, pc)
  BY DEF Finish, EventOf, Verification
<1>2. ev \in Events /\ AuditItem(ev) \in Items /\ AuditItem(ev).id = "audit"
  <2>1. ev \in Events
    BY DEF EventOf, Event, Events, Locals, Nobody
  <2> HIDE DEF ev
  <2> QED BY <2>1, IsItem DEF AuditItem
<1>3. r \in Shape(Names, Items) /\ Sound(r) /\ r.session \in Sessions(Items)
  BY DEF Requests, Shape
<1>4. /\ a \in Requests(Names, Items) /\ a.op = r.op
      /\ SameConsents(a.session.objs, r.session.objs) /\ StartsWith(a.session.objs, r.session.objs)
      /\ SameProofs(a.session.objs, r.session.objs)
      /\ r.op # "verify" => a = r
  <2>1. CASE r.op = "verify"
    <3> DEFINE id == "verification"
               v == Verification(l)
               o == [id |-> id, val |-> v]
               g == r.session.objs
    <3>1. o \in Items /\ o.id \notin Consents /\ o.id \notin Proofs
      <4>1. v \in Verifications
        BY DEF Verification, Verifications, Locals, Nobody
      <4> HIDE DEF v
      <4> QED BY <4>1, IsItem, OtherIds
    <3>2. /\ s \in Sessions(Items) /\ s.objs = Append(g, o)
      <4> DEFINE t == r.session
      <4>1. o \in Items /\ t \in Sessions(Items) /\ s = AddNew(t, id, v)
        BY <1>3, <3>1
      <4> HIDE DEF id, v, t, s
      <4>2. s \in Sessions(Items) /\ s.objs = Append(t.objs, o)
        BY <4>1, AddNewType
      <4> QED BY <4>2 DEF t
    <3> HIDE DEF s, o
    <3>3. g \in Seq(Items)
      BY <1>3 DEF Sessions
    <3>4. SameConsents(s.objs, g) /\ StartsWith(s.objs, g) /\ SameProofs(s.objs, g)
      <4> HIDE DEF g
      <4> QED BY <3>1, <3>2, <3>3, AppendSame
    <3>5. a = [r EXCEPT !.session = s]
      BY <2>1
    <3> HIDE DEF a
    <3>6. /\ a \in Shape(Names, Items) /\ a.session = s /\ a.op = r.op /\ a.writing = r.writing
          /\ a.pc = r.pc /\ a.then = r.then
      BY <1>3, <3>2, <3>5 DEF Shape
    <3>7. Sound(a)
      BY <1>3, <3>4, <3>6 DEF Sound, StartsWith
    <3> QED BY <2>1, <3>4, <3>6, <3>7 DEF Requests
  <2>2. CASE r.op # "verify"
    BY <2>2 DEF SameConsents, SameProofs, StartsWith
  <2> QED BY <2>1, <2>2
<1> HIDE DEF s, a, ev
<1>5. pc \in Names /\ pc # "flush"
  BY DEF Names, Basic
<1> HIDE DEF pc
<1>6. Recording(Names, Items, a, ev, pc, f)
  BY <1>1, <1>2, <1>4, <1>5, LogEventType, NamesBasic
<1>7. /\ f \in Requests(Names, Items) /\ f.op = r.op /\ f.pc = "flush" /\ f.then = "idle"
      /\ f.session.objs = Append(a.session.objs, AuditItem(ev))
      /\ StartsWith(f.writing, Append(a.session.pending, Len(a.session.objs) + 1))
  BY <1>4, <1>6 DEF Recording, pc
<1> DEFINE new == f.session.objs
           old == a.session.objs
           o == AuditItem(ev)
<1>8. old \in Seq(Items) /\ new = Append(old, o) /\ o \in Items /\ o.id \notin Consents /\ o.id \notin Proofs
  <2>1. a.session \in Sessions(Items)
    BY <1>4 DEF Requests, Shape
  <2> QED BY <1>2, <1>7, <2>1, OtherIds DEF Sessions
<1> HIDE DEF new, old, o
<1>9. SameConsents(new, old) /\ StartsWith(new, old) /\ SameProofs(new, old)
  BY <1>8, AppendSame
<1>10. SameConsents(new, r.session.objs) /\ StartsWith(new, r.session.objs) /\ SameProofs(new, r.session.objs)
  BY <1>4, <1>9 DEF SameConsents, SameProofs, StartsWith, old
<1>11. ASSUME a.session.pending = <<>> PROVE NextObject(f) = o
  <2>1. Len(old) + 1 = Len(new) /\ new[Len(new)] = o
    BY <1>8, AppendFacts
  <2> DEFINE p == Append(a.session.pending, Len(a.session.objs) + 1)
  <2>2. 1 \in DOMAIN p /\ p[1] = Len(old) + 1
    BY <1>11 DEF old
  <2>3. f.writing[1] = Len(old) + 1
    BY <1>7, <2>2 DEF StartsWith
  <2>4. NextObject(f) = f.session.objs[f.writing[1]]
    BY <1>7, NextObjectType, NamesBasic
  <2> QED BY <2>1, <2>3, <2>4 DEF new
<1> QED BY <1>4, <1>7, <1>10, <1>11 DEF new, o, ev

\* Handler h starts with consent o, and nothing else of a consent.
Begun(h, o) ==
  /\ req' = [req EXCEPT ![h] = req'[h]] /\ local' = [local EXCEPT ![h] = local'[h]]
  /\ stale' = stale \ {<<h, o.id>>}
  /\ UNCHANGED <<store, inserted, expired, undone>>
  /\ local'[h].consent = o.id /\ req'[h].op # "prove"
  /\ \A n \in DOMAIN req'[h].session.objs :
       /\ req'[h].session.objs[n].id \in Consents => req'[h].session.objs[n] = o
       /\ req'[h].session.objs[n].id \notin Proofs

\* A handler that begins with a consent and stores the record it needs first.
LEMMA BeginOK ==
  ASSUME Inv, NEW h \in Handlers, NEW op \in Ops, op # "verify", op # "prove", NEW c \in Consents,
         NEW scopes \in SUBSET Scopes, NEW s \in Sessions(Items), s.pending = <<>> \/ op = "request",
         NEW o, o.id = c, \A n \in DOMAIN s.objs : s.objs[n] = o,
         \A e \in Events : Needs(o, e) =>
           <<"audit", e>> \in inserted \/ (op # "request" /\ e = Event(op, c, scopes)),
         Begin(h, op, s, c, scopes)
  PROVE  Inv' /\ Begun(h, o) /\ req'[h].op = op /\ req'[h].pc = "flush"
<1> DEFINE l == [NoLocals EXCEPT !.consent = c, !.scopes = scopes]
           r == Start(op, s, "log")
           f == Finish(r, l)
<1>1. /\ req' = [req EXCEPT ![h] = f] /\ local' = [local EXCEPT ![h] = l]
      /\ stale' = stale \ {<<h, c>>} /\ UNCHANGED <<store, inserted, expired, undone>>
  BY DEF Begin
<1>2. l \in Locals /\ l.consent = c /\ l.scopes = scopes /\ l.consent # "none" /\ l.result = "none"
  BY OtherIds DEF NoLocals, Locals, Results, Nobody
<1>3. r \in Requests(Names, Items) /\ r.session = s /\ r.op = op /\ r.pc = "log"
  <2>1. op \in Names /\ "log" \in Names
    BY DEF Names
  <2> QED BY <2>1, StartType, NamesBasic
<1> HIDE DEF l, r, f
<1>4. /\ f \in Requests(Names, Items) /\ f.op = op /\ f.pc = "flush" /\ f.then = "idle"
      /\ SameConsents(f.session.objs, s.objs) /\ SameProofs(f.session.objs, s.objs)
      /\ s.pending = <<>> => NextObject(f) = AuditItem(EventOf(r, l))
  BY <1>2, <1>3, FinishFacts DEF f
<1>5. EventOf(r, l) = Event(op, c, scopes)
  BY <1>2, <1>3 DEF EventOf
<1>6. \A n \in DOMAIN f.session.objs :
        /\ f.session.objs[n].id \in Consents => f.session.objs[n] = o
        /\ f.session.objs[n].id \notin Proofs
  BY <1>4, OtherIds DEF SameConsents, SameProofs
<1>7. Reviewed(f, inserted)
  <2> SUFFICES ASSUME NEW n \in DOMAIN f.session.objs, NEW e \in Events,
                      Needs(f.session.objs[n], e), <<"audit", e>> \notin inserted
               PROVE  Due(f, e)
    BY DEF Reviewed
  <2>1. Needs(o, e)
    BY <1>6 DEF Needs
  <2>2. op # "request" /\ e = Event(op, c, scopes)
    BY <2>1
  <2> QED BY <1>4, <1>5, <2>2 DEF Due
<1>8. Control(f, l)
  <2>1. At(f) = "idle"
    BY <1>4 DEF At
  <2> QED BY <1>2, <1>4, <2>1 DEF Control
<1>9. HandlerOK(f, l, inserted')
  BY <1>1, <1>2, <1>4, <1>7, <1>8 DEF HandlerOK, Disclosed
<1>10. Inv'
  BY <1>1, <1>9, Facts, Frame
<1>11. req'[h] = f /\ local'[h] = l
  BY <1>1, Facts
<1> QED BY <1>1, <1>2, <1>4, <1>6, <1>10, <1>11 DEF Begun

\* create_proof_request and request_consent add a pending consent.
LEMMA RequestOK ==
  ASSUME Inv, NEW h \in Handlers, NEW c \in Consents, NEW scopes \in SUBSET Scopes,
         NEW expires \in BOOLEAN, RequestConsent(h, c, scopes, expires)
  PROVE  /\ Inv' /\ req'[h].op = "request"
         /\ Begun(h, [id |-> c, val |-> [status |-> "pending", scopes |-> scopes, expires |-> expires]])
         /\ ~Stored(c) /\ ~Held(c)
<1> DEFINE v == [status |-> "pending", scopes |-> scopes, expires |-> expires]
           o == [id |-> c, val |-> v]
           s == AddNew(NoSession, c, v)
           op == "request"
<1>1. Begin(h, op, s, c, scopes) /\ ~Stored(c) /\ ~Held(c)
  BY DEF RequestConsent
<1>2. v \in ConsentDocs /\ \A e : ~Needs(o, e)
  BY DEF ConsentDocs, Statuses, Needs
<1> HIDE DEF v
<1>3. o \in Items /\ o.id = c
  BY <1>2, IsItem
<1>4. s \in Sessions(Items) /\ \A n \in DOMAIN s.objs : s.objs[n] = o
  <2> DEFINE t == NoSession
  <2>1. t \in Sessions(Items) /\ t.objs = <<>>
    BY NoSessionType DEF NoSession
  <2> HIDE DEF t
  <2>2. AddNew(t, c, v) \in Sessions(Items) /\ AddNew(t, c, v).objs = Append(t.objs, o)
    BY <1>3, <2>1, AddNewType
  <2> DEFINE q == AddNew(t, c, v).objs
             g == t.objs
  <2>3. q = Append(g, o) /\ g = <<>>
    BY <2>1, <2>2
  <2> HIDE DEF q, g, o
  <2>4. \A n \in DOMAIN q : q[n] = o
    BY <2>3
  <2> QED BY <2>2, <2>4 DEF t, q
<1>5. op \in Ops /\ op # "verify" /\ op # "prove"
  BY DEF Ops
<1> HIDE DEF s, o
<1>6. Inv' /\ Begun(h, o) /\ req'[h].op = op
  <2>1. \A e \in Events : ~Needs(o, e)
    BY <1>2 DEF o
  <2> QED BY <1>1, <1>3, <1>4, <1>5, <2>1, BeginOK DEF o
<1> QED BY <1>1, <1>6 DEF o, v

\* A change of a stored consent that needs no record but its own.
LEMMA AnswerOK ==
  ASSUME Inv, NEW h \in Handlers, NEW c \in Consents, Stored(c), NEW op \in {"approve", "deny", "revoke"},
         NEW scopes \in SUBSET Scopes, NEW new \in ConsentDocs,
         \A e \in Events : Needs([id |-> c, val |-> new], e) =>
           <<"audit", e>> \in inserted \/ e = Event(op, c, scopes),
         Begin(h, op, Assign(Fetch(NoSession, c, store[c]), 1, new), c, scopes)
  PROVE  Inv' /\ req'[h].op = op /\ Begun(h, [id |-> c, val |-> new])
<1> DEFINE val == store[c]
           s == Assign(Fetch(NoSession, c, val), 1, new)
           o == [id |-> c, val |-> new]
<1>1. [id |-> c, val |-> val] \in Items /\ o \in Items /\ o.id = c
  BY Facts, IsItem
<1> HIDE DEF val
<1>2. s \in Sessions(Items) /\ s.pending = <<>> /\ \A n \in DOMAIN s.objs : s.objs[n] = o
  BY <1>1, FirstObject
<1>3. op \in Ops /\ op # "verify" /\ op # "prove"
  BY DEF Ops
<1>4. Begin(h, op, s, c, scopes)
  BY DEF val
<1> HIDE DEF s, o
<1>5. \A e \in Events : Needs(o, e) =>
        <<"audit", e>> \in inserted \/ (op # "request" /\ e = Event(op, c, scopes))
  BY DEF o
<1> QED BY <1>1, <1>2, <1>3, <1>4, <1>5, BeginOK DEF o

\* An approval needs its record, with the scopes approved.
LEMMA ApproveOK ==
  ASSUME Inv, NEW h \in Handlers, NEW c \in Consents, Approve(h, c)
  PROVE  /\ Inv' /\ req'[h].op = "approve" /\ Stored(c)
         /\ \E new \in ConsentDocs : /\ Begun(h, [id |-> c, val |-> new])
                                     /\ new.expires = store[c].expires
                                     /\ <<store[c].status, new.status>> \in InOrderOf
<1>1. Stored(c) /\ store[c].status = "pending" /\ store[c] \in ConsentDocs
  BY Facts DEF Approve, Answerable
<1> DEFINE answer(scopes) == [store[c] EXCEPT !.status = "approved", !.scopes = scopes]
<1>2. PICK scopes \in Approvable(c) :
        Begin(h, "approve", Assign(Fetch(NoSession, c, store[c]), 1, answer(scopes)), c, scopes)
  BY DEF Approve
<1> DEFINE new == answer(scopes)
<1>3. scopes \in SUBSET Scopes
  BY <1>1 DEF Approvable, ConsentDocs
<1>4. new \in ConsentDocs /\ new.status = "approved" /\ new.scopes = scopes /\ new.expires = store[c].expires
  BY <1>1, <1>3 DEF ConsentDocs, Statuses
<1>5. Begin(h, "approve", Assign(Fetch(NoSession, c, store[c]), 1, new), c, scopes)
  BY <1>2
<1> HIDE DEF new
<1>6. \A e \in Events : Needs([id |-> c, val |-> new], e) => e = Event("approve", c, scopes)
  BY <1>4 DEF Needs
<1>7. Inv' /\ req'[h].op = "approve" /\ Begun(h, [id |-> c, val |-> new])
  BY <1>1, <1>3, <1>4, <1>5, <1>6, AnswerOK
<1> QED BY <1>1, <1>4, <1>7 DEF InOrderOf

\* A refusal needs its record, with the scopes asked for.
LEMMA DenyOK ==
  ASSUME Inv, NEW h \in Handlers, NEW c \in Consents, Deny(h, c)
  PROVE  /\ Inv' /\ req'[h].op = "deny" /\ Stored(c)
         /\ \E new \in ConsentDocs : /\ Begun(h, [id |-> c, val |-> new])
                                     /\ new.expires = store[c].expires
                                     /\ <<store[c].status, new.status>> \in InOrderOf
<1> DEFINE new == [store[c] EXCEPT !.status = "denied"]
           scopes == store[c].scopes
<1>1. Stored(c) /\ store[c].status = "pending" /\ store[c] \in ConsentDocs
  BY Facts DEF Deny, Answerable
<1>2. scopes \in SUBSET Scopes
  BY <1>1 DEF ConsentDocs
<1>3. new \in ConsentDocs /\ new.status = "denied" /\ new.scopes = scopes /\ new.expires = store[c].expires
  BY <1>1 DEF ConsentDocs, Statuses
<1>4. Begin(h, "deny", Assign(Fetch(NoSession, c, store[c]), 1, new), c, scopes)
  BY DEF Deny
<1> HIDE DEF new, scopes
<1>5. \A e \in Events : Needs([id |-> c, val |-> new], e) => e = Event("deny", c, scopes)
  BY <1>3 DEF Needs
<1>6. Inv' /\ req'[h].op = "deny" /\ Begun(h, [id |-> c, val |-> new])
  BY <1>1, <1>2, <1>3, <1>4, <1>5, AnswerOK
<1> QED BY <1>1, <1>3, <1>6 DEF InOrderOf

\* A revocation needs its record and that of the approval, which is stored.
LEMMA RevokeOK ==
  ASSUME Inv, NEW h \in Handlers, NEW c \in Consents, RevokeConsent(h, c)
  PROVE  /\ Inv' /\ req'[h].op = "revoke" /\ Stored(c)
         /\ \E new \in ConsentDocs : /\ Begun(h, [id |-> c, val |-> new])
                                     /\ new.expires = store[c].expires
                                     /\ <<store[c].status, new.status>> \in InOrderOf
<1> DEFINE new == [store[c] EXCEPT !.status = "revoked"]
           none == {}
<1>1. Stored(c) /\ store[c].status = "approved" /\ store[c] \in ConsentDocs
  BY Facts DEF RevokeConsent
<1>2. none \in SUBSET Scopes
  OBVIOUS
<1>3. new \in ConsentDocs /\ new.status = "revoked" /\ new.scopes = store[c].scopes
      /\ new.expires = store[c].expires
  BY <1>1 DEF ConsentDocs, Statuses
<1>4. Begin(h, "revoke", Assign(Fetch(NoSession, c, store[c]), 1, new), c, none)
  BY DEF RevokeConsent
<1> HIDE DEF new
<1>5. ASSUME NEW e \in Events, Needs([id |-> c, val |-> new], e)
      PROVE  <<"audit", e>> \in inserted \/ e = Event("revoke", c, none)
  <2>1. CASE e = Event("approve", c, store[c].scopes)
    <3>1. Needs([id |-> c, val |-> store[c]], e)
      BY <1>1, <2>1 DEF Needs
    <3> QED BY <3>1 DEF Inv, StoreOK
  <2> QED BY <1>3, <1>5, <2>1 DEF Needs
<1> HIDE DEF none
<1>6. Inv' /\ req'[h].op = "revoke" /\ Begun(h, [id |-> c, val |-> new])
  BY <1>1, <1>2, <1>3, <1>4, <1>5, AnswerOK
<1> QED BY <1>1, <1>3, <1>6 DEF InOrderOf

\* A step in the middle of handler h, which leaves the database and what h holds
\* of a consent alone.
Works(h) ==
  /\ req' = [req EXCEPT ![h] = req'[h]] /\ local' = [local EXCEPT ![h] = local'[h]]
  /\ UNCHANGED <<store, inserted, expired, stale, undone>>
  /\ req'[h].op = req[h].op
  /\ local'[h].consent = local[h].consent /\ local'[h].inForce = local[h].inForce
  /\ local'[h].proof = local[h].proof /\ local'[h].scopes = local[h].scopes
  /\ SameConsents(req'[h].session.objs, req[h].session.objs)

\* Such a step preserves the invariant.
LEMMA WorksOK ==
  ASSUME Inv, NEW h \in Handlers, Works(h), req[h].pc # "flush",
         req'[h] \in Requests(Names, Items), local'[h] \in Locals, Control(req'[h], local'[h]),
         local[h].result # "consent_denied"
  PROVE  Inv'
<1> DEFINE f == req'[h]
           k == local'[h]
<1>1. HandlerOK(req[h], local[h], inserted)
  BY DEF Inv
<1>2. req' = [req EXCEPT ![h] = f] /\ local' = [local EXCEPT ![h] = k] /\ UNCHANGED <<store, inserted>>
  BY DEF Works
<1>3. /\ f.op = req[h].op /\ k.consent = local[h].consent /\ k.scopes = local[h].scopes
      /\ SameConsents(f.session.objs, req[h].session.objs)
  BY DEF Works
<1>4. f \in Requests(Names, Items) /\ k \in Locals /\ Control(f, k)
  OBVIOUS
<1> HIDE DEF f
<1>5. Reviewed(f, inserted)
  <2> SUFFICES ASSUME NEW n \in DOMAIN f.session.objs, NEW e \in Events, Needs(f.session.objs[n], e)
               PROVE  <<"audit", e>> \in inserted
    BY DEF Reviewed
  <2>1. n \in DOMAIN req[h].session.objs /\ f.session.objs[n] = req[h].session.objs[n]
    BY <1>3 DEF SameConsents, Needs
  <2> QED BY <1>1, <2>1 DEF HandlerOK, Reviewed, Due
<1>6. Disclosed(f, k, inserted)
  BY <1>1, <1>3 DEF HandlerOK, Disclosed
<1>7. HandlerOK(f, k, inserted')
  BY <1>2, <1>4, <1>5, <1>6 DEF HandlerOK
<1> HIDE DEF k
<1> QED BY <1>2, <1>7, Facts, Frame

\* A request that has its result and ends, or goes on to pc.
After(q, l, pc) == IF l.result = "none" THEN [q EXCEPT !.pc = pc] ELSE Finish(q, l)

\* What becomes of a request that concludes or goes on.
LEMMA AfterFacts ==
  ASSUME NEW q \in Requests(Names, Items), q.op \in Ops, NEW l \in Locals,
         NEW pc \in Names, pc # "flush", NEW f, f = After(q, l, pc)
  PROVE  /\ f \in Requests(Names, Items) /\ f.op = q.op /\ (f.pc # "idle" \/ pc = "idle")
         /\ SameConsents(f.session.objs, q.session.objs) /\ SameProofs(f.session.objs, q.session.objs)
         /\ l.result = "none" => f.pc = pc /\ At(f) = pc /\ f.session = q.session
         /\ l.result # "none" => f.pc = "flush" /\ At(f) = "idle"
<1>1. CASE l.result = "none"
  <2>1. q \in Shape(Names, Items) /\ Sound(q)
    BY DEF Requests
  <2>2. f = [q EXCEPT !.pc = pc]
    BY <1>1 DEF After
  <2>3. f \in Shape(Names, Items) /\ f.op = q.op /\ f.pc = pc /\ f.session = q.session /\ f.writing = q.writing
    BY <2>1, <2>2 DEF Shape
  <2>4. f \in Requests(Names, Items)
    BY <2>1, <2>3 DEF Requests, Sound
  <2> QED BY <1>1, <2>3, <2>4 DEF At, SameConsents, SameProofs
<1>2. CASE l.result # "none"
  <2>1. f = Finish(q, l)
    BY <1>2 DEF After
  <2> QED BY <1>2, <2>1, FinishFacts DEF At
<1> QED BY <1>1, <1>2

\* A request with another session, which holds at least as many objects.
LEMMA WithSession ==
  ASSUME NEW r \in Requests(Names, Items), NEW s \in Sessions(Items),
         DOMAIN r.session.objs \subseteq DOMAIN s.objs, NEW q, q = [r EXCEPT !.session = s]
  PROVE  /\ q \in Requests(Names, Items) /\ q.session = s /\ q.op = r.op /\ q.pc = r.pc
         /\ q.then = r.then /\ q.writing = r.writing
<1>1. r \in Shape(Names, Items) /\ Sound(r)
  BY DEF Requests
<1>2. /\ q \in Shape(Names, Items) /\ q.session = s /\ q.op = r.op /\ q.pc = r.pc
      /\ q.then = r.then /\ q.writing = r.writing
  BY <1>1 DEF Shape
<1> QED BY <1>1, <1>2 DEF Requests, Sound

\* The places of verify_submitted_proof after it has read the consent.
Checks == {"proof", "credential", "issuer", "signature", "judge"}

\* A verification goes on, or has its result.
LEMMA ContinueOK ==
  ASSUME Inv, NEW h \in Handlers, req[h].pc \in Checks, req[h].op = "verify", NEW s \in Sessions(Items),
         DOMAIN req[h].session.objs \subseteq DOMAIN s.objs,
         SameConsents(s.objs, req[h].session.objs),
         NEW result \in Results, result # "consent_denied",
         NEW pc \in (Checks \ {"proof"}) \cup {"end"},
         result = "none" => pc # "end" /\ 2 \in DOMAIN s.objs /\ s.objs[2].id \in Proofs,
         Continue(h, s, result, pc), UNCHANGED <<store, inserted, expired, stale, undone>>
  PROVE  /\ Inv' /\ Works(h) /\ req'[h].op = "verify" /\ local'[h].result = result
         /\ At(req'[h]) = IF result = "none" THEN pc ELSE "idle"
         /\ SameProofs(req'[h].session.objs, s.objs)
<1> DEFINE r == req[h]
           l == local[h]
           q == [r EXCEPT !.session = s]
           k == [l EXCEPT !.result = result]
           f == After(q, k, pc)
<1>1. /\ r \in Requests(Names, Items) /\ l \in Locals /\ Control(r, l) /\ r.pc # "flush" /\ At(r) # "idle"
  <2>1. r.pc # "flush" /\ r.pc # "idle"
    BY DEF Checks
  <2> QED BY <2>1, Facts DEF At
<1>2. /\ q \in Requests(Names, Items) /\ q.session = s /\ q.op = "verify" /\ q.pc = r.pc
  BY <1>1, WithSession
<1>3. k \in Locals /\ k.result = result /\ k.consent = l.consent /\ k.scopes = l.scopes
      /\ k.inForce = l.inForce /\ k.proof = l.proof
  BY <1>1 DEF Locals
<1>4. req' = [req EXCEPT ![h] = f] /\ local' = [local EXCEPT ![h] = k]
  BY DEF Continue, Conclude, After
<1>5. req'[h] = f /\ local'[h] = k
  BY <1>4, Facts
<1>6. pc \in Names /\ pc # "flush" /\ pc # "idle" /\ "verify" \in Ops
  BY DEF Names, Checks, Ops
<1> HIDE DEF q, k, f
<1>7. /\ f \in Requests(Names, Items) /\ f.op = "verify" /\ f.pc # "idle"
      /\ SameConsents(f.session.objs, s.objs) /\ SameProofs(f.session.objs, s.objs)
      /\ result = "none" => f.pc = pc /\ At(f) = pc /\ f.session = s
      /\ result # "none" => f.pc = "flush" /\ At(f) = "idle"
  BY <1>2, <1>3, <1>6, AfterFacts DEF f
<1>8. Control(f, k)
  <2>1. l.proof \in Proofs
    BY <1>1 DEF Control
  <2> QED BY <1>3, <1>6, <1>7, <2>1 DEF Control, Checks, HoldsProof
<1>9. SameConsents(f.session.objs, r.session.objs)
  BY <1>7 DEF SameConsents
<1>10. l.result # "consent_denied"
  BY <1>1 DEF Control
<1>11. Works(h)
  BY <1>3, <1>4, <1>5, <1>7, <1>9 DEF Works
<1>12. Inv'
  BY <1>1, <1>3, <1>5, <1>7, <1>8, <1>10, <1>11, WorksOK
<1> QED BY <1>3, <1>5, <1>7, <1>11, <1>12

\* What is known of a verification in its middle.
LEMMA ChecksFacts ==
  ASSUME Inv, NEW h \in Handlers, req[h].pc \in Checks
  PROVE  /\ At(req[h]) = req[h].pc /\ req[h].pc # "flush" /\ local[h].result = "none"
         /\ req[h].pc # "signature" => req[h].op = "verify"
         /\ req[h].op = "verify" /\ req[h].pc # "proof" => HoldsProof(req[h])
         /\ req[h].pc = "proof" => Len(req[h].session.objs) = 1
         /\ req[h].op \in {"verify", "prove"}
<1>1. req[h].pc # "flush" /\ req[h].pc # "idle"
  BY DEF Checks
<1>2. At(req[h]) = req[h].pc /\ Control(req[h], local[h])
  BY <1>1, Facts DEF At
<1> QED BY <1>1, <1>2 DEF Control, Checks

\* The credential is read, and not kept.
LEMMA ReadCredentialOK ==
  ASSUME Inv, NEW h \in Handlers, ReadCredential(h)
  PROVE  /\ Inv' /\ Works(h) /\ req'[h].op = "verify" /\ local'[h].result # "valid"
         /\ At(req'[h]) = "idle" \/ (At(req'[h]) = "issuer" /\ store[Credential].status # "revoked")
         /\ SameProofs(req'[h].session.objs, req[h].session.objs)
<1> DEFINE result == IF store[Credential].status = "revoked" THEN "revoked" ELSE "none"
           s == req[h].session
           pc == "issuer"
<1>1. req[h].pc = "credential" /\ req[h].pc \in Checks
  BY DEF ReadCredential, Checks
<1>2. /\ s \in Sessions(Items) /\ DOMAIN req[h].session.objs \subseteq DOMAIN s.objs
      /\ SameConsents(s.objs, req[h].session.objs)
      /\ 2 \in DOMAIN s.objs /\ s.objs[2].id \in Proofs
  BY <1>1, ChecksFacts, Facts DEF SameConsents, HoldsProof
<1>3. result \in Results /\ result # "consent_denied" /\ result # "valid" /\ pc \in (Checks \ {"proof"}) \cup {"end"} /\ pc # "end"
  BY DEF Results, Checks
<1>4. Continue(h, s, result, pc) /\ UNCHANGED <<store, inserted, expired, stale, undone>>
  BY DEF ReadCredential
<1>5. result = "none" => store[Credential].status # "revoked"
  OBVIOUS
<1> HIDE DEF result, s
<1>6. /\ Inv' /\ Works(h) /\ req'[h].op = "verify" /\ local'[h].result = result
      /\ At(req'[h]) = IF result = "none" THEN pc ELSE "idle"
      /\ SameProofs(req'[h].session.objs, s.objs)
  BY <1>1, <1>2, <1>3, <1>4, ChecksFacts, ContinueOK
<1> QED BY <1>3, <1>5, <1>6 DEF s

\* The issuer's profile is read, and not kept.
LEMMA ReadIssuerOK ==
  ASSUME Inv, NEW h \in Handlers, ReadIssuer(h)
  PROVE  /\ Inv' /\ Works(h) /\ req'[h].op = "verify" /\ local'[h].result # "valid"
         /\ At(req'[h]) = "idle" \/ (At(req'[h]) = "signature" /\ store[Issuer].active)
         /\ SameProofs(req'[h].session.objs, req[h].session.objs)
<1> DEFINE result == IF IssuerKeyActive THEN "none" ELSE "invalid"
           s == req[h].session
           pc == "signature"
<1>1. req[h].pc = "issuer" /\ req[h].pc \in Checks
  BY DEF ReadIssuer, Checks
<1>2. /\ s \in Sessions(Items) /\ DOMAIN req[h].session.objs \subseteq DOMAIN s.objs
      /\ SameConsents(s.objs, req[h].session.objs)
      /\ 2 \in DOMAIN s.objs /\ s.objs[2].id \in Proofs
  BY <1>1, ChecksFacts, Facts DEF SameConsents, HoldsProof
<1>3. result \in Results /\ result # "consent_denied" /\ result # "valid" /\ pc \in (Checks \ {"proof"}) \cup {"end"} /\ pc # "end"
  BY DEF Results, Checks
<1>4. Continue(h, s, result, pc) /\ UNCHANGED <<store, inserted, expired, stale, undone>>
  BY DEF ReadIssuer
<1>5. result = "none" => store[Issuer].active
  BY DEF IssuerKeyActive
<1> HIDE DEF result, s
<1>6. /\ Inv' /\ Works(h) /\ req'[h].op = "verify" /\ local'[h].result = result
      /\ At(req'[h]) = IF result = "none" THEN pc ELSE "idle"
      /\ SameProofs(req'[h].session.objs, s.objs)
  BY <1>1, <1>2, <1>3, <1>4, ChecksFacts, ContinueOK
<1> QED BY <1>3, <1>5, <1>6 DEF s

\* A handler holds the proofs it held before, with their scopes, and others as
\* they are stored.
Learns(new, old) ==
  \A n \in DOMAIN new : new[n].id \in Proofs =>
    \/ \E m \in DOMAIN old : old[m].id = new[n].id /\ old[m].val.scope = new[n].val.scope
    \/ Stored(new[n].id) /\ new[n].val.scope = store[new[n].id].scope

\* The proof is read and becomes the second object.
LEMMA ReadProofOK ==
  ASSUME Inv, NEW h \in Handlers, ReadProof(h)
  PROVE  /\ Inv' /\ Works(h) /\ req'[h].op = "verify" /\ local'[h].result # "valid"
         /\ \/ At(req'[h]) = "idle"
            \/ /\ At(req'[h]) = "credential" /\ local[h].proof \notin expired
               /\ Stored(local[h].proof) /\ Covered(store[local[h].proof].scope, local[h].scopes)
         /\ Learns(req'[h].session.objs, req[h].session.objs)
<1> DEFINE p == local[h].proof
           s == req[h].session
           t == Fetch(s, p, store[p])
           result == IF p \in expired THEN "expired"
                     ELSE IF ~Covered(store[p].scope, local[h].scopes) THEN "invalid"
                     ELSE "none"
           end == "end"
           invalid == "invalid"
           pc == "credential"
<1>1. req[h].pc = "proof" /\ req[h].pc \in Checks
  BY DEF ReadProof, Checks
<1>2. /\ s \in Sessions(Items) /\ s.objs \in Seq(Items) /\ Len(s.objs) = 1 /\ req[h].op = "verify" /\ p \in Proofs
  BY <1>1, ChecksFacts, Facts DEF Control, Sessions
<1>3. UNCHANGED <<store, inserted, expired, stale, undone>>
  BY DEF ReadProof
<1>4. /\ result \in Results /\ result # "consent_denied" /\ result # "valid"
      /\ invalid \in Results /\ invalid # "consent_denied" /\ invalid # "valid" /\ invalid # "none"
      /\ end \in (Checks \ {"proof"}) \cup {"end"} /\ pc \in (Checks \ {"proof"}) \cup {"end"} /\ pc # "end"
  BY DEF Results, Checks
<1>5. \/ ~Stored(p) /\ Continue(h, s, invalid, end)
      \/ Stored(p) /\ Continue(h, t, result, pc)
  BY DEF ReadProof
<1>6. CASE ~Stored(p) /\ Continue(h, s, invalid, end)
  <2>1. SameConsents(s.objs, req[h].session.objs) /\ DOMAIN req[h].session.objs \subseteq DOMAIN s.objs
    BY DEF SameConsents
  <2> HIDE DEF s, invalid, end
  <2>2. /\ Inv' /\ Works(h) /\ req'[h].op = "verify" /\ local'[h].result = invalid
        /\ At(req'[h]) = IF invalid = "none" THEN end ELSE "idle"
        /\ SameProofs(req'[h].session.objs, s.objs)
    BY <1>1, <1>2, <1>3, <1>4, <1>6, <2>1, ContinueOK
  <2>3. Learns(req'[h].session.objs, req[h].session.objs)
    BY <2>2 DEF SameProofs, Learns, s
  <2> QED BY <1>4, <2>2, <2>3
<1>7. CASE Stored(p) /\ Continue(h, t, result, pc)
  <2> DEFINE v == store[p]
             o == [id |-> p, val |-> v]
             g == s.objs
  <2>1. o \in Items /\ o.id = p /\ p \notin Consents
    BY <1>2, <1>7, Facts, IsItem, OtherIds
  <2> HIDE DEF s, v, p
  <2>2. Fetch(s, p, v) \in Sessions(Items) /\ Fetch(s, p, v).objs = Append(g, o)
    BY <1>2, <2>1, FetchType
  <2>3. t = Fetch(s, p, v)
    BY DEF v
  <2> HIDE DEF t, o
  <2>4. t \in Sessions(Items) /\ t.objs = Append(g, o) /\ g \in Seq(Items) /\ Len(g) = 1
    BY <1>2, <2>2, <2>3
  <2>5. SameConsents(t.objs, g) /\ StartsWith(t.objs, g)
    <3> HIDE DEF g
    <3> QED BY <2>1, <2>4, AppendSame
  <2>6. 2 \in DOMAIN t.objs /\ t.objs[2] = o
    <3> DEFINE q == t.objs
    <3>1. q = Append(g, o) /\ g \in Seq(Items) /\ o \in Items
      BY <2>1, <2>4
    <3> HIDE DEF g, q
    <3>2. Len(g) = 1 => 2 \in DOMAIN q /\ q[2] = o
      BY <3>1, SecondFacts
    <3> QED BY <2>4, <3>2 DEF q
  <2>7. DOMAIN req[h].session.objs \subseteq DOMAIN t.objs /\ SameConsents(t.objs, req[h].session.objs)
    BY <2>5 DEF s, StartsWith
  <2>10. ASSUME result = "none" PROVE p \notin expired /\ Covered(store[p].scope, local[h].scopes)
    BY <2>10
  <2>11. \A n \in DOMAIN t.objs : t.objs[n] = o \/ (n \in DOMAIN g /\ t.objs[n] = g[n])
    BY <2>4, AppendFacts
  <2> HIDE DEF result, pc
  <2>8. result = "none" => pc # "end" /\ 2 \in DOMAIN t.objs /\ t.objs[2].id \in Proofs
    BY <1>2, <1>4, <2>1, <2>6
  <2>9. /\ Inv' /\ Works(h) /\ req'[h].op = "verify" /\ local'[h].result = result
        /\ At(req'[h]) = IF result = "none" THEN pc ELSE "idle"
        /\ SameProofs(req'[h].session.objs, t.objs)
    BY ZenonT(60), <1>1, <1>2, <1>3, <1>4, <1>7, <2>4, <2>7, <2>8, ContinueOK
  <2>12. o.id = p /\ o.val.scope = store[p].scope
    BY DEF o, v
  <2>13. Learns(req'[h].session.objs, req[h].session.objs)
    <3>1. ASSUME NEW n \in DOMAIN req'[h].session.objs, req'[h].session.objs[n].id \in Proofs
          PROVE  \/ req'[h].session.objs[n] = o
                 \/ n \in DOMAIN req[h].session.objs /\ req'[h].session.objs[n] = req[h].session.objs[n]
      BY <2>9, <2>11, <3>1 DEF SameProofs, g, s
    <3> QED BY <1>7, <2>12, <3>1 DEF Learns
  <2> QED BY <1>4, <1>7, <2>9, <2>10, <2>13 DEF pc, p
<1> QED BY <1>5, <1>6, <1>7

\* The signature is checked; a profile without a key becomes one more object.
LEMMA CheckSignatureOK ==
  ASSUME Inv, NEW h \in Handlers, CheckSignature(h)
  PROVE  /\ Inv' /\ Works(h) /\ local'[h].result # "valid"
         /\ At(req'[h]) \in {"idle", "judge", "prove"}
         /\ SameProofs(req'[h].session.objs, req[h].session.objs)
<1> DEFINE r == req[h]
           s == r.session
           val == store[Issuer]
           new == [val EXCEPT !.keyed = TRUE]
           got == Fetch(s, Issuer, val)
           keyed == Assign(got, Newest(got), new)
           checked == IF val.keyed THEN s ELSE keyed
           q == [r EXCEPT !.session = checked]
           next == IF r.op = "verify" THEN "judge" ELSE "prove"
           f == Flush(q, next)
<1>1. r.pc = "signature" /\ r.pc \in Checks
  BY DEF CheckSignature, Checks
<1>2. /\ r \in Requests(Names, Items) /\ s \in Sessions(Items) /\ r.pc # "flush" /\ At(r) = "signature"
      /\ r.op \in {"verify", "prove"} /\ (r.op = "verify" => HoldsProof(r)) /\ Control(r, local[h])
      /\ local[h].result = "none" /\ local[h] \in Locals
  BY <1>1, ChecksFacts, Facts
<1>3. UNCHANGED <<store, inserted, expired, stale, undone>>
  BY DEF CheckSignature
<1>4. CASE r.op = "verify" /\ Continue(h, s, "invalid", "end")
  <2> DEFINE result == "invalid"
             pc == "end"
  <2>1. SameConsents(s.objs, r.session.objs) /\ DOMAIN r.session.objs \subseteq DOMAIN s.objs
    BY DEF SameConsents
  <2>2. /\ result \in Results /\ result # "consent_denied" /\ result # "none" /\ result # "valid"
        /\ pc \in (Checks \ {"proof"}) \cup {"end"} /\ Continue(h, s, result, pc)
    BY <1>4 DEF Results
  <2> HIDE DEF s, result, pc
  <2>3. /\ Inv' /\ Works(h) /\ req'[h].op = "verify" /\ local'[h].result = result
        /\ At(req'[h]) = IF result = "none" THEN pc ELSE "idle"
        /\ SameProofs(req'[h].session.objs, s.objs)
    BY <1>1, <1>2, <1>3, <1>4, <2>1, <2>2, ContinueOK
  <2> QED BY <2>2, <2>3 DEF s
<1>5. CASE req' = [req EXCEPT ![h] = f] /\ UNCHANGED local
  <2>1. /\ checked \in Sessions(Items) /\ SameConsents(checked.objs, s.objs)
        /\ SameProofs(checked.objs, s.objs) /\ StartsWith(checked.objs, s.objs)
    <3>1. CASE val.keyed
      BY <1>2, <3>1 DEF SameConsents, SameProofs, StartsWith
    <3>2. CASE ~val.keyed
      <4>1. val \in Profiles
        BY Facts
      <4>2. new \in Profiles
        BY <4>1 DEF Profiles
      <4> DEFINE id == Issuer
                 o == [id |-> id, val |-> new]
      <4>3. [id |-> id, val |-> val] \in Items /\ o \in Items /\ o.id \notin Consents /\ o.id \notin Proofs
        BY <4>1, <4>2, IsItem, OtherIds
      <4> HIDE DEF s, val, new, id
      <4>4. /\ keyed \in Sessions(Items) /\ OnlyAdds(keyed.objs, s.objs, o) /\ StartsWith(keyed.objs, s.objs)
        <5>1. got = Fetch(s, id, val)
          BY DEF id
        <5> HIDE DEF got
        <5> QED BY <1>2, <4>3, <5>1, FetchAssignType
      <4> HIDE DEF o, keyed
      <4>5. SameConsents(keyed.objs, s.objs) /\ SameProofs(keyed.objs, s.objs)
        BY <4>3, <4>4 DEF OnlyAdds, SameConsents, SameProofs
      <4> QED BY <3>2, <4>4, <4>5
    <3> QED BY <3>1, <3>2
  <2> HIDE DEF checked
  <2>2. /\ q \in Requests(Names, Items) /\ q.session = checked /\ q.op = r.op /\ q.pc = r.pc
    <3>1. DOMAIN r.session.objs \subseteq DOMAIN checked.objs
      BY <2>1 DEF StartsWith
    <3> QED BY <1>2, <2>1, <3>1, WithSession
  <2>3. next \in {"judge", "prove"} /\ next \in Names /\ next # "flush"
    BY DEF Names, Ops
  <2> HIDE DEF next, q
  <2>4. f \in Requests(Names, Items) /\ f.session = q.session /\ f.op = q.op
        /\ (f.pc = next \/ (f.pc = "flush" /\ f.then = next))
    BY <2>2, <2>3, FlushType, NamesBasic
  <2> HIDE DEF f
  <2>5. req'[h] = f /\ local'[h] = local[h] /\ At(f) = next /\ f.pc # "idle" /\ f.op = r.op
    BY <1>5, <2>2, <2>3, <2>4, Facts DEF At
  <2>6. local' = [local EXCEPT ![h] = local'[h]]
    BY <1>5, Facts
  <2>7. Control(f, local[h])
    <3>1. r.op = "verify" => HoldsProof(f)
      BY <1>2, <2>1, <2>2, <2>4 DEF HoldsProof, StartsWith
    <3> QED BY <1>2, <2>5, <3>1 DEF Control, Ops, next
  <2>8. SameConsents(f.session.objs, r.session.objs) /\ SameProofs(f.session.objs, r.session.objs)
    BY <2>1, <2>2, <2>4
  <2>9. Works(h)
    BY <1>3, <1>5, <2>5, <2>6, <2>8 DEF Works
  <2>10. Inv'
    BY <1>2, <2>4, <2>5, <2>7, <2>9, WorksOK
  <2> QED BY <1>2, <2>3, <2>5, <2>8, <2>9, <2>10
<1>6. \/ r.op = "verify" /\ Continue(h, s, "invalid", "end")
      \/ req' = [req EXCEPT ![h] = f] /\ UNCHANGED local
  BY DEF CheckSignature
<1> QED BY <1>4, <1>5, <1>6

\* A proof with its judgement is a proof.
LEMMA JudgedType ==
  ASSUME NEW proof \in ProofDocs, NEW valid \in Judgements[proof.satisfied]
  PROVE  Judged(proof, valid) \in ProofDocs /\ Judged(proof, valid).scope = proof.scope
<1>1. valid = TRUE
  BY EngineComplete DEF ProofDocs
<1>2. (IF valid THEN "yes" ELSE "no") \in Verdicts
  BY <1>1 DEF Verdicts
<1> QED BY <1>2 DEF Judged, ProofDocs

\* The proof is judged, and the outcome is noted in the second object.
LEMMA JudgeOK ==
  ASSUME Inv, NEW h \in Handlers, Judge(h)
  PROVE  /\ Inv' /\ Works(h) /\ req'[h].op = "verify" /\ At(req'[h]) = "idle" /\ req[h].pc = "judge"
         /\ Learns(req'[h].session.objs, req[h].session.objs)
<1> DEFINE s == req[h].session
           proof == ValOf(s, 2)
           pc == "end"
<1>1. req[h].pc = "judge" /\ req[h].pc \in Checks
  BY DEF Judge, Checks
<1>2. /\ s \in Sessions(Items) /\ s.objs \in Seq(Items) /\ req[h].op = "verify"
      /\ 2 \in DOMAIN s.objs /\ s.objs[2].id \in Proofs
  BY <1>1, ChecksFacts, Facts DEF Sessions, HoldsProof
<1>3. PICK valid \in Judgements[proof.satisfied] :
        Continue(h, Assign(s, 2, Judged(proof, valid)), IF valid /\ proof.satisfied THEN "valid" ELSE "invalid", pc)
  BY DEF Judge
<1> DEFINE result == IF valid /\ proof.satisfied THEN "valid" ELSE "invalid"
           new == Judged(proof, valid)
           n == 2
           a == Assign(s, n, new)
           o == WithVal(s.objs[2], new)
<1>4. result \in Results /\ result # "consent_denied" /\ result # "none"
      /\ pc \in (Checks \ {"proof"}) \cup {"end"}
  BY DEF Results
<1>5. Continue(h, a, result, pc) /\ UNCHANGED <<store, inserted, expired, stale, undone>>
  BY <1>3 DEF Judge
<1>6. o \in Items /\ o.id = s.objs[2].id /\ o.val.scope = s.objs[2].val.scope
  <2>1. s.objs[2] \in Items
    BY <1>2
  <2>2. s.objs[2].val \in ProofDocs /\ s.objs[2] = [id |-> s.objs[2].id, val |-> s.objs[2].val]
    BY <1>2, <2>1, ItemFacts
  <2>3. proof \in ProofDocs /\ proof = s.objs[2].val
    BY <2>2 DEF ValOf
  <2> HIDE DEF proof
  <2>4. new \in ProofDocs /\ new.scope = proof.scope
    BY <2>3, JudgedType
  <2> HIDE DEF new
  <2>5. o = [id |-> s.objs[2].id, val |-> new]
    BY <2>2 DEF WithVal
  <2> QED BY <1>2, <2>3, <2>4, <2>5, IsItem
<1> HIDE DEF result, new, s, o, pc
<1>7. a \in Sessions(Items) /\ a.objs = WithObject(s.objs, n, o)
  <2>1. n \in DOMAIN s.objs /\ o = WithVal(s.objs[n], new)
    BY <1>2 DEF o
  <2> HIDE DEF n
  <2> QED BY <1>2, <1>6, <2>1, AssignType
<1> HIDE DEF a
<1>8. /\ DOMAIN a.objs = DOMAIN s.objs
      /\ \A m \in DOMAIN s.objs : a.objs[m] = IF m = 2 THEN o ELSE s.objs[m]
  BY <1>2, <1>7 DEF WithObject
<1>9. SameConsents(a.objs, s.objs)
  BY <1>2, <1>6, <1>8, OtherIds DEF SameConsents
<1>10. /\ Inv' /\ Works(h) /\ req'[h].op = "verify" /\ local'[h].result = result
       /\ At(req'[h]) = IF result = "none" THEN pc ELSE "idle"
       /\ SameProofs(req'[h].session.objs, a.objs)
  <2>1. DOMAIN req[h].session.objs \subseteq DOMAIN a.objs /\ SameConsents(a.objs, req[h].session.objs)
    BY <1>8, <1>9 DEF s
  <2> QED BY <1>1, <1>2, <1>4, <1>5, <1>7, <2>1, ContinueOK
<1>11. Learns(req'[h].session.objs, req[h].session.objs)
  <2> SUFFICES ASSUME NEW i \in DOMAIN req'[h].session.objs, req'[h].session.objs[i].id \in Proofs
               PROVE  \E m \in DOMAIN s.objs :
                        /\ s.objs[m].id = req'[h].session.objs[i].id
                        /\ s.objs[m].val.scope = req'[h].session.objs[i].val.scope
    BY DEF Learns, s
  <2>1. i \in DOMAIN s.objs /\ req'[h].session.objs[i] = IF i = 2 THEN o ELSE s.objs[i]
    BY <1>8, <1>10 DEF SameProofs
  <2> QED BY <1>6, <2>1
<1> QED BY <1>1, <1>4, <1>10, <1>11

\* The proof is generated and added.
LEMMA AddProofOK ==
  ASSUME Inv, NEW h \in Handlers, AddProof(h)
  PROVE  /\ Inv' /\ Works(h) /\ req'[h].op = "prove" /\ At(req[h]) = "prove" /\ At(req'[h]) = "idle"
         /\ \E o :
              /\ o.id = local[h].proof
              /\ \A n \in DOMAIN req'[h].session.objs : req'[h].session.objs[n].id \in Proofs =>
                   \/ req'[h].session.objs[n] = o
                   \/ n \in DOMAIN req[h].session.objs
                      /\ req'[h].session.objs[n] = req[h].session.objs[n]
<1> DEFINE r == req[h]
           l == local[h]
           s == r.session
           p == l.proof
<1>1. r.pc = "prove"
  BY DEF AddProof
<1>2. /\ r \in Requests(Names, Items) /\ s \in Sessions(Items) /\ s.objs \in Seq(Items) /\ l \in Locals
      /\ Control(r, l) /\ At(r) = "prove" /\ l.result = "none" /\ r.op = "prove" /\ p \in Proofs
  <2>1. At(r) = "prove" /\ Control(r, l) /\ r.pc # "flush" /\ r.pc # "idle"
    BY <1>1, Facts DEF At
  <2> QED BY <2>1, Facts DEF Control, Sessions
<1>3. PICK scope \in l.scopes, satisfied \in BOOLEAN :
        req' = [req EXCEPT ![h] = Finish([req[h] EXCEPT !.session = AddNew(@, p, ProofRecord(scope, satisfied))], l)]
  BY DEF AddProof
<1> DEFINE v == ProofRecord(scope, satisfied)
           o == [id |-> p, val |-> v]
           t == AddNew(s, p, v)
           q == [r EXCEPT !.session = t]
           f == Finish(q, l)
<1>4. req' = [req EXCEPT ![h] = f] /\ UNCHANGED <<store, inserted, expired, local, stale, undone>>
  BY <1>3 DEF AddProof
<1>5. o \in Items /\ o.id \notin Consents /\ o.id = p
  <2>1. v \in ProofDocs
    BY <1>2 DEF ProofRecord, ProofDocs, Locals, Verdicts
  <2> HIDE DEF v
  <2> QED BY <1>2, <2>1, IsItem, OtherIds
<1>6. t \in Sessions(Items) /\ t.objs = Append(s.objs, o)
  <2> HIDE DEF v, s, p
  <2> QED BY <1>2, <1>5, AddNewType
<1> HIDE DEF o, t
<1>7. SameConsents(t.objs, s.objs) /\ StartsWith(t.objs, s.objs)
      /\ \A n \in DOMAIN t.objs : t.objs[n] = o \/ (n \in DOMAIN s.objs /\ t.objs[n] = s.objs[n])
  <2> DEFINE new == t.objs
             old == s.objs
  <2>1. old \in Seq(Items) /\ new = Append(old, o) /\ o \in Items /\ o.id \notin Consents
    BY <1>2, <1>5, <1>6
  <2> HIDE DEF new, old
  <2>2. SameConsents(new, old) /\ StartsWith(new, old)
    BY <2>1, AppendSame
  <2>3. \A n \in DOMAIN new : new[n] = o \/ (n \in DOMAIN old /\ new[n] = old[n])
    BY <2>1, AppendFacts
  <2> QED BY <2>2, <2>3 DEF new, old
<1>8. q \in Requests(Names, Items) /\ q.session = t /\ q.op = "prove"
  <2>1. DOMAIN r.session.objs \subseteq DOMAIN t.objs
    BY <1>7 DEF StartsWith
  <2> QED BY <1>2, <1>6, <2>1, WithSession
<1> HIDE DEF q
<1>9. "prove" \in Ops
  BY DEF Ops
<1>10. /\ f \in Requests(Names, Items) /\ f.op = "prove" /\ f.pc = "flush" /\ f.then = "idle"
       /\ SameConsents(f.session.objs, t.objs) /\ SameProofs(f.session.objs, t.objs)
  BY <1>2, <1>8, <1>9, FinishFacts
<1>11. req'[h] = f /\ local'[h] = l /\ local' = [local EXCEPT ![h] = local'[h]]
  BY <1>4, Facts
<1> HIDE DEF f
<1>12. Control(f, l)
  <2>1. At(f) = "idle"
    BY <1>10 DEF At
  <2> QED BY <1>2, <1>9, <1>10, <2>1 DEF Control
<1>13. SameConsents(f.session.objs, s.objs)
  BY <1>7, <1>10 DEF SameConsents
<1>14. Works(h)
  BY <1>2, <1>4, <1>10, <1>11, <1>13 DEF Works
<1>15. Inv'
  BY <1>1, <1>2, <1>10, <1>11, <1>12, <1>14, WorksOK
<1>16. \A n \in DOMAIN f.session.objs : f.session.objs[n].id \in Proofs =>
         f.session.objs[n] = o \/ (n \in DOMAIN s.objs /\ f.session.objs[n] = s.objs[n])
  BY <1>7, <1>10 DEF SameProofs
<1>17. At(f) = "idle"
  BY <1>10 DEF At
<1> QED BY <1>2, <1>5, <1>10, <1>11, <1>14, <1>15, <1>16, <1>17 DEF s, p

\* Handler h starts without a consent.
BegunWithout(h) ==
  /\ req' = [req EXCEPT ![h] = req'[h]] /\ local' = [local EXCEPT ![h] = local'[h]]
  /\ UNCHANGED <<store, inserted, expired, stale, undone>>
  /\ local'[h].consent = Nobody /\ req'[h].op # "verify"
  /\ \A n \in DOMAIN req'[h].session.objs : req'[h].session.objs[n].id \notin Consents
  /\ Learns(req'[h].session.objs, <<>>)
  /\ req'[h].op = "prove" => /\ ~Stored(local'[h].proof) /\ ~Held(local'[h].proof)
                             /\ DOMAIN req'[h].session.objs = {}

\* The generation of a proof, with or without the issuer's signature, starts
\* with nothing held.
LEMMA GenerateOK ==
  ASSUME Inv, NEW h \in Handlers, NEW p \in Proofs, NEW scope \in Scopes, NEW pc \in {"signature", "prove"},
         Generate(h, p, scope, pc)
  PROVE  Inv' /\ BegunWithout(h)
<1> DEFINE l == [NoLocals EXCEPT !.proof = p, !.scopes = {scope}]
           op == "prove"
           s == NoSession
           f == Start(op, s, pc)
<1>1. /\ req' = [req EXCEPT ![h] = f] /\ local' = [local EXCEPT ![h] = l]
      /\ UNCHANGED <<store, inserted, expired, stale, undone>>
  BY DEF Generate
<1>2. l \in Locals /\ l.consent = Nobody /\ l.proof = p /\ l.result = "none"
  BY DEF NoLocals, Locals, Results, Nobody
<1>3. s \in Sessions(Items) /\ s.objs = <<>>
  BY NoSessionType DEF NoSession
<1>4. op \in Names /\ pc \in Names /\ pc # "flush" /\ op \in Ops /\ op = "prove"
  BY DEF Names, Ops
<1> HIDE DEF op, s, l, f
<1>5. f \in Requests(Names, Items) /\ f.session = s /\ f.op = "prove" /\ f.pc = pc /\ f.op \in Ops
  <2>1. f \in Requests(Names, Items) /\ f.session = s /\ f.op = op /\ f.pc = pc
    BY <1>3, <1>4, StartType, NamesBasic DEF f
  <2> QED BY <1>4, <2>1
<1>6. At(f) = pc
  BY <1>4, <1>5 DEF At
<1>7. Control(f, l)
  BY <1>2, <1>5, <1>6 DEF Control
<1>8. \A n \in DOMAIN f.session.objs : FALSE
  BY <1>3, <1>5
<1>9. HandlerOK(f, l, inserted')
  BY <1>2, <1>5, <1>7, <1>8 DEF HandlerOK, Reviewed, Disclosed
<1>10. Inv'
  BY <1>1, <1>9, Facts, Frame
<1>11. req'[h] = f /\ local'[h] = l
  BY <1>1, Facts
<1>12. ~Stored(p) /\ ~Held(p) /\ DOMAIN f.session.objs = {}
  BY <1>3, <1>5 DEF Generate
<1>13. Learns(f.session.objs, <<>>)
  BY <1>8 DEF Learns
<1> QED BY <1>1, <1>2, <1>5, <1>8, <1>10, <1>11, <1>12, <1>13 DEF BegunWithout

\* zk_verify_proof notes its judgement in the proof.
LEMMA ZkVerifyProofOK ==
  ASSUME Inv, NEW h \in Handlers, NEW p \in Proofs, ZkVerifyProof(h, p)
  PROVE  Inv' /\ BegunWithout(h)
<1> DEFINE val == store[p]
           l == [NoLocals EXCEPT !.proof = p]
           op == "zk_verify"
           pc == "log"
<1>1. PICK valid \in Judgements[val.satisfied] :
        req' = [req EXCEPT ![h] =
                  Finish(Start(op, Assign(Fetch(NoSession, p, val), 1, Judged(val, valid)), pc), l)]
  BY DEF ZkVerifyProof
<1> DEFINE new == Judged(val, valid)
           s == Assign(Fetch(NoSession, p, val), 1, new)
           r == Start(op, s, pc)
           f == Finish(r, l)
           o == [id |-> p, val |-> new]
<1>2. /\ req' = [req EXCEPT ![h] = f] /\ local' = [local EXCEPT ![h] = l]
      /\ UNCHANGED <<store, inserted, expired, stale, undone>>
  BY <1>1 DEF ZkVerifyProof
<1>3. l \in Locals /\ l.consent = Nobody /\ l.proof = p /\ l.result = "none"
  BY DEF NoLocals, Locals, Results, Nobody
<1>4. val \in ProofDocs /\ Stored(p) /\ val = store[p]
  BY Facts DEF ZkVerifyProof
<1> HIDE DEF val, l
<1>5. new \in ProofDocs /\ new.scope = val.scope
  BY <1>4, JudgedType
<1> HIDE DEF new
<1>6. [id |-> p, val |-> val] \in Items /\ o \in Items /\ o.id \notin Consents
      /\ o.id = p /\ o.val.scope = store[p].scope
  BY <1>4, <1>5, IsItem, OtherIds
<1>7. s \in Sessions(Items) /\ \A n \in DOMAIN s.objs : s.objs[n] = o
  BY <1>6, FirstObject
<1>8. op \in Names /\ pc \in Names /\ pc # "flush" /\ op \in Ops /\ op # "verify" /\ op # "prove"
  BY DEF Names, Ops
<1> HIDE DEF op, pc, s, r, o
<1>9. r \in Requests(Names, Items) /\ r.session = s /\ r.op = op
  BY <1>7, <1>8, StartType, NamesBasic DEF r
<1>10. /\ f \in Requests(Names, Items) /\ f.op = op /\ f.pc = "flush" /\ f.then = "idle"
       /\ SameConsents(f.session.objs, s.objs) /\ SameProofs(f.session.objs, s.objs)
  BY <1>3, <1>8, <1>9, FinishFacts
<1> HIDE DEF f
<1>11. \A n \in DOMAIN f.session.objs : f.session.objs[n].id \notin Consents
  BY <1>6, <1>7, <1>10 DEF SameConsents
<1>12. Reviewed(f, inserted)
  BY <1>11 DEF Reviewed, Needs
<1>13. Control(f, l)
  <2>1. At(f) = "idle"
    BY <1>10 DEF At
  <2> QED BY <1>3, <1>8, <1>10, <2>1 DEF Control
<1>14. HandlerOK(f, l, inserted')
  BY <1>2, <1>3, <1>8, <1>10, <1>12, <1>13 DEF HandlerOK, Disclosed
<1>15. Inv'
  BY <1>2, <1>14, Facts, Frame
<1>16. req'[h] = f /\ local'[h] = l
  BY <1>2, Facts
<1>17. Learns(f.session.objs, <<>>)
  BY <1>4, <1>6, <1>7, <1>10 DEF SameProofs, Learns
<1> QED BY <1>2, <1>3, <1>8, <1>10, <1>11, <1>15, <1>16, <1>17 DEF BegunWithout

\* verify_submitted_proof starts with the consent: an approved one has its
\* record, of just these scopes.
LEMMA VerifyOK ==
  ASSUME Inv, NEW h \in Handlers, NEW c \in Consents, NEW p \in Proofs, Verify(h, c, p)
  PROVE  /\ Inv' /\ Begun(h, [id |-> c, val |-> store[c]]) /\ Stored(c)
         /\ req'[h].op = "verify" /\ local'[h].inForce = InForce(c, p)
         /\ local'[h].result # "valid" /\ local'[h].proof = p
         /\ \/ At(req'[h]) = "idle"
            \/ At(req'[h]) = "proof" /\ store[c].status = "approved" /\ c \notin expired
<1> DEFINE val == store[c]
           result == IF Refused(c) THEN "consent_denied" ELSE IF c \in expired THEN "expired" ELSE "none"
           l == [consent |-> c, proof |-> p, scopes |-> val.scopes, result |-> result, inForce |-> InForce(c, p)]
           op == "verify"
           pc == "proof"
           s == Fetch(NoSession, c, val)
           q == Start(op, s, pc)
           f == After(q, l, pc)
           o == [id |-> c, val |-> val]
<1>1. /\ req' = [req EXCEPT ![h] = f] /\ local' = [local EXCEPT ![h] = l]
      /\ stale' = stale \ {<<h, c>>} /\ UNCHANGED <<store, inserted, expired, undone>>
  BY DEF Verify, Conclude, After
<1>2. Stored(c) /\ val \in ConsentDocs
  BY Facts DEF Verify
<1>3. l \in Locals /\ l.consent = c /\ l.proof = p /\ l.scopes = val.scopes /\ l.result = result
      /\ l.inForce = InForce(c, p)
  <2>1. result \in Results /\ InForce(c, p) \in BOOLEAN
    BY DEF Results, InForce
  <2>2. val.scopes \in SUBSET Scopes
    BY <1>2 DEF ConsentDocs
  <2> HIDE DEF result, val
  <2> QED BY <2>1, <2>2 DEF Locals
<1>4. /\ result # "valid"
      /\ result # "consent_denied" => val.status = "approved"
      /\ result = "none" => c \notin expired
  BY DEF Refused
<1> HIDE DEF result, l
<1>5. o \in Items
  BY <1>2, IsItem
<1>6. s \in Sessions(Items) /\ Len(s.objs) = 1 /\ \A n \in DOMAIN s.objs : s.objs[n] = o
  <2> DEFINE t == NoSession
  <2>1. t \in Sessions(Items) /\ t.objs = <<>>
    BY NoSessionType DEF NoSession
  <2> HIDE DEF t, val
  <2>2. Fetch(t, c, val) \in Sessions(Items) /\ Fetch(t, c, val).objs = Append(t.objs, o)
    BY <1>5, <2>1, FetchType
  <2> DEFINE z == Fetch(t, c, val).objs
             g == t.objs
  <2>3. z = Append(g, o) /\ g = <<>>
    BY <2>1, <2>2
  <2> HIDE DEF z, g, o
  <2>4. Len(z) = 1 /\ \A n \in DOMAIN z : z[n] = o
    BY <2>3
  <2> QED BY <2>2, <2>4 DEF t, z
<1>7. op \in Names /\ pc \in Names /\ pc # "flush" /\ pc # "idle" /\ op \in Ops /\ op = "verify" /\ pc = "proof"
  BY DEF Names, Ops
<1> HIDE DEF op, pc, s, q, o
<1>8. q \in Requests(Names, Items) /\ q.session = s /\ q.op = op
  BY <1>6, <1>7, StartType, NamesBasic DEF q
<1>9. /\ f \in Requests(Names, Items) /\ f.op = "verify" /\ f.pc # "idle"
      /\ SameConsents(f.session.objs, s.objs) /\ SameProofs(f.session.objs, s.objs)
      /\ result = "none" => f.pc = pc /\ At(f) = "proof" /\ f.session = s
      /\ result # "none" => f.pc = "flush" /\ At(f) = "idle"
  BY <1>3, <1>7, <1>8, AfterFacts
<1> HIDE DEF f
<1>10. \A n \in DOMAIN f.session.objs :
         /\ f.session.objs[n].id \in Consents => f.session.objs[n] = o
         /\ f.session.objs[n].id \notin Proofs
  BY <1>6, <1>9, OtherIds DEF SameConsents, SameProofs, o
<1>11. \A e \in Events : Needs(o, e) => <<"audit", e>> \in inserted
  BY DEF Inv, StoreOK, o
<1>12. Reviewed(f, inserted)
  BY <1>10, <1>11 DEF Reviewed, Needs
<1>13. Control(f, l)
  BY <1>3, <1>6, <1>7, <1>9 DEF Control
<1>14. Disclosed(f, l, inserted)
  <2> SUFFICES ASSUME val.status = "approved"
               PROVE  <<"audit", Event("approve", c, val.scopes)>> \in inserted
    BY <1>3, <1>4 DEF Disclosed
  <2>1. Event("approve", c, val.scopes) \in Events
    BY <1>2 DEF Event, Events, Ops, ConsentDocs
  <2>2. Needs(o, Event("approve", c, val.scopes))
    BY DEF Needs, o
  <2> QED BY <1>11, <2>1, <2>2
<1>15. HandlerOK(f, l, inserted')
  BY <1>1, <1>3, <1>9, <1>12, <1>13, <1>14 DEF HandlerOK
<1>16. Inv'
  BY <1>1, <1>15, Facts, Frame
<1>17. req'[h] = f /\ local'[h] = l
  BY <1>1, Facts
<1>18. o.id = c
  BY DEF o
<1>19. Begun(h, o)
  BY <1>1, <1>3, <1>9, <1>10, <1>17, <1>18 DEF Begun
<1> QED BY <1>2, <1>3, <1>4, <1>9, <1>16, <1>17, <1>19 DEF o

\* Handler h is done.
Ended(h) == req' = [req EXCEPT ![h] = Idle] /\ local' = [local EXCEPT ![h] = NoLocals]

\* Object o of handler h is stored.
Stores(h, o) ==
  /\ req[h].pc = "flush" /\ o \in Items
  /\ \E n \in DOMAIN req[h].session.objs : o = req[h].session.objs[n]
  /\ \/ /\ o.id \in Consents \cup Proofs \cup {Issuer}
        /\ store' = [store EXCEPT ![o.id] = o.val] /\ UNCHANGED inserted
     \/ /\ o.id \in {"audit", "verification"}
        /\ inserted' = inserted \cup {<<o.id, o.val>>} /\ UNCHANGED store

\* Handler h goes on after that, or is done.
GoesOn(h) ==
  \/ Ended(h)
  \/ /\ req' = [req EXCEPT ![h] = req'[h]] /\ local' = [local EXCEPT ![h] = local[h]]
     /\ req'[h].session.objs = req[h].session.objs
     /\ req'[h].op = req[h].op /\ At(req'[h]) = At(req[h])

\* The object that is next goes into the documents or into the records, and the
\* database stays as it should be.
LEMMA WriteStore ==
  ASSUME Inv, NEW h \in Handlers, Write(h), NEW o, o = NextObject(req[h])
  PROVE  Stores(h, o) /\ StoreOK(store', inserted') /\ inserted \subseteq inserted'
<1> DEFINE r == req[h]
<1>1. /\ HandlerOK(r, local[h], inserted) /\ r.pc = "flush" /\ r \in Requests(Names, Items)
      /\ StoreOK(store, inserted)
  BY Facts DEF Write
<1>2. /\ r.writing[1] \in DOMAIN r.session.objs /\ o = r.session.objs[r.writing[1]] /\ o \in Items
  BY <1>1, NextObjectType, NamesBasic
<1>3. /\ o.id \in Consents => o.val \in ConsentDocs
      /\ o.id \in Proofs => o.val \in ProofDocs
      /\ o.id = Issuer => o.val \in Profiles
      /\ o.id \in Consents \cup Proofs \cup {Issuer, "audit", "verification"}
      /\ o = [id |-> o.id, val |-> o.val]
  BY <1>2, ItemFacts
<1>4. IF o.id \in DOMAIN store
      THEN store' = [store EXCEPT ![o.id] = o.val] /\ UNCHANGED inserted
      ELSE inserted' = inserted \cup {<<o.id, o.val>>} /\ UNCHANGED store
  BY DEF Write
<1>5. /\ "audit" \notin DOMAIN store /\ "verification" \notin DOMAIN store
      /\ DOMAIN store = Consents \cup Proofs \cup {Credential, Issuer}
  BY Facts, OtherIds DEF Credential, Issuer
<1>6. Stores(h, o)
  BY <1>1, <1>2, <1>3, <1>4, <1>5 DEF Stores
<1>7. CASE o.id \in DOMAIN store
  <2>1. /\ store' = [store EXCEPT ![o.id] = o.val] /\ inserted' = inserted
        /\ o.id \in Consents \cup Proofs \cup {Issuer}
    BY <1>3, <1>4, <1>5, <1>7
  <2>2. ASSUME NEW e \in Events, Needs(o, e) PROVE <<"audit", e>> \in inserted
    <3>1. <<"audit", e>> \in inserted \/ Due(r, e)
      BY <1>1, <1>2, <2>2 DEF HandlerOK, Reviewed
    <3>2. ~Due(r, e)
      BY <1>5, <1>7 DEF Due, AuditItem
    <3> QED BY <3>1, <3>2
  <2>3. /\ store'[o.id] = o.val /\ DOMAIN store' = DOMAIN store
        /\ \A d \in DOMAIN store : d # o.id => store'[d] = store[d]
    BY <1>7, <2>1
  <2>4. /\ DOMAIN store' = Consents \cup Proofs \cup {Credential, Issuer}
        /\ \A c \in Consents : store'[c] \in ConsentDocs \cup {Absent}
        /\ \A p \in Proofs : store'[p] \in ProofDocs \cup {Absent}
        /\ store'[Credential] \in [status : {"active", "revoked"}]
        /\ store'[Issuer] \in Profiles
    <3>1. /\ \A c \in Consents : store[c] \in ConsentDocs \cup {Absent}
          /\ \A p \in Proofs : store[p] \in ProofDocs \cup {Absent}
          /\ store[Credential] \in [status : {"active", "revoked"}]
          /\ store[Issuer] \in Profiles
      BY <1>1 DEF StoreOK
    <3>2. o.id # Credential
      BY <2>1, OtherIds
    <3> QED BY <1>3, <1>5, <2>3, <3>1, <3>2
  <2>5. ASSUME NEW c \in Consents, NEW e \in Events, Needs([id |-> c, val |-> store'[c]], e)
        PROVE  <<"audit", e>> \in inserted
    <3>1. CASE c = o.id
      <4>1. [id |-> c, val |-> store'[c]] = o
        BY <1>3, <2>3, <3>1
      <4> QED BY <2>2, <2>5, <4>1
    <3>2. CASE c # o.id
      <4>1. store'[c] = store[c]
        BY <1>5, <2>3, <3>2
      <4> QED BY <1>1, <2>5, <4>1 DEF StoreOK
    <3> QED BY <3>1, <3>2
  <2>6. StoreOK(store', inserted')
    BY <2>1, <2>4, <2>5 DEF StoreOK
  <2> QED BY <1>6, <2>1, <2>6
<1>8. CASE o.id \notin DOMAIN store
  <2>1. inserted' = inserted \cup {<<o.id, o.val>>} /\ store' = store
    BY <1>4, <1>8
  <2>2. StoreOK(store', inserted')
    BY <1>1, <2>1 DEF StoreOK
  <2> QED BY <1>6, <2>1, <2>2
<1> QED BY <1>7, <1>8

\* A write preserves the invariant: what the object needs was stored before.
LEMMA WriteOK ==
  ASSUME Inv, NEW h \in Handlers, Write(h)
  PROVE  Inv' /\ Stores(h, NextObject(req[h])) /\ GoesOn(h)
<1> DEFINE r == req[h]
           l == local[h]
           o == NextObject(r)
           f == AfterWrite(r)
<1>1. /\ HandlerOK(r, l, inserted) /\ r.pc = "flush" /\ r \in Requests(Names, Items)
      /\ Control(r, l) /\ l \in Locals /\ r.op \in Ops
  BY Facts DEF Write, Control
<1>2. Stores(h, o) /\ StoreOK(store', inserted') /\ inserted \subseteq inserted'
  BY WriteStore
<1>3. /\ f \in Requests(Names, Items)
      /\ f.session.objs = r.session.objs /\ f.op = r.op
      /\ \/ /\ f.pc = "flush" /\ f.then = r.then /\ f.writing = Tail(r.writing)
            /\ f.session = r.session /\ Len(r.writing) > 1
         \/ /\ f.pc = r.then /\ r.then # "flush" /\ Len(r.writing) = 1
            /\ f.session.pending = <<>> /\ f.writing = <<>>
  BY <1>1, AfterWriteType, NamesBasic
<1>4. \/ f.pc = "idle" /\ Ended(h)
      \/ f.pc # "idle" /\ req' = [req EXCEPT ![h] = f] /\ local' = local
  BY DEF Write, End, Ended
<1> HIDE DEF f, o
<1>5. At(f) = At(r)
  BY <1>1, <1>3 DEF At
<1>6. CASE f.pc = "idle" /\ Ended(h)
  <2>1. HandlerOK(Idle, NoLocals, inserted')
    BY IdleOK
  <2>2. Inv'
    BY <1>2, <1>6, <2>1, Frame DEF Ended
  <2> QED BY <1>2, <1>6, <2>2 DEF GoesOn, o
<1>7. CASE f.pc # "idle" /\ req' = [req EXCEPT ![h] = f] /\ local' = local
  <2>1. local' = [local EXCEPT ![h] = l] /\ req'[h] = f
    BY <1>7, Facts
  <2>2. Control(f, l)
    BY <1>1, <1>3, <1>5, <1>7 DEF Control, HoldsProof
  <2>3. Reviewed(f, inserted')
    <3> SUFFICES ASSUME NEW n \in DOMAIN r.session.objs, NEW e \in Events, Needs(r.session.objs[n], e)
                 PROVE  <<"audit", e>> \in inserted'
      BY <1>3 DEF Reviewed
    <3>1. <<"audit", e>> \in inserted \/ Due(r, e)
      BY <1>1 DEF HandlerOK, Reviewed
    <3>2. Due(r, e) => o.id = "audit" /\ o.val = e
      BY DEF Due, AuditItem, o
    <3>3. o.id = "audit" => <<o.id, o.val>> \in inserted'
      BY <1>2, OtherIds DEF Stores, Issuer
    <3> QED BY <1>2, <3>1, <3>2, <3>3
  <2>4. Disclosed(f, l, inserted')
    BY <1>1, <1>2, <1>3 DEF HandlerOK, Disclosed
  <2>5. HandlerOK(f, l, inserted')
    BY <1>1, <1>3, <2>2, <2>3, <2>4 DEF HandlerOK
  <2>6. Inv'
    BY <1>2, <1>7, <2>1, <2>5, Frame
  <2>7. GoesOn(h)
    BY <1>3, <1>5, <1>7, <2>1 DEF GoesOn
  <2> QED BY <1>2, <2>6, <2>7 DEF o
<1> QED BY <1>4, <1>6, <1>7

\* A handler that fails or dies leaves the database as it is.
LEMMA FailOK ==
  ASSUME Inv, NEW h \in Handlers, Fail(h)
  PROVE  Inv' /\ Ended(h) /\ UNCHANGED <<store, inserted, expired, stale, undone>>
<1>1. Ended(h) /\ UNCHANGED <<store, inserted, expired, stale, undone>>
  BY DEF Fail, End, Ended
<1>2. HandlerOK(Idle, NoLocals, inserted')
  BY IdleOK
<1> QED BY <1>1, <1>2, Facts, Frame DEF Ended

\* What happens around the handlers.
Around == RevokeCredential \/ BlockIssuer \/ StoreStaleCopy \/ \E d \in Consents \cup Proofs : Expire(d)

\* A change of the credential or of the profile leaves the consents and proofs.
LEMMA AroundOK ==
  ASSUME Inv, Around
  PROVE  /\ Inv' /\ UNCHANGED <<inserted, req, local, stale>>
         /\ \A d \in Consents \cup Proofs : store'[d] = store[d]
<1>1. UNCHANGED <<inserted, req, local, stale>>
  BY DEF Around, RevokeCredential, BlockIssuer, StoreStaleCopy, Expire
<1>2. /\ DOMAIN store = Consents \cup Proofs \cup {Credential, Issuer}
      /\ store[Credential] \in [status : {"active", "revoked"}] /\ store[Issuer] \in Profiles
      /\ StoreOK(store, inserted)
  BY Facts DEF StoreOK
<1>3. /\ DOMAIN store' = DOMAIN store
      /\ \A d \in Consents \cup Proofs : store'[d] = store[d]
      /\ store'[Credential] \in [status : {"active", "revoked"}] /\ store'[Issuer] \in Profiles
  <2>1. CASE store' = [store EXCEPT ![Credential].status = "revoked"]
    BY <1>2, <2>1, OtherIds
  <2>2. CASE store' = [store EXCEPT ![Issuer].active = FALSE]
    BY <1>2, <2>2, OtherIds DEF Profiles
  <2>3. CASE store' = [store EXCEPT ![Credential].status = "active"]
    BY <1>2, <2>3, OtherIds
  <2>4. CASE store' = [store EXCEPT ![Issuer].active = TRUE, ![Issuer].keyed = TRUE]
    BY <1>2, <2>4, OtherIds DEF Profiles
  <2>5. CASE store' = store
    BY <1>2, <2>5
  <2> QED BY <2>1, <2>2, <2>3, <2>4, <2>5
          DEF Around, RevokeCredential, BlockIssuer, StoreStaleCopy, Expire
<1>4. StoreOK(store', inserted')
  BY <1>1, <1>2, <1>3 DEF StoreOK
<1>5. Inv'
  BY <1>1, <1>4 DEF Inv
<1> QED BY <1>1, <1>3, <1>5

\* The invariant holds at first.
LEMMA InitOK == Init => Inv
<1> SUFFICES ASSUME Init PROVE Inv
  OBVIOUS
<1>1. inserted = {} /\ req = [h \in Handlers |-> Idle] /\ local = [h \in Handlers |-> NoLocals]
  BY DEF Init
<1>2. PICK keyed \in BOOLEAN :
        store = [d \in Consents \cup Proofs \cup {Credential, Issuer} |->
                   IF d = Credential THEN [status |-> "active"]
                   ELSE IF d = Issuer THEN [active |-> TRUE, keyed |-> keyed]
                   ELSE Absent]
  BY DEF Init
<1>3. /\ DOMAIN store = Consents \cup Proofs \cup {Credential, Issuer}
      /\ \A d \in Consents \cup Proofs : store[d] = Absent
      /\ store[Credential] \in [status : {"active", "revoked"}]
      /\ store[Issuer] \in Profiles
  BY <1>2, OtherIds DEF Profiles
<1>4. \A c \in Consents : \A e \in Events : ~Needs([id |-> c, val |-> store[c]], e)
  BY <1>3 DEF Needs, Absent
<1>5. StoreOK(store, inserted)
  BY <1>3, <1>4 DEF StoreOK
<1>6. req \in [Handlers -> Requests(Names, Items)] /\ local \in [Handlers -> Locals]
  BY <1>1, IdleOK
<1>7. \A h \in Handlers : HandlerOK(req[h], local[h], inserted)
  BY <1>1, IdleOK
<1> QED BY <1>5, <1>6, <1>7 DEF Inv

\* The steps of the system, by what they are to a handler.
LEMMA Cases ==
  ASSUME Next
  PROVE  \/ \E h \in Handlers :
              \/ \E c \in Consents :
                   \/ \E scopes \in SUBSET Scopes, expires \in BOOLEAN : RequestConsent(h, c, scopes, expires)
                   \/ Approve(h, c) \/ Deny(h, c) \/ RevokeConsent(h, c)
                   \/ \E p \in Proofs : Verify(h, c, p)
              \/ \E p \in Proofs :
                   \/ ZkVerifyProof(h, p)
                   \/ \E scope \in Scopes : \E pc \in {"signature", "prove"} : Generate(h, p, scope, pc)
              \/ ReadProof(h) \/ ReadCredential(h) \/ ReadIssuer(h) \/ CheckSignature(h)
              \/ Judge(h) \/ AddProof(h)
              \/ Write(h) \/ Fail(h)
         \/ Around
BY DEF Next, Around, GenerateProof, ZkGenerateProof

\* Every step preserves the invariant.
LEMMA NextOK == Inv /\ [Next]_vars => Inv'
<1>1. ASSUME Inv, Next PROVE Inv'
  BY <1>1, Cases, RequestOK, ApproveOK, DenyOK, RevokeOK, VerifyOK, ZkVerifyProofOK, GenerateOK,
     ReadProofOK, ReadCredentialOK, ReadIssuerOK, CheckSignatureOK, JudgeOK, AddProofOK, WriteOK,
     FailOK, AroundOK
<1>2. ASSUME Inv, UNCHANGED vars PROVE Inv'
  BY <1>2 DEF vars, Inv
<1> QED BY <1>1, <1>2

\* The invariant holds in every reachable state.
THEOREM Invariance == Spec => []Inv
BY InitOK, NextOK, PTL DEF Spec

-----------------------------------------------------------------------------
(* The second layer. *)

\* What a handler holds stays fresh while no consent is stored.
LEMMA FreshKept ==
  ASSUME NEW g, NEW r, NEW l, NEW st, NEW sl, FreshAt(g, r, l, st, sl), NEW st2, NEW sl2,
         \A c \in Consents : st2[c] = st[c],
         \A c \in Consents : <<g, c>> \in sl => <<g, c>> \in sl2
  PROVE  FreshAt(g, r, l, st2, sl2)
BY DEF FreshAt, Current

\* A handler with no consent is fresh.
LEMMA FreshEmpty ==
  ASSUME NEW g, NEW r, NEW l, NEW st, NEW sl,
         \A n \in DOMAIN r.session.objs : r.session.objs[n].id \notin Consents
  PROVE  FreshAt(g, r, l, st, sl)
BY DEF FreshAt

\* A handler that keeps its consents stays fresh.
LEMMA FreshSame ==
  ASSUME NEW g, NEW r, NEW l, NEW st, NEW sl, FreshAt(g, r, l, st, sl), NEW f, NEW k,
         SameConsents(f.session.objs, r.session.objs), k.consent = l.consent
  PROVE  FreshAt(g, f, k, st, sl)
BY DEF FreshAt, SameConsents

\* A step of one handler that stores no document.
LEMMA FreshFrame ==
  ASSUME Inv, Fresh, NEW h \in Handlers,
         req' = [req EXCEPT ![h] = req'[h]], local' = [local EXCEPT ![h] = local'[h]],
         UNCHANGED <<store, expired>>,
         \A g \in Handlers \ {h} : \A c \in Consents : <<g, c>> \in stale => <<g, c>> \in stale',
         FreshAt(h, req'[h], local'[h], store, stale'),
         \A c \in Consents : ~Stored(c) /\ local'[h].consent = c =>
           local[h].consent = c \/ \A g \in Handlers : local[g].consent # c
  PROVE  Fresh'
<1>1. ASSUME NEW g \in Handlers, g # h PROVE req'[g] = req[g] /\ local'[g] = local[g]
  BY <1>1, Facts
<1>2. ASSUME NEW g \in Handlers PROVE FreshAt(g, req'[g], local'[g], store', stale')
  <2>1. CASE g = h
    BY <2>1
  <2>2. CASE g # h
    <3>1. FreshAt(g, req[g], local[g], store', stale')
      BY <2>2, FreshKept DEF Fresh
    <3> QED BY <1>1, <2>2, <3>1
  <2> QED BY <2>1, <2>2
<1>3. ASSUME NEW c \in Consents, ~Stored(c), NEW g1 \in Handlers, NEW g2 \in Handlers,
             local'[g1].consent = c, local'[g2].consent = c
      PROVE  g1 = g2
  BY <1>1, <1>3 DEF Fresh
<1>4. \A d \in expired' : d \in Consents \cup Proofs /\ Stored(d)' /\ store'[d].expires
  BY DEF Fresh, Stored
<1> QED BY <1>2, <1>3, <1>4 DEF Fresh, Stored

\* A step in the middle of a handler.
LEMMA FreshWorks ==
  ASSUME Inv, Fresh, NEW h \in Handlers, Works(h)
  PROVE  Fresh'
<1>1. FreshAt(h, req'[h], local'[h], store, stale)
  BY FreshSame DEF Fresh, Works
<1> QED BY <1>1, FreshFrame DEF Works

\* A handler that starts with no consent.
LEMMA FreshWithout ==
  ASSUME Inv, Fresh, NEW h \in Handlers, BegunWithout(h)
  PROVE  Fresh'
<1>1. FreshAt(h, req'[h], local'[h], store, stale)
  BY FreshEmpty DEF BegunWithout
<1>2. \A c \in Consents : local'[h].consent # c
  BY OtherIds DEF BegunWithout
<1> QED BY <1>1, <1>2, FreshFrame DEF BegunWithout

\* A handler that starts with a consent: what is stored, or what follows it, or
\* a consent nobody else holds.
LEMMA FreshBegun ==
  ASSUME Inv, Fresh, NEW h \in Handlers, NEW c \in Consents, NEW new, NEW o, o = [id |-> c, val |-> new],
         Begun(h, o),
         \/ ~Stored(c) /\ ~Held(c)
         \/ /\ Stored(c) /\ new.expires = store[c].expires
            /\ new = store[c] \/ <<store[c].status, new.status>> \in InOrderOf
  PROVE  Fresh'
<1>1. o.id = c /\ o.val = new
  OBVIOUS
<1>2. Current(h, o, store, stale')
  BY <1>1 DEF Current, Stored
<1>3. FreshAt(h, req'[h], local'[h], store, stale')
  BY <1>1, <1>2 DEF FreshAt, Begun
<1>4. \A g \in Handlers \ {h} : \A d \in Consents : <<g, d>> \in stale => <<g, d>> \in stale'
  BY DEF Begun
<1>5. ASSUME NEW d \in Consents, ~Stored(d), local'[h].consent = d
      PROVE  \A g \in Handlers : local[g].consent # d
  <2>1. d = c /\ ~Held(c)
    BY <1>1, <1>5 DEF Begun
  <2> QED BY <2>1 DEF Held
<1> QED BY <1>3, <1>4, <1>5, FreshFrame DEF Begun

\* A handler that is done.
LEMMA FreshEnded ==
  ASSUME Inv, Fresh, NEW h \in Handlers, Ended(h), UNCHANGED <<store, inserted, expired, stale, undone>>
  PROVE  Fresh'
<1>1. req'[h] = Idle /\ local'[h] = NoLocals
  BY Facts DEF Ended
<1>2. FreshAt(h, req'[h], local'[h], store, stale)
  BY <1>1, IdleOK, FreshEmpty
<1>3. \A c \in Consents : local'[h].consent # c
  BY <1>1, IdleOK, OtherIds
<1>4. req' = [req EXCEPT ![h] = req'[h]] /\ local' = [local EXCEPT ![h] = local'[h]]
  BY <1>1 DEF Ended
<1> QED BY <1>2, <1>3, <1>4, FreshFrame

\* What happens around the handlers: only what expires is expired.
LEMMA FreshAround ==
  ASSUME Inv, Fresh, Around
  PROVE  Fresh'
<1>1. /\ UNCHANGED <<inserted, req, local, stale>>
      /\ \A d \in Consents \cup Proofs : store'[d] = store[d]
  BY AroundOK
<1>2. \A d \in expired' : d \in Consents \cup Proofs /\ Stored(d) /\ store[d].expires
  BY DEF Fresh, Around, RevokeCredential, BlockIssuer, StoreStaleCopy, Expire
<1>3. \A h \in Handlers : FreshAt(h, req[h], local[h], store', stale)
  BY <1>1, FreshKept DEF Fresh
<1>4. \A d \in Consents \cup Proofs : Stored(d)' <=> Stored(d)
  BY <1>1 DEF Stored
<1> QED BY <1>1, <1>2, <1>3, <1>4 DEF Fresh

\* A write: whoever holds the consent stored is out of date from now on, and the
\* handler itself holds what is stored.
LEMMA FreshWrite ==
  ASSUME Inv, Fresh, NEW h \in Handlers, NEW o, Stores(h, o), GoesOn(h), UNCHANGED expired,
         stale' = IF o.id \in Consents
                  THEN stale \cup {<<g, o.id>> : g \in {g \in Handlers \ {h} : ~Idles(g)}}
                  ELSE stale
  PROVE  Fresh'
<1>1. /\ o.id \in Consents => o.val \in ConsentDocs
      /\ o.id \in Proofs => o.val \in ProofDocs
      /\ DOMAIN store = Consents \cup Proofs \cup {Credential, Issuer}
  BY Facts, ItemFacts DEF Stores
<1>2. \A d \in Consents \cup Proofs : store'[d] = IF d = o.id THEN o.val ELSE store[d]
  BY <1>1, OtherIds DEF Stores
<1>3. Absent \notin ConsentDocs /\ Absent \notin ProofDocs
  BY DEF Absent, ConsentDocs, ProofDocs, Statuses
<1>4. ASSUME NEW g \in Handlers, g # h PROVE req'[g] = req[g] /\ local'[g] = local[g]
  BY <1>4, Facts DEF GoesOn, Ended
<1>5. /\ local'[h].consent \in {Nobody, local[h].consent}
      /\ req'[h].session.objs = req[h].session.objs \/ DOMAIN req'[h].session.objs = {}
  <2>1. CASE Ended(h)
    <3>1. req'[h] = Idle /\ local'[h] = NoLocals
      BY <2>1, Facts DEF Ended
    <3> QED BY <3>1, IdleOK
  <2>2. CASE ~Ended(h)
    <3>1. local'[h] = local[h]
      BY <2>2, Facts DEF GoesOn
    <3> QED BY <2>2, <3>1 DEF GoesOn
  <2> QED BY <2>1, <2>2
<1>6. /\ o.id \in Consents => o.id = local[h].consent
      /\ o.id \in Consents => Current(h, o, store, stale)
      /\ \A m \in DOMAIN req[h].session.objs :
           o.id \in Consents /\ req[h].session.objs[m].id \in Consents => req[h].session.objs[m] = o
  BY ZenonT(60) DEF Fresh, FreshAt, Stores
<1>7. ASSUME NEW c \in Consents, store'[c] = Absent
      PROVE  ~Stored(c) /\ c # o.id
  BY <1>1, <1>2, <1>3, <1>7 DEF Stored
<1>8. ASSUME NEW c \in Consents, store'[c] = Absent, NEW g1 \in Handlers, NEW g2 \in Handlers,
             local'[g1].consent = c, local'[g2].consent = c
      PROVE  g1 = g2
  <2>1. local[g1].consent = c /\ local[g2].consent = c
    BY <1>4, <1>5, <1>8, OtherIds
  <2> QED BY <1>7, <1>8, <2>1 DEF Fresh
<1>9. ASSUME NEW d \in expired PROVE d \in Consents \cup Proofs /\ store'[d] # Absent /\ store'[d].expires
  <2>1. d \in Consents \cup Proofs /\ Stored(d) /\ store[d].expires
    BY DEF Fresh
  <2>2. CASE d # o.id
    BY <1>2, <2>1, <2>2 DEF Stored
  <2>3. CASE d = o.id /\ d \in Consents
    BY <1>1, <1>2, <1>3, <1>6, <2>1, <2>3 DEF Current, Stored
  <2>4. CASE d = o.id /\ d \in Proofs
    BY <1>1, <1>2, <1>3, <2>1, <2>4 DEF ProofDocs
  <2> QED BY <2>1, <2>2, <2>3, <2>4
<1>10. ASSUME NEW g \in Handlers PROVE FreshAt(g, req'[g], local'[g], store', stale')
  <2>1. CASE o.id \notin Consents
    <3>1. FreshAt(g, req[g], local[g], store', stale')
      BY <1>2, <2>1, FreshKept DEF Fresh
    <3>2. CASE g # h
      BY <1>4, <3>1, <3>2
    <3>3. CASE g = h /\ DOMAIN req'[h].session.objs = {}
      BY <3>3 DEF FreshAt
    <3>4. CASE g = h /\ DOMAIN req'[h].session.objs # {} /\ ~Ended(h)
      <4>1. local'[h] = local[h] /\ req'[h].session.objs = req[h].session.objs
        BY <3>4, Facts DEF GoesOn
      <4> QED BY <3>1, <3>4, <4>1 DEF FreshAt
    <3>5. CASE Ended(h)
      <4>1. req'[h] = Idle
        BY <3>5, Facts DEF Ended
      <4>2. DOMAIN req'[h].session.objs = {}
        BY <4>1, IdleOK
      <4> QED BY <3>2, <3>3, <4>2
    <3> QED BY <3>2, <3>3, <3>4, <3>5
  <2>2. CASE o.id \in Consents /\ g = h
    <3>1. ASSUME NEW n \in DOMAIN req'[h].session.objs, req'[h].session.objs[n].id \in Consents
          PROVE  req'[h].session.objs[n] = o /\ local'[h].consent = o.id
      <4>1. ~Ended(h)
        <5> SUFFICES ASSUME Ended(h) PROVE FALSE
          OBVIOUS
        <5>1. req'[h] = Idle
          BY Facts DEF Ended
        <5> QED BY <3>1, <5>1, IdleOK
      <4>2. local'[h] = local[h] /\ req'[h].session.objs = req[h].session.objs
        BY <4>1, Facts DEF GoesOn
      <4> QED BY <1>6, <2>2, <3>1, <4>2
    <3>2. Current(h, o, store', stale')
      BY <1>2, <2>2 DEF Current
    <3> QED BY <2>2, <3>1, <3>2 DEF FreshAt
  <2>3. CASE o.id \in Consents /\ g # h
    <3> DEFINE c == o.id
               objs == req[g].session.objs
    <3>1. FreshAt(g, req[g], local[g], store, stale)
      BY DEF Fresh
    <3>2. ASSUME NEW n \in DOMAIN objs, objs[n].id \in Consents PROVE Current(g, objs[n], store', stale')
      <4>1. Current(g, objs[n], store, stale) /\ objs[n].id = local[g].consent
        BY <3>1, <3>2 DEF FreshAt
      <4>2. CASE objs[n].id # c
        <5>1. store'[objs[n].id] = store[objs[n].id]
          BY <1>2, <3>2, <4>2
        <5> QED BY <4>1, <5>1, <2>3 DEF Current
      <4>3. CASE objs[n].id = c
        <5>1. ~Idles(g)
          <6>1. Idles(g) => objs = <<>>
            BY Facts DEF Control, Idles
          <6> QED BY <6>1
        <5>2. <<g, c>> \in stale'
          BY <2>3, <5>1
        <5>3. store'[c] = o.val
          BY <1>2, <2>3
        <5>4. Stored(c)
          BY <1>6, <2>3, <4>1, <4>3 DEF Fresh
        <5>5. objs[n].val.expires = store[c].expires /\ o.val.expires = store[c].expires
          BY <1>6, <2>3, <4>1, <4>3, <5>4 DEF Current, Stored
        <5> QED BY <4>3, <5>2, <5>3, <5>5 DEF Current
      <4> QED BY <4>2, <4>3
    <3>3. FreshAt(g, req[g], local[g], store', stale')
      BY <3>1, <3>2 DEF FreshAt
    <3> QED BY <1>4, <2>3, <3>3
  <2> QED BY <2>1, <2>2, <2>3
<1>11. \A d \in Consents \cup Proofs : Stored(d)' <=> store'[d] # Absent
  BY DEF Stored
<1> QED BY <1>8, <1>9, <1>10, <1>11 DEF Fresh

\* The second layer holds at first.
LEMMA FreshInit == Init => Fresh
<1> SUFFICES ASSUME Init PROVE Fresh
  OBVIOUS
<1>1. /\ expired = {} /\ \A h \in Handlers : req[h] = Idle /\ local[h] = NoLocals
  BY DEF Init
<1>2. \A h \in Handlers : FreshAt(h, req[h], local[h], store, stale)
  BY <1>1, IdleOK, FreshEmpty
<1>3. \A h \in Handlers : \A c \in Consents : local[h].consent # c
  BY <1>1, IdleOK, OtherIds
<1> QED BY <1>1, <1>2, <1>3 DEF Fresh

\* Every step preserves the second layer.
LEMMA FreshNext == Inv /\ Fresh /\ [Next]_vars => Fresh'
<1>1. ASSUME Inv, Fresh, NEW h \in Handlers, NEW c \in Consents,
             \/ \E scopes \in SUBSET Scopes, expires \in BOOLEAN : RequestConsent(h, c, scopes, expires)
             \/ Approve(h, c) \/ Deny(h, c) \/ RevokeConsent(h, c)
             \/ \E p \in Proofs : Verify(h, c, p)
      PROVE  Fresh'
  <2>1. CASE \E scopes \in SUBSET Scopes, expires \in BOOLEAN : RequestConsent(h, c, scopes, expires)
    <3>1. ~Stored(c) /\ ~Held(c) /\ \E new : Begun(h, [id |-> c, val |-> new])
      BY <1>1, <2>1, RequestOK
    <3>2. PICK new : Begun(h, [id |-> c, val |-> new])
      BY <3>1
    <3> DEFINE o == [id |-> c, val |-> new]
    <3>3. o = [id |-> c, val |-> new] /\ Begun(h, o)
      BY <3>2
    <3> HIDE DEF o
    <3> QED BY <1>1, <3>1, <3>3, FreshBegun
  <2>2. CASE Approve(h, c) \/ Deny(h, c) \/ RevokeConsent(h, c)
    <3>1. /\ Stored(c)
          /\ \E new \in ConsentDocs : /\ Begun(h, [id |-> c, val |-> new])
                                      /\ new.expires = store[c].expires
                                      /\ <<store[c].status, new.status>> \in InOrderOf
      BY <1>1, <2>2, ApproveOK, DenyOK, RevokeOK
    <3>2. PICK new \in ConsentDocs : /\ Begun(h, [id |-> c, val |-> new])
                                     /\ new.expires = store[c].expires
                                     /\ <<store[c].status, new.status>> \in InOrderOf
      BY <3>1
    <3> QED BY <1>1, <3>1, <3>2, FreshBegun
  <2>3. CASE \E p \in Proofs : Verify(h, c, p)
    BY <1>1, <2>3, VerifyOK, FreshBegun
  <2> QED BY <1>1, <2>1, <2>2, <2>3
<1>2. ASSUME Inv, Fresh, NEW h \in Handlers, Write(h) PROVE Fresh'
  <2> DEFINE o == NextObject(req[h])
  <2>1. Stores(h, o) /\ GoesOn(h)
    BY <1>2, WriteOK
  <2>2. /\ UNCHANGED expired
        /\ stale' = IF o.id \in Consents
                    THEN stale \cup {<<g, o.id>> : g \in {g \in Handlers \ {h} : ~Idles(g)}}
                    ELSE stale
    BY <1>2 DEF Write
  <2> HIDE DEF o
  <2> QED BY <1>2, <2>1, <2>2, FreshWrite
<1>3. ASSUME Inv, Fresh, Next PROVE Fresh'
  BY <1>1, <1>2, <1>3, Cases, ZkVerifyProofOK, GenerateOK, FreshWithout, ReadProofOK, ReadCredentialOK,
     ReadIssuerOK, CheckSignatureOK, JudgeOK, AddProofOK, FreshWorks, FailOK, FreshEnded, FreshAround
<1>4. ASSUME Fresh, UNCHANGED vars PROVE Fresh'
  BY <1>4 DEF vars, Fresh, Stored
<1> QED BY <1>3, <1>4

-----------------------------------------------------------------------------
(* The third layer. *)

\* What is lost stays lost.
StaysLost(st, st2) ==
  /\ st[Credential].status = "revoked" => st2[Credential].status = "revoked"
  /\ ~st[Issuer].active => ~st2[Issuer].active

\* A step of one handler.
LEMMA LinearFrame ==
  ASSUME Inv, Linear, NEW h \in Handlers,
         req' = [req EXCEPT ![h] = req'[h]], local' = [local EXCEPT ![h] = local'[h]],
         undone = {} => StaysLost(store, store') /\ LinearAt(req'[h], local'[h], store', expired'),
         undone \subseteq undone', expired \subseteq expired'
  PROVE  Linear'
<1> SUFFICES ASSUME undone = {}, NEW g \in Handlers
             PROVE  LinearAt(req'[g], local'[g], store', expired')
  BY DEF Linear
<1>1. CASE g = h
  BY <1>1
<1>2. CASE g # h
  <2>1. req'[g] = req[g] /\ local'[g] = local[g]
    BY <1>2, Facts
  <2> QED BY <2>1 DEF Linear, LinearAt, StaysLost
<1> QED BY <1>1, <1>2

\* A handler that does not verify.
LEMMA LinearOther ==
  ASSUME Inv, Linear, NEW h \in Handlers, req'[h].op # "verify",
         req' = [req EXCEPT ![h] = req'[h]], local' = [local EXCEPT ![h] = local'[h]],
         UNCHANGED <<store, undone, expired>>
  PROVE  Linear'
BY LinearFrame DEF LinearAt, StaysLost

\* A verification begins: if not everything is in force, then the proof, the
\* credential or the issuer is not.
LEMMA LinearVerify ==
  ASSUME Inv, Linear, NEW h \in Handlers, NEW c \in Consents, NEW p \in Proofs, Verify(h, c, p)
  PROVE  Linear'
<1>1. /\ req' = [req EXCEPT ![h] = req'[h]] /\ local' = [local EXCEPT ![h] = local'[h]]
      /\ UNCHANGED <<store, undone, expired>>
      /\ local'[h].inForce = InForce(c, p) /\ local'[h].proof = p /\ local'[h].result # "valid"
      /\ \/ At(req'[h]) = "idle"
         \/ At(req'[h]) = "proof" /\ store[c].status = "approved" /\ c \notin expired
  <2> DEFINE o == [id |-> c, val |-> store[c]]
  <2>1. Begun(h, o)
    BY VerifyOK
  <2> HIDE DEF o
  <2>2. /\ req' = [req EXCEPT ![h] = req'[h]] /\ local' = [local EXCEPT ![h] = local'[h]]
        /\ UNCHANGED <<store, undone, expired>>
    BY <2>1 DEF Begun
  <2> QED BY <2>2, VerifyOK
<1>2. store[Credential].status \in {"active", "revoked"}
  BY Facts DEF StoreOK
<1>3. LinearAt(req'[h], local'[h], store', expired')
  BY <1>1, <1>2 DEF LinearAt, InForce
<1> QED BY <1>1, <1>3, LinearFrame DEF StaysLost

\* The checks of a verification, each of which rules something out.
LEMMA LinearWorks ==
  ASSUME Inv, Linear, NEW h \in Handlers,
         ReadProof(h) \/ ReadCredential(h) \/ ReadIssuer(h) \/ CheckSignature(h) \/ Judge(h) \/ AddProof(h)
  PROVE  Linear'
<1>1. Works(h)
  BY ReadProofOK, ReadCredentialOK, ReadIssuerOK, CheckSignatureOK, JudgeOK, AddProofOK
<1>2. ASSUME undone = {} PROVE LinearAt(req'[h], local'[h], store, expired)
  <2> DEFINE r == req[h]
             f == req'[h]
             k == local'[h]
  <2>1. /\ LinearAt(r, local[h], store, expired) /\ f.op = r.op
        /\ k.inForce = local[h].inForce /\ k.proof = local[h].proof
    BY <1>1, <1>2 DEF Linear, Works
  <2>2. r.pc \in Checks => At(r) = r.pc
    BY ChecksFacts
  <2>3. CASE ReadProof(h)
    <3>1. /\ r.pc = "proof" /\ k.result # "valid"
          /\ At(f) = "idle" \/ (At(f) = "credential" /\ k.proof \notin expired)
      BY <2>1, <2>3, ReadProofOK DEF ReadProof
    <3> QED BY <2>1, <2>2, <3>1 DEF LinearAt, Checks
  <2>4. CASE ReadCredential(h)
    <3>1. r.pc = "credential" /\ k.result # "valid"
          /\ (At(f) = "idle" \/ (At(f) = "issuer" /\ store[Credential].status # "revoked"))
      BY <2>4, ReadCredentialOK DEF ReadCredential
    <3> QED BY <2>1, <2>2, <3>1 DEF LinearAt, Checks
  <2>5. CASE ReadIssuer(h)
    <3>1. r.pc = "issuer" /\ k.result # "valid"
          /\ (At(f) = "idle" \/ (At(f) = "signature" /\ store[Issuer].active))
      BY <2>5, ReadIssuerOK DEF ReadIssuer
    <3> QED BY <2>1, <2>2, <3>1 DEF LinearAt, Checks
  <2>6. CASE CheckSignature(h)
    <3>1. r.pc = "signature"
      BY <2>6 DEF CheckSignature
    <3> QED BY <2>1, <2>2, <3>1 DEF LinearAt, Checks
  <2>7. CASE Judge(h)
    <3>1. r.pc = "judge"
      BY <2>7 DEF Judge
    <3> QED BY <2>1, <2>2, <3>1 DEF LinearAt, Checks
  <2>8. CASE AddProof(h)
    BY <2>8, AddProofOK DEF LinearAt
  <2> QED BY <2>3, <2>4, <2>5, <2>6, <2>7, <2>8
<1> QED BY <1>1, <1>2, LinearFrame DEF Works, StaysLost

\* A write of the profile ends no block, unless that is noted.
LEMMA LinearWrite ==
  ASSUME Inv, Linear, NEW h \in Handlers, Write(h)
  PROVE  Linear'
<1> DEFINE o == NextObject(req[h])
<1>1. Stores(h, o) /\ GoesOn(h)
  BY WriteOK
<1>2. undone' = IF o.id = Issuer /\ o.val.active /\ ~store[Issuer].active
                THEN undone \cup {Issuer} ELSE undone
  BY DEF Write
<1> HIDE DEF o
<1>3. undone' = {} => StaysLost(store, store')
  <2>1. store'[Credential] = store[Credential]
    <3>1. DOMAIN store = Consents \cup Proofs \cup {Credential, Issuer}
      BY Facts DEF StoreOK
    <3> QED BY <1>1, <3>1, OtherIds DEF Stores
  <2>2. store'[Issuer] = store[Issuer] \/ (o.id = Issuer /\ store'[Issuer] = o.val)
    BY <1>1, Facts, OtherIds DEF Stores
  <2> QED BY <1>2, <2>1, <2>2 DEF StaysLost
<1>4. undone \subseteq undone' /\ expired' = expired
  BY <1>2 DEF Write
<1>5. CASE Ended(h)
  <2>1. req'[h] = Idle /\ local'[h] = NoLocals
    BY <1>5, Facts DEF Ended
  <2>2. \A st, ex : LinearAt(req'[h], local'[h], st, ex)
    BY <2>1, IdleOK DEF LinearAt
  <2> SUFFICES ASSUME undone' = {} PROVE Linear'
    BY DEF Linear
  <2> QED BY <1>3, <1>4, <1>5, <2>1, <2>2, LinearFrame DEF Ended
<1>6. CASE ~Ended(h)
  <2>1. /\ req' = [req EXCEPT ![h] = req'[h]] /\ local' = [local EXCEPT ![h] = local'[h]]
        /\ local'[h] = local[h] /\ req'[h].op = req[h].op /\ At(req'[h]) = At(req[h])
    BY <1>1, <1>6, Facts DEF GoesOn
  <2> SUFFICES ASSUME undone' = {} PROVE Linear'
    BY DEF Linear
  <2>2. undone = {} => LinearAt(req'[h], local'[h], store', expired')
    BY <1>3, <1>4, <2>1 DEF Linear, LinearAt, StaysLost
  <2> QED BY <1>3, <1>4, <2>1, <2>2, LinearFrame
<1> QED BY <1>5, <1>6

\* What happens around the handlers: a revocation or a block that is lost is noted.
LEMMA LinearAround ==
  ASSUME Inv, Linear, Around
  PROVE  Linear'
<1> SUFFICES ASSUME undone' = {}, NEW h \in Handlers
             PROVE  LinearAt(req[h], local[h], store', expired')
  BY AroundOK DEF Linear
<1>1. /\ DOMAIN store = Consents \cup Proofs \cup {Credential, Issuer}
      /\ store[Credential] \in [status : {"active", "revoked"}] /\ store[Issuer] \in Profiles
  BY Facts DEF StoreOK
<1>3. expired \subseteq expired'
  BY DEF Around, RevokeCredential, BlockIssuer, StoreStaleCopy, Expire
<1>2. undone = {} /\ StaysLost(store, store')
  <2>1. CASE RevokeCredential
    BY <1>1, <2>1, OtherIds DEF RevokeCredential, StaysLost
  <2>2. CASE BlockIssuer
    BY <1>1, <2>2, OtherIds DEF BlockIssuer, StaysLost, Profiles
  <2>3. CASE StoreStaleCopy
    BY <2>3 DEF StoreStaleCopy
  <2>4. CASE \E d \in Consents \cup Proofs : Expire(d)
    BY <2>4 DEF Expire, StaysLost
  <2> QED BY <2>1, <2>2, <2>3, <2>4 DEF Around
<1> QED BY <1>2, <1>3 DEF Linear, LinearAt, StaysLost

\* Every step preserves the third layer.
LEMMA LinearNext == Inv /\ Linear /\ [Next]_vars => Linear'
<1>1. ASSUME Inv, Linear, NEW h \in Handlers, NEW c \in Consents,
             \/ \E scopes \in SUBSET Scopes, expires \in BOOLEAN : RequestConsent(h, c, scopes, expires)
             \/ Approve(h, c) \/ Deny(h, c) \/ RevokeConsent(h, c)
      PROVE  Linear'
  <2>1. req'[h].op \in {"request", "approve", "deny", "revoke"} /\ \E o : Begun(h, o)
    BY ZenonT(60), <1>1, RequestOK, ApproveOK, DenyOK, RevokeOK
  <2> QED BY <1>1, <2>1, LinearOther DEF Begun
<1>2. ASSUME Inv, Linear, NEW h \in Handlers, BegunWithout(h) PROVE Linear'
  BY <1>2, LinearOther DEF BegunWithout
<1>3. ASSUME Inv, Linear, NEW h \in Handlers, Fail(h) PROVE Linear'
  <2>1. req'[h] = Idle /\ local'[h] = NoLocals /\ UNCHANGED <<store, undone, expired>>
    BY <1>3, FailOK, Facts DEF Ended
  <2> QED BY <1>3, <2>1, FailOK, IdleOK, LinearOther DEF Ended
<1>4. ASSUME Inv, Linear, Next PROVE Linear'
  BY <1>1, <1>2, <1>3, <1>4, Cases, ZkVerifyProofOK, GenerateOK, LinearVerify, LinearWorks, LinearWrite,
     LinearAround
<1>5. ASSUME Linear, UNCHANGED vars PROVE Linear'
  BY <1>5 DEF vars, Linear
<1> QED BY <1>4, <1>5

\* The third layer holds at first.
LEMMA LinearInit == Init => Linear
BY IdleOK DEF Init, Linear, LinearAt

-----------------------------------------------------------------------------
(* The fourth layer. *)

\* A step of one handler that stores nothing.
LEMMA ScopedFrame ==
  ASSUME Inv, Scoped, NEW h \in Handlers,
         req' = [req EXCEPT ![h] = req'[h]], local' = [local EXCEPT ![h] = local'[h]],
         UNCHANGED store, ScopedAt(req'[h], local'[h], store),
         req'[h].op = "prove" => \/ req[h].op = "prove" /\ local'[h].proof = local[h].proof
                                 \/ ~Held(local'[h].proof)
  PROVE  Scoped'
<1>1. ASSUME NEW g \in Handlers, g # h PROVE req'[g] = req[g] /\ local'[g] = local[g]
  BY <1>1, Facts
<1>2. \A g \in Handlers : ScopedAt(req'[g], local'[g], store')
  BY <1>1 DEF Scoped
<1>3. ASSUME NEW p \in Proofs, ~Stored(p), NEW g1 \in Handlers, NEW g2 \in Handlers,
             req'[g1].op = "prove", local'[g1].proof = p, req'[g2].op = "prove", local'[g2].proof = p
      PROVE  g1 = g2
  <2>1. CASE req'[h].op = "prove" /\ local'[h].proof = p /\ ~Held(p)
    BY <1>1, <1>3, <2>1 DEF Held
  <2>2. CASE ~(req'[h].op = "prove" /\ local'[h].proof = p /\ ~Held(p))
    <3>1. \A g \in Handlers : req'[g].op = "prove" /\ local'[g].proof = p =>
             req[g].op = "prove" /\ local[g].proof = p
      BY <1>1, <2>2
    <3> QED BY <1>3, <3>1 DEF Scoped
  <2> QED BY <2>1, <2>2
<1> QED BY <1>2, <1>3 DEF Scoped, Stored

\* Proofs a handler held before, and others as they are stored, agree with what
\* is stored.
LEMMA ScopedLearns ==
  ASSUME NEW r, NEW l, NEW f, NEW k, ScopedAt(r, l, store), Learns(f.session.objs, r.session.objs),
         f.op = r.op, k.proof = l.proof
  PROVE  ProofsHeld(f, k, store)
<1> DEFINE new == f.session.objs
           old == r.session.objs
<1>1. ASSUME NEW n \in DOMAIN new, new[n].id \in Proofs, store[new[n].id] # Absent
      PROVE  new[n].val.scope = store[new[n].id].scope
  BY <1>1 DEF ScopedAt, ProofsHeld, ProofHeld, Learns, Stored
<1>2. ASSUME NEW n \in DOMAIN new, new[n].id \in Proofs, store[new[n].id] = Absent
      PROVE  /\ f.op = "prove" /\ k.proof = new[n].id
             /\ \E m \in DOMAIN old : old[m].id = new[n].id /\ old[m].val.scope = new[n].val.scope
  BY <1>2 DEF ScopedAt, ProofsHeld, ProofHeld, Learns, Stored
<1>3. ASSUME NEW n \in DOMAIN new, NEW m \in DOMAIN new, new[n].id \in Proofs, new[m].id = new[n].id
      PROVE  new[m].val.scope = new[n].val.scope
  <2>1. CASE store[new[n].id] # Absent
    BY <1>1, <1>3, <2>1
  <2>2. CASE store[new[n].id] = Absent
    <3>1. PICK i \in DOMAIN old : old[i].id = new[n].id /\ old[i].val.scope = new[n].val.scope
      BY <1>2, <1>3, <2>2
    <3>2. PICK j \in DOMAIN old : old[j].id = new[m].id /\ old[j].val.scope = new[m].val.scope
      BY <1>2, <1>3, <2>2
    <3>3. old[j].val.scope = old[i].val.scope
      BY <1>3, <3>1, <3>2 DEF ScopedAt, ProofsHeld
    <3> QED BY <3>1, <3>2, <3>3
  <2> QED BY <2>1, <2>2
<1>4. \A n \in DOMAIN new : new[n].id \in Proofs => ProofHeld(new[n], f, k, store)
  BY <1>1, <1>2 DEF ProofHeld
<1> QED BY <1>3, <1>4 DEF ProofsHeld

\* The same proofs are no news.
LEMMA SameLearns ==
  ASSUME NEW new, NEW old, SameProofs(new, old)
  PROVE  Learns(new, old)
BY DEF SameProofs, Learns

\* The checks of a verification: the first one finds that the proof is stored
\* and covered.
LEMMA ScopedChecks ==
  ASSUME Inv, Scoped, NEW h \in Handlers,
         ReadProof(h) \/ ReadCredential(h) \/ ReadIssuer(h) \/ CheckSignature(h) \/ Judge(h)
  PROVE  Scoped'
<1> DEFINE r == req[h]
           l == local[h]
           f == req'[h]
           k == local'[h]
<1>1. /\ Works(h) /\ Learns(f.session.objs, r.session.objs)
      /\ r.pc \in Checks /\ At(r) = r.pc
  <2>1. Works(h) /\ Learns(f.session.objs, r.session.objs)
    BY ReadProofOK, ReadCredentialOK, ReadIssuerOK, CheckSignatureOK, JudgeOK, SameLearns
  <2>2. r.pc \in Checks
    BY DEF ReadProof, ReadCredential, ReadIssuer, CheckSignature, Judge, Checks
  <2> QED BY <2>1, <2>2, ChecksFacts
<1>2. ScopedAt(r, l, store) /\ f.op = r.op /\ k.proof = l.proof /\ k.scopes = l.scopes
  BY <1>1 DEF Scoped, Works
<1>3. ASSUME f.op = "prove", At(f) # "idle"
      PROVE  /\ store[k.proof] = Absent
             /\ \A n \in DOMAIN f.session.objs : f.session.objs[n].id \notin Proofs
  <2>1. CheckSignature(h)
    BY <1>3, ReadProofOK, ReadCredentialOK, ReadIssuerOK, JudgeOK
  <2>2. SameProofs(f.session.objs, r.session.objs) /\ At(r) = "signature" /\ r.op = "prove"
    BY <1>1, <1>2, <1>3, <2>1, CheckSignatureOK DEF CheckSignature
  <2> QED BY <1>2, <2>2 DEF ScopedAt, SameProofs
<1>4. ASSUME f.op = "verify",
             At(f) \in {"credential", "issuer", "signature", "judge"} \/ k.result = "valid"
      PROVE  store[k.proof] # Absent /\ Covered(store[k.proof].scope, k.scopes)
  <2>1. CASE ReadProof(h)
    BY <1>2, <1>4, <2>1, ReadProofOK DEF Stored
  <2>2. CASE ~ReadProof(h)
    <3>1. At(r) \in {"credential", "issuer", "signature", "judge"}
      BY <1>1, <2>2 DEF ReadCredential, ReadIssuer, CheckSignature, Judge
    <3> QED BY <1>2, <1>4, <3>1 DEF ScopedAt
  <2> QED BY <2>1, <2>2
<1>5. ProofsHeld(f, k, store)
  <2> HIDE DEF r, l, f, k
  <2> QED BY <1>1, <1>2, ScopedLearns
<1>6. ScopedAt(f, k, store)
  <2> HIDE DEF f, k
  <2> QED BY <1>3, <1>4, <1>5 DEF ScopedAt
<1> QED BY <1>1, <1>2, <1>6, ScopedFrame DEF Works

\* The proof that is added is the only one its handler holds.
LEMMA ScopedAdd ==
  ASSUME Inv, Scoped, NEW h \in Handlers, AddProof(h)
  PROVE  Scoped'
<1> DEFINE r == req[h]
           l == local[h]
           f == req'[h]
           k == local'[h]
<1>1. Works(h) /\ f.op = "prove" /\ At(r) = "prove" /\ At(f) = "idle"
  BY AddProofOK
<1>2. PICK o : /\ o.id = l.proof
               /\ \A n \in DOMAIN f.session.objs : f.session.objs[n].id \in Proofs =>
                    \/ f.session.objs[n] = o
                    \/ n \in DOMAIN r.session.objs /\ f.session.objs[n] = r.session.objs[n]
  BY AddProofOK
<1>3. /\ ScopedAt(r, l, store) /\ r.op = "prove" /\ k.proof = l.proof
  BY <1>1 DEF Scoped, Works
<1>4. /\ store[l.proof] = Absent
      /\ \A n \in DOMAIN r.session.objs : r.session.objs[n].id \notin Proofs
  BY <1>1, <1>3 DEF ScopedAt
<1>5. \A n \in DOMAIN f.session.objs : f.session.objs[n].id \in Proofs => f.session.objs[n] = o
  BY <1>2, <1>4
<1>6. ScopedAt(f, k, store)
  <2> HIDE DEF f, k
  <2> QED BY <1>1, <1>2, <1>3, <1>4, <1>5 DEF ScopedAt, ProofsHeld, ProofHeld
<1> QED BY <1>1, <1>3, <1>6, ScopedFrame DEF Works

\* A handler that starts with a consent holds no proof, and finds nothing valid.
LEMMA ScopedBegun ==
  ASSUME Inv, Scoped, NEW h \in Handlers, NEW o, Begun(h, o),
         req'[h].op = "verify" => At(req'[h]) \in {"idle", "proof"} /\ local'[h].result # "valid"
  PROVE  Scoped'
<1>1. ScopedAt(req'[h], local'[h], store)
  BY DEF ScopedAt, ProofsHeld, Begun
<1> QED BY <1>1, ScopedFrame DEF Begun

\* A handler that starts without one.
LEMMA ScopedWithout ==
  ASSUME Inv, Scoped, NEW h \in Handlers, BegunWithout(h)
  PROVE  Scoped'
<1>1. ASSUME NEW n \in DOMAIN req'[h].session.objs, req'[h].session.objs[n].id \in Proofs
      PROVE  /\ Stored(req'[h].session.objs[n].id)
             /\ req'[h].session.objs[n].val.scope = store[req'[h].session.objs[n].id].scope
  BY <1>1 DEF BegunWithout, Learns
<1>2. ScopedAt(req'[h], local'[h], store)
  BY <1>1 DEF ScopedAt, ProofsHeld, ProofHeld, BegunWithout, Stored
<1> QED BY <1>2, ScopedFrame DEF BegunWithout

\* A handler that is done.
LEMMA ScopedEnded ==
  ASSUME Inv, Scoped, NEW h \in Handlers, Ended(h), UNCHANGED store
  PROVE  Scoped'
<1>1. req'[h] = Idle /\ local'[h] = NoLocals
  BY Facts DEF Ended
<1>2. ScopedAt(req'[h], local'[h], store)
  BY <1>1, IdleOK DEF ScopedAt, ProofsHeld
<1> QED BY <1>1, <1>2, IdleOK, ScopedFrame DEF Ended

\* The documents agree in which proofs are stored, and in their scopes.
SameScopes(st, st2) ==
  \A p \in Proofs :
    \/ st[p] = Absent /\ st2[p] = Absent
    \/ st[p] # Absent /\ st2[p] # Absent /\ st2[p].scope = st[p].scope

\* What a handler holds then agrees with both.
LEMMA ScopedKept ==
  ASSUME NEW r, NEW l, NEW st, NEW st2, ScopedAt(r, l, st), SameScopes(st, st2),
         r.op \in {"prove", "verify"} => l.proof \in Proofs
  PROVE  ScopedAt(r, l, st2)
<1>1. ProofsHeld(r, l, st2)
  <2>1. ProofsHeld(r, l, st)
    BY DEF ScopedAt
  <2>2. \A o : o.id \in Proofs /\ ProofHeld(o, r, l, st) => ProofHeld(o, r, l, st2)
    BY DEF ProofHeld, SameScopes
  <2> QED BY <2>1, <2>2 DEF ProofsHeld
<1>2. ASSUME r.op = "prove", At(r) # "idle"
      PROVE  /\ st2[l.proof] = Absent
             /\ \A n \in DOMAIN r.session.objs : r.session.objs[n].id \notin Proofs
  <2>1. /\ st[l.proof] = Absent
        /\ \A n \in DOMAIN r.session.objs : r.session.objs[n].id \notin Proofs
    BY <1>2 DEF ScopedAt
  <2> QED BY <1>2, <2>1 DEF SameScopes
<1>3. r.op = "verify" /\ (At(r) \in {"credential", "issuer", "signature", "judge"} \/ l.result = "valid") =>
        st2[l.proof] # Absent /\ Covered(st2[l.proof].scope, l.scopes)
  BY DEF ScopedAt, SameScopes
<1> QED BY <1>1, <1>2, <1>3 DEF ScopedAt

\* What happens around the handlers leaves the proofs alone.
LEMMA ScopedAround ==
  ASSUME Inv, Scoped, Around
  PROVE  Scoped'
<1>1. /\ UNCHANGED <<req, local>> /\ \A p \in Proofs : store'[p] = store[p]
  BY AroundOK
<1>2. ASSUME NEW h \in Handlers PROVE ScopedAt(req[h], local[h], store')
  <2>1. req[h].op \in {"prove", "verify"} => local[h].proof \in Proofs
    BY Facts DEF Control
  <2>2. SameScopes(store, store')
    BY <1>1 DEF SameScopes
  <2>3. ScopedAt(req[h], local[h], store)
    BY DEF Scoped
  <2> QED BY <2>1, <2>2, <2>3, ScopedKept
<1> QED BY <1>1, <1>2 DEF Scoped, Stored

\* A write: a proof that is stored keeps its scope, and one that was not was
\* generated by the handler that stores it.
LEMMA ScopedWrite ==
  ASSUME Inv, Scoped, NEW h \in Handlers, NEW o, Stores(h, o), GoesOn(h)
  PROVE  Scoped'
<1>1. /\ o.id \in Proofs => o.val \in ProofDocs
      /\ DOMAIN store = Consents \cup Proofs \cup {Credential, Issuer}
      /\ Absent \notin ProofDocs
  <2>1. Absent \notin ProofDocs
    BY DEF Absent, ProofDocs
  <2> QED BY <2>1, Facts, ItemFacts DEF Stores
<1>2. \A p \in Proofs : store'[p] = IF p = o.id THEN o.val ELSE store[p]
  BY <1>1, OtherIds DEF Stores
<1>3. ASSUME NEW g \in Handlers, g # h PROVE req'[g] = req[g] /\ local'[g] = local[g]
  BY <1>3, Facts DEF GoesOn, Ended
<1>4. \/ req'[h] = Idle /\ local'[h] = NoLocals
      \/ /\ req'[h].session.objs = req[h].session.objs /\ req'[h].op = req[h].op
         /\ At(req'[h]) = At(req[h]) /\ local'[h] = local[h]
  BY Facts DEF GoesOn, Ended
<1>5. PICK n \in DOMAIN req[h].session.objs : o = req[h].session.objs[n]
  BY DEF Stores
<1>6. ASSUME NEW g \in Handlers PROVE ScopedAt(req[g], local[g], store')
  <2> DEFINE r == req[g]
             l == local[g]
  <2>1. ScopedAt(r, l, store) /\ (r.op \in {"prove", "verify"} => l.proof \in Proofs)
    BY Facts DEF Scoped, Control
  <2>2. CASE o.id \notin Proofs \/ Stored(o.id)
    <3>1. SameScopes(store, store')
      <4>1. o.id \in Proofs => o.val.scope = store[o.id].scope
        BY <1>5, <2>2 DEF Scoped, ScopedAt, ProofsHeld, ProofHeld, Stored
      <4> QED BY <1>1, <1>2, <2>2, <4>1 DEF SameScopes, Stored
    <3> QED BY <2>1, <3>1, ScopedKept
  <2>3. CASE o.id \in Proofs /\ ~Stored(o.id)
    <3> DEFINE p == o.id
    <3>1. /\ req[h].op = "prove" /\ local[h].proof = p /\ At(req[h]) = "idle"
      BY <1>5, <2>3 DEF Scoped, ScopedAt, ProofsHeld, ProofHeld, Stored
    <3>2. r.op = "prove" /\ l.proof = p => g = h
      BY <2>3, <3>1 DEF Scoped
    <3>3. store'[p] # Absent /\ store'[p].scope = o.val.scope /\ store[p] = Absent
      BY <1>1, <1>2, <2>3 DEF Stored
    <3>4. \A q \in Proofs \ {p} : store'[q] = store[q]
      BY <1>2
    <3>5. ASSUME NEW m \in DOMAIN r.session.objs, r.session.objs[m].id \in Proofs
          PROVE  ProofHeld(r.session.objs[m], r, l, store')
      <4>1. CASE r.session.objs[m].id # p
        <5>1. store'[r.session.objs[m].id] = store[r.session.objs[m].id]
          BY <3>4, <3>5, <4>1
        <5>2. ProofHeld(r.session.objs[m], r, l, store)
          BY <2>1, <3>5 DEF ScopedAt, ProofsHeld
        <5> QED BY <5>1, <5>2 DEF ProofHeld
      <4>2. CASE r.session.objs[m].id = p
        <5>1. g = h
          BY <2>1, <3>2, <3>3, <3>5, <4>2 DEF ScopedAt, ProofsHeld, ProofHeld
        <5>2. r.session.objs[m].val.scope = o.val.scope
          BY <1>5, <2>1, <2>3, <3>5, <4>2, <5>1 DEF ScopedAt, ProofsHeld
        <5> QED BY <3>3, <4>2, <5>2 DEF ProofHeld
      <4> QED BY <4>1, <4>2
    <3>6. ASSUME r.op = "prove", At(r) # "idle"
          PROVE  /\ store'[l.proof] = Absent
                 /\ \A m \in DOMAIN r.session.objs : r.session.objs[m].id \notin Proofs
      <4>1. g # h /\ l.proof # p
        BY <3>1, <3>2, <3>6
      <4>2. store'[l.proof] = store[l.proof]
        BY <2>1, <3>4, <3>6, <4>1
      <4> QED BY <2>1, <3>6, <4>2 DEF ScopedAt
    <3>7. ASSUME r.op = "verify",
                 At(r) \in {"credential", "issuer", "signature", "judge"} \/ l.result = "valid"
          PROVE  store'[l.proof] # Absent /\ Covered(store'[l.proof].scope, l.scopes)
      <4>1. store[l.proof] # Absent /\ Covered(store[l.proof].scope, l.scopes)
        BY <2>1, <3>7 DEF ScopedAt
      <4>2. store'[l.proof] = store[l.proof]
        BY <2>1, <3>3, <3>4, <3>7, <4>1
      <4> QED BY <4>1, <4>2
    <3>8. \A m, i \in DOMAIN r.session.objs :
            r.session.objs[m].id \in Proofs /\ r.session.objs[i].id = r.session.objs[m].id =>
              r.session.objs[i].val.scope = r.session.objs[m].val.scope
      BY <2>1 DEF ScopedAt, ProofsHeld
    <3>9. ScopedAt(r, l, store')
      <4> HIDE DEF r, l, p
      <4>1. ProofsHeld(r, l, store')
        BY <3>5, <3>8 DEF ProofsHeld
      <4> QED BY <3>6, <3>7, <4>1 DEF ScopedAt
    <3> QED BY <3>9
  <2> QED BY <2>2, <2>3
<1>7. ASSUME NEW g \in Handlers PROVE ScopedAt(req'[g], local'[g], store')
  <2>1. CASE g # h
    BY <1>3, <1>6, <2>1
  <2>2. CASE g = h /\ req'[h] = Idle
    BY <2>2, IdleOK DEF ScopedAt, ProofsHeld
  <2>3. CASE g = h /\ req'[h] # Idle
    <3>1. /\ req'[h].session.objs = req[h].session.objs /\ req'[h].op = req[h].op
          /\ At(req'[h]) = At(req[h]) /\ local'[h] = local[h]
      BY <1>4, <2>3
    <3>2. ScopedAt(req[h], local[h], store')
      BY <1>6
    <3>3. At(req'[g]) = At(req[g]) /\ \A z : ProofHeld(z, req'[g], local'[g], store') <=>
                                             ProofHeld(z, req[g], local[g], store')
      BY <2>3, <3>1 DEF ProofHeld
    <3> QED BY <2>3, <3>1, <3>2, <3>3 DEF ScopedAt, ProofsHeld
  <2> QED BY <2>1, <2>2, <2>3
<1>8. ASSUME NEW p \in Proofs, store'[p] = Absent, NEW g1 \in Handlers, NEW g2 \in Handlers,
             req'[g1].op = "prove", local'[g1].proof = p, req'[g2].op = "prove", local'[g2].proof = p
      PROVE  g1 = g2
  <2>1. store[p] = Absent
    BY <1>1, <1>2, <1>8
  <2>2. \A g \in Handlers : req'[g].op = "prove" /\ local'[g].proof = p =>
          req[g].op = "prove" /\ local[g].proof = p
    BY <1>3, <1>4, IdleOK
  <2> QED BY <1>8, <2>1, <2>2 DEF Scoped, Stored
<1> QED BY <1>7, <1>8 DEF Scoped, Stored

\* The fourth layer holds at first.
LEMMA ScopedInit == Init => Scoped
<1> SUFFICES ASSUME Init PROVE Scoped
  OBVIOUS
<1>1. \A h \in Handlers : req[h] = Idle /\ local[h] = NoLocals
  BY DEF Init
<1>2. \A h \in Handlers : ScopedAt(req[h], local[h], store)
  BY <1>1, IdleOK DEF ScopedAt, ProofsHeld
<1> QED BY <1>1, <1>2, IdleOK DEF Scoped

\* Every step preserves the fourth layer.
LEMMA ScopedNext == Inv /\ Scoped /\ [Next]_vars => Scoped'
<1>1. ASSUME Inv, Scoped, NEW h \in Handlers, NEW c \in Consents,
             \/ \E scopes \in SUBSET Scopes, expires \in BOOLEAN : RequestConsent(h, c, scopes, expires)
             \/ Approve(h, c) \/ Deny(h, c) \/ RevokeConsent(h, c)
             \/ \E p \in Proofs : Verify(h, c, p)
      PROVE  Scoped'
  <2>1. CASE \E p \in Proofs : Verify(h, c, p)
    <3>1. /\ \E o : Begun(h, o)
          /\ At(req'[h]) \in {"idle", "proof"} /\ local'[h].result # "valid"
      BY <1>1, <2>1, VerifyOK
    <3> QED BY <1>1, <3>1, ScopedBegun
  <2>2. CASE ~\E p \in Proofs : Verify(h, c, p)
    <3>1. req'[h].op \in {"request", "approve", "deny", "revoke"} /\ \E o : Begun(h, o)
      BY ZenonT(60), <1>1, <2>2, RequestOK, ApproveOK, DenyOK, RevokeOK
    <3> QED BY <1>1, <3>1, ScopedBegun
  <2> QED BY <2>1, <2>2
<1>2. ASSUME Inv, Scoped, NEW h \in Handlers, Write(h) PROVE Scoped'
  BY <1>2, WriteOK, ScopedWrite
<1>3. ASSUME Inv, Scoped, NEW h \in Handlers, Fail(h) PROVE Scoped'
  BY <1>3, FailOK, ScopedEnded
<1>4. ASSUME Inv, Scoped, Next PROVE Scoped'
  BY <1>1, <1>2, <1>3, <1>4, Cases, ZkVerifyProofOK, GenerateOK, ScopedWithout, ScopedChecks, ScopedAdd,
     ScopedAround
<1>5. ASSUME Scoped, UNCHANGED vars PROVE Scoped'
  BY <1>5 DEF vars, Scoped, Stored
<1> QED BY <1>4, <1>5

-----------------------------------------------------------------------------
(* The properties. *)

\* The layers imply the invariants the runs check.
LEMMA Implied ==
  Inv /\ Fresh /\ Linear /\ Scoped => TypeOK /\ AnswersAudited /\ DisclosureAudited /\ ValidLinearizes
<1> SUFFICES ASSUME Inv, Fresh, Linear, Scoped
             PROVE  TypeOK /\ AnswersAudited /\ DisclosureAudited /\ ValidLinearizes
  OBVIOUS
<1>1. TypeOK
  <2>1. Verdicts \subseteq {"unset", "yes", "no"}
    BY DEF Verdicts
  <2>2. \A h \in Handlers : local[h].result \in Results /\ local[h].scopes \subseteq Scopes
    BY Facts DEF Locals
  <2> QED BY <2>1, <2>2, Facts DEF TypeOK, Fresh, ConsentDocs, ProofDocs, Profiles
<1>2. AnswersAudited
  <2> SUFFICES ASSUME NEW c \in Consents, Stored(c)
               PROVE  /\ store[c].status = "approved" => Logged("approve", c, store[c].scopes)
                      /\ store[c].status = "denied" => Logged("deny", c, store[c].scopes)
                      /\ store[c].status = "revoked"
                           => Logged("revoke", c, {}) /\ Logged("approve", c, store[c].scopes)
    BY DEF AnswersAudited
  <2>1. \A op \in Ops : Event(op, c, {}) \in Events /\ Event(op, c, store[c].scopes) \in Events
    BY Facts DEF Event, Events, ConsentDocs
  <2>2. \A e \in Events : Needs([id |-> c, val |-> store[c]], e) => <<"audit", e>> \in inserted
    BY DEF Inv, StoreOK
  <2> QED BY <2>1, <2>2 DEF Needs, Logged, Ops
<1>3. DisclosureAudited
  <2> SUFFICES ASSUME NEW h \in Handlers, req[h].op = "verify"
               PROVE  /\ local[h].result \notin {"none", "consent_denied"}
                           => Logged("approve", local[h].consent, local[h].scopes)
                      /\ local[h].result = "valid"
                           => /\ Stored(local[h].proof)
                              /\ Covered(store[local[h].proof].scope, local[h].scopes)
    BY DEF DisclosureAudited
  <2>1. Disclosed(req[h], local[h], inserted) /\ ScopedAt(req[h], local[h], store)
    BY DEF Inv, HandlerOK, Scoped
  <2> QED BY <2>1 DEF Disclosed, ScopedAt, Logged, Stored
<1>4. ValidLinearizes
  BY DEF Linear, LinearAt, ValidLinearizes
<1> QED BY <1>1, <1>2, <1>3, <1>4

\* A consent changes only when a handler stores it.
LEMMA OnlyWrites ==
  ASSUME Inv, Next, NEW c \in Consents, store'[c] # store[c]
  PROVE  \E h \in Handlers : Write(h)
BY Cases, RequestOK, ApproveOK, DenyOK, RevokeOK, VerifyOK, ZkVerifyProofOK, GenerateOK,
   ReadProofOK, ReadCredentialOK, ReadIssuerOK, CheckSignatureOK, JudgeOK, AddProofOK,
   FailOK, AroundOK DEF Begun, BegunWithout, Works

\* What handler h stores follows what is stored, or h had read it before.
LEMMA WritesInOrder ==
  ASSUME Inv, Fresh, NEW c \in Consents, Stored(c), store'[c] # store[c], NEW h \in Handlers, Write(h)
  PROVE  \/ <<store[c].status, store'[c].status>> \in InOrderOf
         \/ req[h].pc = "flush" /\ <<h, c>> \in stale
<1> DEFINE o == NextObject(req[h])
<1>1. Stores(h, o)
  BY WriteOK
<1> HIDE DEF o
<1>2. o.id = c /\ store'[c] = o.val /\ req[h].pc = "flush"
  BY <1>1, Facts DEF Stores
<1>3. Current(h, o, store, stale)
  BY <1>1, <1>2 DEF Stores, Fresh, FreshAt
<1> QED BY <1>2, <1>3 DEF Current, Stored

\* The four layers hold in every reachable state.
THEOREM Layers == Spec => [](Inv /\ Fresh /\ Linear /\ Scoped)
<1>1. Init => Inv /\ Fresh /\ Linear /\ Scoped
  BY InitOK, FreshInit, LinearInit, ScopedInit
<1>2. Inv /\ Fresh /\ Linear /\ Scoped /\ [Next]_vars => (Inv /\ Fresh /\ Linear /\ Scoped)'
  BY NextOK, FreshNext, LinearNext, ScopedNext
<1> QED BY <1>1, <1>2, PTL DEF Spec

\* Every reachable state is well typed, and only what expires has expired.
THEOREM TypeCorrect == Spec => []TypeOK
BY Layers, Implied, PTL

\* logger.py, lines 2-4, for any number of handlers and consents: an answer or a
\* revocation that is stored is on the audit trail, wherever a process died.
THEOREM Answers == Spec => []AnswersAudited
BY Layers, Implied, PTL

\* models/consent.py, lines 18-22: every result a verifier gets, other than that
\* consent is denied, rests on an approval of just these scopes that is on the
\* audit trail; and a proof found valid is stored and about a claim that one of
\* these scopes mentions (about the claim, not of the predicate approved).
THEOREM Disclosures == Spec => []DisclosureAudited
BY Layers, Implied, PTL

\* If no revocation or block was lost, a proof found valid was in force when the
\* request came in, all at once: the consent approved, it and the proof not
\* expired, the credential active and the issuer in good standing; although the
\* handler reads them one by one.
THEOREM Linearizable == Spec => []ValidLinearizes
BY Layers, Implied, PTL

\* Whatever scalars the provers draw, no handler ever notes in a proof that it
\* is inconsistent.
THEOREM HonestProofs == Spec => []HonestProofsVerify
<1>1. Inv => HonestProofsVerify
  BY Facts DEF HonestProofsVerify, ProofDocs, Verdicts
<1> QED BY <1>1, Invariance, PTL

\* consent.py, lines 66-67: answers follow the order of ConsentStatus, except
\* what a handler had read before another stored it.
THEOREM InOrderOnly == Spec => ChangedOnlyInOrder
<1> DEFINE A == \A c \in Consents :
                  Stored(c) /\ store'[c] # store[c]
                    => \/ <<store[c].status, store'[c].status>> \in
                            {<<"pending", "approved">>, <<"pending", "denied">>, <<"approved", "revoked">>}
                       \/ \E h \in Handlers : req[h].pc = "flush" /\ <<h, c>> \in stale
<1>1. ASSUME Inv, Fresh, [Next]_vars PROVE [A]_vars
  <2>1. ASSUME Next PROVE A
    BY <1>1, <2>1, OnlyWrites, WritesInOrder DEF InOrderOf
  <2> QED BY <1>1, <2>1
<1>2. Inv /\ Fresh /\ Linear /\ Scoped /\ [Next]_vars => [A]_vars
  BY <1>1
<1> QED BY <1>2, Layers, PTL DEF Spec, ChangedOnlyInOrder


\* consent.py, lines 66-67, as it is meant: if one request is handled at a time,
\* an answer to a consent request is final, and a revocation too.
THEOREM SerialAnswersFinal ==
  ASSUME \A g, h \in Handlers : g = h
  PROVE  Spec => AnswerIsFinal
<1> DEFINE A == \A c \in Consents :
                  Stored(c) /\ store'[c] # store[c]
                    => \/ <<store[c].status, store'[c].status>> \in
                            {<<"pending", "approved">>, <<"pending", "denied">>, <<"approved", "revoked">>}
                       \/ \E h \in Handlers : req[h].pc = "flush" /\ <<h, c>> \in stale
           B == \A c \in Consents :
                  Stored(c) /\ store[c].status # "pending"
                    => store'[c].status \notin {"pending", "approved", "denied"} \ {store[c].status}
<1>1. Init => stale = {}
  BY DEF Init
<1>2. ASSUME stale = {}, [Next]_vars PROVE stale' = {}
  <2>1. ASSUME NEW h \in Handlers, Write(h) PROVE stale' = {}
    <3>1. {g \in Handlers \ {h} : ~Idles(g)} = {}
      OBVIOUS
    <3> QED BY <1>2, <2>1, <3>1 DEF Write
  <2>2. ASSUME Next PROVE stale' = {} \/ \E h \in Handlers : Write(h)
    <3>1. ASSUME NEW h \in Handlers, NEW c \in Consents,
                 \/ \E scopes \in SUBSET Scopes, expires \in BOOLEAN : RequestConsent(h, c, scopes, expires)
                 \/ Approve(h, c) \/ Deny(h, c) \/ RevokeConsent(h, c)
                 \/ \E p \in Proofs : Verify(h, c, p)
          PROVE  stale' \subseteq stale
      BY <3>1 DEF RequestConsent, Approve, Deny, RevokeConsent, Begin, Verify
    <3>2. ASSUME NEW h \in Handlers,
                 \/ \E p \in Proofs : \/ ZkVerifyProof(h, p)
                                      \/ \E scope \in Scopes : \E pc \in {"signature", "prove"} :
                                           Generate(h, p, scope, pc)
                 \/ ReadProof(h) \/ ReadCredential(h) \/ ReadIssuer(h)
          PROVE  stale' \subseteq stale
      BY <3>2 DEF ZkVerifyProof, Generate, ReadProof, ReadCredential, ReadIssuer
    <3>3. ASSUME NEW h \in Handlers, CheckSignature(h) \/ Judge(h) \/ AddProof(h) \/ Fail(h)
          PROVE  stale' \subseteq stale
      BY <3>3 DEF CheckSignature, Judge, AddProof, Fail
    <3>4. ASSUME Around PROVE stale' \subseteq stale
      BY <3>4 DEF Around, RevokeCredential, BlockIssuer, StoreStaleCopy, Expire
    <3> QED BY <1>2, <2>2, <3>1, <3>2, <3>3, <3>4, Cases
  <2> QED BY <1>2, <2>1, <2>2 DEF vars
<1>3. (stale = {}) /\ [A]_vars => [B]_vars
  BY DEF vars
<1>4. (stale = {}) /\ [Next]_vars => (stale = {})'
  BY <1>2
<1>5. Spec => [][A]_vars
  BY InOrderOnly DEF ChangedOnlyInOrder
<1> QED BY <1>1, <1>3, <1>4, <1>5, PTL DEF Spec, AnswerIsFinal
================================================================================
