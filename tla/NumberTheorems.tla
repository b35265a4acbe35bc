---------------------------- MODULE NumberTheorems ----------------------------
(***************************************************************************)
(* What the proofs need of the numbers: the least and the greatest member  *)
(* of a set of naturals, and division.                                     *)
(***************************************************************************)
EXTENDS Integers, WellFoundedInduction, TLAPS

(***************************************************************************)
(* Sets of naturals.                                                       *)
(***************************************************************************)

\* A non-empty set of naturals has a least member.
LEMMA HasLeast ==
  ASSUME NEW S \in SUBSET Nat, S # {}
  PROVE  \E m \in S : \A n \in S : m <= n
PROOF
  <1> DEFINE R == OpToRel(<, Nat)
  <1>1. IsWellFoundedOn(R, Nat)
    BY NatLessThanWellFounded, Zenon
  <1>2. \A x, y \in Nat : x < y => <<x, y>> \in R
    BY DEF OpToRel
  <1> HIDE DEF R
  <1>3. \E x \in S : \A y \in S : ~ (<<y, x>> \in R)
    BY <1>1, WFMin
  <1>4. PICK m \in S : \A n \in S : ~(<<n, m>> \in R)
    BY <1>3
  <1>5. ASSUME NEW n \in S PROVE m <= n
    <2>1. m \in Nat /\ n \in Nat
      OBVIOUS
    <2>2. ~(n < m)
      BY <1>2, <1>4, <2>1
    <2> QED BY <2>1, <2>2
  <1> QED BY <1>4, <1>5

\* One that is bounded has a greatest.
LEMMA HasGreatest ==
  ASSUME NEW S \in SUBSET Nat, S # {}, NEW b \in Nat, \A s \in S : s <= b
  PROVE  \E m \in S : \A n \in S : n <= m
PROOF
  <1> DEFINE U == {u \in Nat : \A s \in S : s <= u}
  <1>1. PICK u \in U : \A v \in U : u <= v
    <2>1. U \in SUBSET Nat /\ U # {}
      OBVIOUS
    <2> HIDE DEF U
    <2> QED BY <2>1, HasLeast
  <1>2. u \in S
    <2> SUFFICES ASSUME u \notin S PROVE FALSE
      OBVIOUS
    <2>1. \A s \in S : s <= u - 1
      BY <1>1
    <2>2. u - 1 \in Nat
      <3>1. PICK s \in S : TRUE
        OBVIOUS
      <3> QED BY <2>1, <3>1
    <2>3. u - 1 \in U
      BY <2>1, <2>2
    <2> QED BY <1>1, <2>2, <2>3
  <1> QED BY <1>1, <1>2

(***************************************************************************)
(* Division.                                                               *)
(***************************************************************************)

\* Quotient and remainder.
LEMMA DivMod ==
  ASSUME NEW x \in Int, NEW n \in Nat \ {0}
  PROVE  x \div n \in Int /\ x % n \in 0..(n - 1) /\ x = n * (x \div n) + (x % n)
  OBVIOUS

\* There is one way to divide.
LEMMA OneQuotient ==
  ASSUME NEW n \in Nat \ {0}, NEW q \in Int, NEW p \in Int, NEW r \in 0..(n - 1), NEW s \in 0..(n - 1),
         n * q + r = n * p + s
  PROVE  q = p /\ r = s
PROOF
  <1>1. \A k \in Int : k >= 1 => n * k >= n
    OBVIOUS
  <1>2. n * (q - p) = s - r /\ n * (p - q) = r - s
    OBVIOUS
  <1>3. ~(q - p >= 1) /\ ~(p - q >= 1)
    BY <1>1, <1>2
  <1>4. q = p
    BY <1>3
  <1> QED BY <1>4

LEMMA Divided ==
  ASSUME NEW n \in Nat \ {0}, NEW q \in Int, NEW r \in 0..(n - 1)
  PROVE  (n * q + r) \div n = q /\ (n * q + r) % n = r
PROOF
  <1>1. n * q + r \in Int
    OBVIOUS
  <1> QED BY <1>1, DivMod, OneQuotient

\* A remainder keeps its own remainder for a divisor of the divisor.
LEMMA Remainders ==
  ASSUME NEW n \in Nat \ {0}, NEW k \in Nat \ {0}, k % n = 0, NEW x \in Int
  PROVE  (x % k) % n = x % n /\ x % n \in 0..(x % k)
PROOF
  <1>1. PICK a \in Int : k = n * a
    <2>1. k \div n \in Int /\ k = n * (k \div n) + (k % n)
      BY DivMod
    <2> QED BY <2>1
  <1>2. PICK q \in Int : x = k * q + (x % k)
    <2>1. x \div k \in Int /\ x = k * (x \div k) + (x % k)
      BY DivMod
    <2> QED BY <2>1
  <1>3. PICK r \in Int : r = x % k /\ 0 <= r
    <2>1. x % k \in 0..(k - 1)
      BY DivMod
    <2> QED BY <2>1
  <1>4. PICK p \in Int : r = n * p + (r % n)
    <2>1. r \div n \in Int /\ r = n * (r \div n) + (r % n)
      BY DivMod
    <2> QED BY <2>1
  <1>5. PICK s \in 0..(n - 1) : s = r % n
    <2>1. r % n \in 0..(n - 1)
      BY DivMod
    <2> QED BY <2>1
  <1>6. x = n * (a * q + p) + s /\ a * q + p \in Int
    <2>1. k * q = n * (a * q)
      BY <1>1
    <2>2. n * (a * q + p) = n * (a * q) + n * p
      OBVIOUS
    <2> QED BY <1>2, <1>3, <1>4, <1>5, <2>1, <2>2
  <1>7. x % n = s
    BY <1>6, Divided
  <1>8. n * p >= 0
    <2>1. ASSUME p <= -1 PROVE n * p <= -n
      BY <2>1
    <2>2. p >= 0
      BY <1>3, <1>4, <1>5, <2>1
    <2> QED BY <2>2
  <1>9. s \in 0..r
    BY <1>3, <1>4, <1>5, <1>8
  <1> QED BY <1>3, <1>5, <1>7, <1>9

\* The multiples of a number, counted.
LEMMA Multiples ==
  ASSUME NEW i \in Nat \ {0}, NEW n \in Nat, NEW x \in 0..n
  PROVE  x % i = 0 <=> \E k \in 0..n : x = k * i
PROOF
  <1>1. ASSUME x % i = 0 PROVE \E k \in 0..n : x = k * i
    <2>1. PICK q \in Int : x = i * q
      <3>1. x \div i \in Int /\ x = i * (x \div i) + (x % i)
        BY DivMod
      <3> QED BY <1>1, <3>1
    <2>2. q >= 0
      <3>1. ASSUME q <= -1 PROVE i * q <= -i
        BY <3>1
      <3> QED BY <2>1, <3>1
    <2>3. i * q >= q
      <3>1. (i - 1) * q >= 0
        BY <2>2
      <3> QED BY <3>1
    <2>4. q \in 0..n /\ x = q * i
      BY <2>1, <2>2, <2>3
    <2> QED BY <2>4
  <1>2. ASSUME NEW k \in 0..n, x = k * i PROVE x % i = 0
    <2>1. x = i * k + 0
      BY <1>2
    <2> QED BY <2>1, Divided
  <1> QED BY <1>1, <1>2

===============================================================================
