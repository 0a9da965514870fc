------------------------------ MODULE Numbers ------------------------------
(***************************************************************************)
(* What the proofs need of the natural numbers: \div and % when the        *)
(* divisor is a variable, induction over a set, and functions that are     *)
(* defined from one number to the next, and powers among these.            *)
(***************************************************************************)
EXTENDS Powers, WellFoundedInduction, TLAPS

\* Division by a variable, from the definition of \div and %.
LEMMA Division ==
  ASSUME NEW n \in Nat, NEW k \in Nat, k >= 1
  PROVE  /\ n \div k \in Nat
         /\ k * (n \div k) <= n
         /\ n < k * (n \div k) + k
<1>1. n = k * (n \div k) + (n % k) /\ n % k \in Nat /\ n \div k \in Nat /\ n % k < k
  OBVIOUS
<1>2. k * (n \div k) \in Nat
  BY <1>1
<1> QED
  BY <1>1, <1>2

\* The order of two multiples is the order of the factors.
LEMMA FactorsInOrder ==
  ASSUME NEW k \in Nat, k >= 1, NEW a \in Int, NEW b \in Int, a <= b
  PROVE  k * a <= k * b
<1>1. PICK e \in Nat : b = a + e
  <2>1. b - a \in Nat /\ b = a + (b - a)
    OBVIOUS
  <2> QED
    BY <2>1
<1>2. k * b = k * a + k * e
  BY <1>1
<1>3. k * e \in Nat /\ k * a \in Int
  OBVIOUS
<1> QED
  BY <1>2, <1>3

\* A number between two neighbouring multiples of k has the lower one's factor
\* as its quotient.
LEMMA QuotientIs ==
  ASSUME NEW n \in Nat, NEW k \in Nat, k >= 1, NEW q \in Nat,
         k * q <= n, n < k * q + k
  PROVE  n \div k = q
<1> DEFINE p == n \div k
<1>1. p \in Nat /\ k * p <= n /\ n < k * p + k
  BY Division
<1>2. k * (p + 1) = k * p + k /\ k * (q + 1) = k * q + k
  BY <1>1
<1>3. k * p \in Nat /\ k * q \in Nat
  BY <1>1
<1> HIDE DEF p
<1>4. ~ p + 1 <= q
  <2> SUFFICES ASSUME p + 1 <= q PROVE FALSE
    OBVIOUS
  <2>1. k * (p + 1) <= k * q
    BY <1>1, FactorsInOrder
  <2> QED
    BY <2>1, <1>1, <1>2, <1>3
<1>5. ~ q + 1 <= p
  <2> SUFFICES ASSUME q + 1 <= p PROVE FALSE
    OBVIOUS
  <2>1. k * (q + 1) <= k * p
    BY <1>1, FactorsInOrder
  <2> QED
    BY <2>1, <1>1, <1>2, <1>3
<1>6. p = q
  BY <1>1, <1>4, <1>5
<1> QED
  BY <1>6 DEF p

-----------------------------------------------------------------------------
\* A set of numbers has a least one.
LEMMA LeastOf ==
  ASSUME NEW S, S \subseteq Nat, S # {}
  PROVE  \E m \in S : \A n \in S : m <= n
<1> DEFINE R == {ss \in Nat \X Nat : ss[1] < ss[2]}
<1>1. IsWellFoundedOn(R, Nat)
  BY NatLessThanWellFounded DEF OpToRel
<1> HIDE DEF R
<1>2. PICK m \in S : \A n \in S : ~ (<<n, m>> \in R)
  BY <1>1, WFMin, Zenon
<1>3. \A n \in S : ~ (n < m)
  BY <1>2 DEF R
<1> QED
  BY <1>3

\* Induction, as a fact about a set.
LEMMA SetInduction ==
  ASSUME NEW S, 0 \in S, \A n \in Nat : n \in S => n + 1 \in S
  PROVE  Nat \subseteq S
<1> SUFFICES ASSUME Nat \ S # {} PROVE FALSE
  OBVIOUS
<1>1. PICK m \in Nat \ S : \A n \in Nat \ S : m <= n
  BY LeastOf
<1>2. m - 1 \in Nat /\ m - 1 \in S
  BY <1>1
<1>3. m - 1 + 1 \in S
  BY <1>2
<1> QED
  BY <1>1, <1>3

\* A walk: where one is after so many steps from x.
WalkOf(at, a, n, f, x) ==
  at = [k \in a .. n |-> IF k = a THEN x ELSE f[at[k - 1]]]

\* A function defined from each number to the next exists.
LEMMA WalkExists ==
  ASSUME NEW X, NEW x \in X, NEW f \in [X -> X], NEW a \in Nat, NEW n \in Nat, a <= n
  PROVE  \E at \in [a .. n -> X] : WalkOf(at, a, n, f, x)
<1> DEFINE S == {m \in Nat : \E at \in [a .. a + m -> X] : WalkOf(at, a, a + m, f, x)}
<1>1. 0 \in S
  <2> DEFINE at == [k \in a .. a + 0 |-> x]
  <2>1. at \in [a .. a + 0 -> X]
    OBVIOUS
  <2>2. \A k \in a .. a + 0 : k = a
    OBVIOUS
  <2>3. at = [k \in a .. a + 0 |-> IF k = a THEN x ELSE f[at[k - 1]]]
    BY <2>2
  <2> HIDE DEF at
  <2> QED
    BY <2>1, <2>3 DEF WalkOf
<1>2. ASSUME NEW m \in Nat, m \in S PROVE m + 1 \in S
  <2>1. PICK at \in [a .. a + m -> X] : WalkOf(at, a, a + m, f, x)
    BY <1>2
  <2> DEFINE next == [k \in a .. a + (m + 1) |-> IF k = a + (m + 1) THEN f[at[a + m]] ELSE at[k]]
  <2>2. next \in [a .. a + (m + 1) -> X]
    BY <2>1
  <2>3. \A k \in a .. a + m : at[k] = IF k = a THEN x ELSE f[at[k - 1]]
    BY <2>1 DEF WalkOf
  <2>4. \A k \in a .. a + (m + 1) : next[k] = IF k = a THEN x ELSE f[next[k - 1]]
    <3> SUFFICES ASSUME NEW k \in a .. a + (m + 1)
                 PROVE  next[k] = IF k = a THEN x ELSE f[next[k - 1]]
      OBVIOUS
    <3>1. CASE k = a + (m + 1)
      <4>1. k # a /\ k - 1 = a + m /\ k - 1 \in a .. a + (m + 1) /\ k - 1 # a + (m + 1)
        BY <3>1
      <4> QED
        BY <3>1, <4>1
    <3>2. CASE k # a + (m + 1)
      <4>1. k \in a .. a + m /\ (k # a => k - 1 \in a .. a + (m + 1) /\ k - 1 # a + (m + 1))
        BY <3>2
      <4> QED
        BY <2>3, <3>2, <4>1
    <3> QED
      BY <3>1, <3>2
  <2> HIDE DEF next
  <2>5. WalkOf(next, a, a + (m + 1), f, x)
    BY <2>2, <2>4 DEF WalkOf
  <2> QED
    BY <2>2, <2>5
<1> HIDE DEF S
<1>3. Nat \subseteq S
  BY <1>1, <1>2, SetInduction
<1>4. n - a \in S /\ a + (n - a) = n
  BY <1>3
<1> QED
  BY <1>4 DEF S

\* What holds at the start of a walk and over each step holds all along it.
LEMMA WalkStays ==
  ASSUME NEW a \in Nat, NEW n \in Nat, NEW at, NEW Y,
         at[a] \in Y,
         \A k \in a + 1 .. n : at[k - 1] \in Y => at[k] \in Y
  PROVE  \A k \in a .. n : at[k] \in Y
<1> SUFFICES ASSUME NEW k \in a .. n, at[k] \notin Y PROVE FALSE
  OBVIOUS
<1> DEFINE S == {j \in Nat : j \in a .. n /\ at[j] \notin Y}
<1>1. S # {} /\ S \subseteq Nat
  BY DEF S
<1> HIDE DEF S
<1>2. PICK m \in S : \A j \in S : m <= j
  BY <1>1, LeastOf
<1>3. m \in a .. n /\ m \in Nat /\ at[m] \notin Y
  BY <1>2 DEF S
<1>4. m # a
  BY <1>3
<1>5. m \in a + 1 .. n /\ m - 1 \in a .. n /\ m - 1 \in Nat
  BY <1>3, <1>4
<1>6. at[m - 1] \in Y
  BY <1>2, <1>5 DEF S
<1> QED
  BY <1>3, <1>5, <1>6

-----------------------------------------------------------------------------
\* Two functions that start alike and go on alike are the same.
LEMMA SameWalk ==
  ASSUME NEW n \in Nat, NEW f, NEW g, f[0] = g[0],
         \A k \in 1 .. n : f[k - 1] = g[k - 1] => f[k] = g[k]
  PROVE  \A k \in 0 .. n : f[k] = g[k]
<1> DEFINE S == {k \in Nat : k <= n => f[k] = g[k]}
<1>1. 0 \in S
  OBVIOUS
<1>2. ASSUME NEW k \in Nat, k \in S PROVE k + 1 \in S
  <2> SUFFICES ASSUME k + 1 <= n PROVE f[k + 1] = g[k + 1]
    OBVIOUS
  <2>1. k + 1 \in 1 .. n /\ (k + 1) - 1 = k /\ f[k] = g[k]
    BY <1>2
  <2> QED
    BY <2>1
<1> HIDE DEF S
<1>3. Nat \subseteq S
  BY <1>1, <1>2, SetInduction
<1> QED
  BY <1>3 DEF S

\* The functions powers are defined by.
PowersTo(p, b, n) == p = [k \in 0 .. n |-> IF k = 0 THEN 1 ELSE b * p[k - 1]]

\* They exist.
LEMMA PowersExist ==
  ASSUME NEW b \in Nat, NEW n \in Nat
  PROVE  \E p \in [0 .. n -> Nat] : PowersTo(p, b, n)
<1> DEFINE f == [x \in Nat |-> b * x]
<1>1. f \in [Nat -> Nat]
  OBVIOUS
<1> HIDE DEF f
<1>2. PICK p \in [0 .. n -> Nat] : WalkOf(p, 0, n, f, 1)
  <2>1. 0 \in Nat /\ 1 \in Nat /\ 0 <= n
    OBVIOUS
  <2> QED
    BY <1>1, <2>1, WalkExists
<1>3. p = [k \in 0 .. n |-> IF k = 0 THEN 1 ELSE f[p[k - 1]]]
  BY <1>2 DEF WalkOf
<1>4. \A k \in 0 .. n : k # 0 => f[p[k - 1]] = b * p[k - 1]
  BY <1>2 DEF f
<1>5. p = [k \in 0 .. n |-> IF k = 0 THEN 1 ELSE b * p[k - 1]]
  BY <1>3, <1>4
<1> QED
  BY <1>2, <1>5 DEF PowersTo

\* Any of them gives the power.
LEMMA PowerOf ==
  ASSUME NEW b \in Nat, NEW n \in Nat, NEW p, PowersTo(p, b, n), NEW m \in Nat, m <= n
  PROVE  Power(b, m) = p[m]
<1> DEFINE q == CHOOSE q : PowersTo(q, b, m)
<1>1. \E r : PowersTo(r, b, m)
  <2>1. \E r \in [0 .. m -> Nat] : PowersTo(r, b, m)
    BY PowersExist
  <2> QED
    BY <2>1
<1>2. PowersTo(q, b, m)
  BY <1>1
<1>3. Power(b, m) = q[m]
  BY DEF Power, PowersTo
<1> HIDE DEF q
<1>4. q[0] = 1 /\ \A k \in 1 .. m : q[k] = b * q[k - 1]
  BY <1>2 DEF PowersTo
<1>5. p[0] = 1 /\ \A k \in 1 .. m : p[k] = b * p[k - 1]
  BY DEF PowersTo
<1>6. \A k \in 1 .. m : q[k - 1] = p[k - 1] => q[k] = p[k]
  BY <1>4, <1>5
<1>7. \A k \in 0 .. m : q[k] = p[k]
  BY <1>4, <1>5, <1>6, SameWalk
<1>8. m \in 0 .. m
  OBVIOUS
<1> QED
  BY <1>3, <1>7, <1>8

\* The laws of the power.
LEMMA PowerLaws ==
  ASSUME NEW b \in Nat
  PROVE  /\ Power(b, 0) = 1
         /\ \A n \in Nat : Power(b, n) \in Nat /\ Power(b, n + 1) = b * Power(b, n)
<1>1. ASSUME NEW n \in Nat
      PROVE  /\ Power(b, n) \in Nat
             /\ Power(b, 0) = 1
             /\ Power(b, n + 1) = b * Power(b, n)
  <2>1. n + 1 \in Nat /\ 0 \in Nat /\ n <= n + 1 /\ 0 <= n + 1
    OBVIOUS
  <2>2. PICK p \in [0 .. n + 1 -> Nat] : PowersTo(p, b, n + 1)
    BY <2>1, PowersExist
  <2>3. Power(b, 0) = p[0] /\ Power(b, n) = p[n] /\ Power(b, n + 1) = p[n + 1]
    BY <2>1, <2>2, PowerOf
  <2>4. p[0] = 1 /\ p[n + 1] = b * p[n] /\ p[n] \in Nat
    BY <2>2 DEF PowersTo
  <2> QED
    BY <2>3, <2>4
<1> QED
  BY <1>1

\* Powers grow with the exponent.
LEMMA PowersGrow ==
  ASSUME NEW b \in Nat, b >= 1, NEW m \in Nat, NEW n \in Nat, m <= n
  PROVE  1 <= Power(b, m) /\ Power(b, m) <= Power(b, n)
<1>1. \A k \in Nat : Power(b, k) \in Nat /\ Power(b, k + 1) = b * Power(b, k) /\ Power(b, 0) = 1
  BY PowerLaws
<1>2. \A k \in Nat : Power(b, k) <= b * Power(b, k)
  <2> SUFFICES ASSUME NEW k \in Nat PROVE Power(b, k) <= b * Power(b, k)
    OBVIOUS
  <2>1. Power(b, k) * 1 <= Power(b, k) * b
    <3>1. CASE Power(b, k) = 0
      BY <3>1, <1>1
    <3>2. CASE Power(b, k) >= 1
      BY <3>2, <1>1, FactorsInOrder
    <3> QED
      BY <3>1, <3>2, <1>1
  <2> QED
    BY <2>1, <1>1
<1> DEFINE S == {k \in Nat : 1 <= Power(b, k) /\ (m <= k => Power(b, m) <= Power(b, k))}
           P == {k \in Nat : 1 <= Power(b, k)}
<1>3. 0 \in P /\ \A k \in Nat : k \in P => k + 1 \in P
  BY <1>1, <1>2
<1> HIDE DEF P
<1>4. Nat \subseteq P
  BY <1>3, SetInduction
<1>5. \A k \in Nat : 1 <= Power(b, k)
  BY <1>4 DEF P
<1>6. 0 \in S
  BY <1>1, <1>5
<1>7. ASSUME NEW k \in Nat, k \in S PROVE k + 1 \in S
  <2>1. CASE m <= k
    BY <2>1, <1>1, <1>2, <1>5, <1>7
  <2>2. CASE k < m
    BY <2>2, <1>1, <1>5
  <2> QED
    BY <2>1, <2>2
<1> HIDE DEF S
<1>8. Nat \subseteq S
  BY <1>6, <1>7, SetInduction
<1> QED
  BY <1>8, <1>5 DEF S

\* A number needs no more tetrads than decimal digits.
LEMMA PowersOfTen ==
  ASSUME NEW n \in Nat
  PROVE  Power(10, n) <= Power(16, n)
<1> DEFINE S == {k \in Nat : Power(10, k) <= Power(16, k)}
<1>1. Power(10, 0) = 1 /\ Power(16, 0) = 1
  <2>1. 10 \in Nat /\ 16 \in Nat
    OBVIOUS
  <2> QED
    BY <2>1, PowerLaws
<1>2. 0 \in S
  BY <1>1
<1>3. ASSUME NEW k \in Nat, k \in S PROVE k + 1 \in S
  <2>1. Power(10, k + 1) = 10 * Power(10, k) /\ Power(10, k) \in Nat
    BY PowerLaws
  <2>2. Power(16, k + 1) = 16 * Power(16, k) /\ Power(16, k) \in Nat
    BY PowerLaws
  <2> QED
    BY <2>1, <2>2, <1>3
<1> HIDE DEF S
<1>4. Nat \subseteq S
  BY <1>2, <1>3, SetInduction
<1> QED
  BY <1>4 DEF S
=============================================================================
