----------------------------- MODULE Induction -----------------------------
(***************************************************************************)
(* Induction over the naturals, and functions defined by recursion on      *)
(* them.  The predicate of an induction is a set here, and the body of a   *)
(* recursion a function, so that a proof can instantiate both.  All rests  *)
(* on the order of the naturals being well founded.                        *)
(***************************************************************************)
EXTENDS Numerals, WellFoundedInduction, TLAPS

\* The order of the naturals as a set.
Less == {p \in Nat \X Nat : p[1] < p[2]}

\* The order of the naturals is well founded.
LEMMA LessWellFounded == IsWellFoundedOn(Less, Nat)
  <1>1. Less = OpToRel(<, Nat)
    BY Zenon DEF Less, OpToRel
  <1> QED BY <1>1, NatLessThanWellFounded, Zenon

\* A set of naturals that is not empty has a least element.
LEMMA LeastNatural ==
  ASSUME NEW S \in SUBSET Nat, S # {}
  PROVE \E x \in S : \A y \in S : x <= y
  <1>1. PICK x \in S : \A y \in S : <<y, x>> \notin Less
    BY LessWellFounded, WFMin
  <1>2. \A y \in S : ~(y < x)
    BY <1>1 DEF Less
  <1> QED BY <1>1, <1>2

\* What holds at 0 and is passed on to n + 1 holds of every natural.
LEMMA NaturalInduction ==
  ASSUME NEW S, 0 \in S, \A n \in Nat : n \in S => n + 1 \in S
  PROVE \A n \in Nat : n \in S
  <1> SUFFICES ASSUME Nat \ S # {} PROVE FALSE
    OBVIOUS
  <1>1. PICK x \in Nat \ S : \A y \in Nat \ S : x <= y
    BY LeastNatural
  <1>2. x - 1 \in Nat \ S
    BY <1>1
  <1> QED BY <1>1, <1>2

\* The same up to a bound.
LEMMA InductionUpTo ==
  ASSUME NEW n \in Nat, NEW S, 0 \in S, \A i \in 1..n : i - 1 \in S => i \in S
  PROVE  \A i \in 0..n : i \in S
  <1> DEFINE T == {k \in Nat : k <= n => k \in S}
  <1>1. 0 \in T
    OBVIOUS
  <1>2. ASSUME NEW k \in Nat, k \in T
        PROVE  k + 1 \in T
    <2>1. CASE k + 1 <= n
      <3>1. k + 1 \in 1..n /\ (k + 1) - 1 = k /\ k \in S
        BY <1>2, <2>1
      <3> QED BY <3>1
    <2> QED BY <2>1
  <1> HIDE DEF T
  <1>3. \A k \in Nat : k \in T
    BY <1>1, <1>2, NaturalInduction
  <1> QED BY <1>3 DEF T

\* From a natural, d[i] gives a natural.
StepsTo(n, d) == \A i \in 1..n, x \in Nat : d[i][x] \in Nat

\* f begins with c, and goes on from the value before by d.
Recurs(f, n, c, d) == f[0] = c /\ \A i \in 1..n : f[i] = d[i][f[i - 1]]

\* A function to naturals can be defined by its value at 0 and by each value from
\* the one before.
LEMMA Recursion ==
  ASSUME NEW n \in Nat, NEW c \in Nat, NEW d, StepsTo(n, d)
  PROVE  \E f \in [0..n -> Nat] : Recurs(f, n, c, d)
  <1> DEFINE next(i, x) == d[i][x]
             Follows(f, k) == f[0] = c /\ \A i \in 1..k : f[i] = next(i, f[i - 1])
             S == {k \in Nat : k <= n => \E f \in [0..k -> Nat] : Follows(f, k)}
  <1>0. \A i \in 1..n, x \in Nat : next(i, x) \in Nat
    BY DEF StepsTo
  <1> HIDE DEF next
  <1>1. 0 \in S
    <2>1. [i \in 0..0 |-> c] \in [0..0 -> Nat] /\ Follows([i \in 0..0 |-> c], 0)
      OBVIOUS
    <2> QED BY <2>1
  <1>2. ASSUME NEW k \in Nat, k \in S
        PROVE  k + 1 \in S
    <2> SUFFICES ASSUME k + 1 <= n
                 PROVE  \E f \in [0..(k + 1) -> Nat] : Follows(f, k + 1)
      OBVIOUS
    <2>1. PICK f \in [0..k -> Nat] : Follows(f, k)
      BY <1>2
    <2> DEFINE g == [i \in 0..(k + 1) |-> IF i = k + 1 THEN next(k + 1, f[k]) ELSE f[i]]
    <2>2. next(k + 1, f[k]) \in Nat
      BY <1>0, <2>1
    <2>3. g \in [0..(k + 1) -> Nat]
      BY <2>1, <2>2
    <2>4. g[k + 1] = next(k + 1, f[k]) /\ \A i \in 0..k : g[i] = f[i]
      OBVIOUS
    <2>5. g[0] = c
      BY <2>1, <2>4
    <2>6. ASSUME NEW i \in 1..(k + 1)
          PROVE  g[i] = next(i, g[i - 1])
      <3>1. CASE i = k + 1
        <4>1. (k + 1) - 1 = k
          OBVIOUS
        <4>2. g[i - 1] = f[k]
          BY <3>1, <4>1, <2>4
        <4> HIDE DEF g
        <4> QED BY <3>1, <4>2, <2>4
      <3>2. CASE i # k + 1
        <4>1. i \in 1..k /\ i - 1 \in 0..k /\ i \in 0..k
          BY <3>2
        <4> HIDE DEF g
        <4>2. g[i] = f[i] /\ g[i - 1] = f[i - 1]
          BY <4>1, <2>4
        <4> QED BY <4>1, <4>2, <2>1
      <3> QED BY <3>1, <3>2
    <2> HIDE DEF g
    <2> QED BY <2>3, <2>5, <2>6
  <1> HIDE DEF S
  <1>3. n \in S
    BY <1>1, <1>2, NaturalInduction
  <1>4. n <= n
    OBVIOUS
  <1>5. PICK f \in [0..n -> Nat] : Follows(f, n)
    BY <1>3, <1>4, Zenon DEF S
  <1> QED BY <1>5 DEF next, Recurs

-----------------------------------------------------------------------------
(* Powers. *)

\* The function that the definition of a power recurs by.
LEMMA PowerFunction ==
  ASSUME NEW b \in Nat, NEW n \in Nat
  PROVE  \E f : /\ f[0] = 1 /\ \A i \in 1..n : f[i] = f[i - 1] * b
                /\ Power(b, n) = f[n]
  <1> DEFINE d == [i \in 1..n |-> [x \in Nat |-> x * b]]
             P(g) == g = [i \in 0..n |-> IF i = 0 THEN 1 ELSE g[i - 1] * b]
             f == CHOOSE g : P(g)
  <1>1. \A i \in 1..n, x \in Nat : d[i][x] = x * b
    OBVIOUS
  <1>t. StepsTo(n, d)
    BY DEF StepsTo
  <1> HIDE DEF d
  <1>0. 1 \in Nat
    OBVIOUS
  <1>2. PICK g \in [0..n -> Nat] : Recurs(g, n, 1, d)
    BY <1>0, <1>t, Recursion, Zenon
  <1>3. ASSUME NEW i \in 0..n
        PROVE  g[i] = IF i = 0 THEN 1 ELSE g[i - 1] * b
    <2>1. CASE i = 0
      BY <1>2, <2>1 DEF Recurs
    <2>2. CASE i # 0
      <3>1. i \in 1..n /\ i - 1 \in 0..n
        BY <2>2
      <3>2. g[i - 1] \in Nat
        BY <1>2, <3>1
      <3> QED BY <1>1, <1>2, <2>2, <3>1, <3>2 DEF Recurs
    <2> QED BY <2>1, <2>2
  <1>4. P(g)
    BY <1>2, <1>3
  <1>5. P(f)
    BY <1>4, Zenon
  <1>6. Power(b, n) = f[n]
    BY DEF Power
  <1> HIDE DEF f
  <1>7. f[0] = 1 /\ \A i \in 1..n : f[i] = f[i - 1] * b
    BY <1>5
  <1> HIDE DEF P
  <1> QED BY <1>6, <1>7

\* Two functions that start alike and go on alike are alike.
LEMMA RecursionUnique ==
  ASSUME NEW n \in Nat, NEW f, NEW g, f[0] = g[0],
         \A i \in 1..n : f[i - 1] = g[i - 1] => f[i] = g[i]
  PROVE  \A i \in 0..n : f[i] = g[i]
  <1> DEFINE S == {i \in 0..n : f[i] = g[i]}
  <1>1. 0 \in S /\ \A i \in 1..n : i - 1 \in S => i \in S
    OBVIOUS
  <1> HIDE DEF S
  <1>2. \A i \in 0..n : i \in S
    BY <1>1, InductionUpTo
  <1> QED BY <1>2 DEF S

\* A power by the one before.
LEMMA PowerStep ==
  ASSUME NEW b \in Nat, NEW n \in Nat
  PROVE  Power(b, 0) = 1 /\ Power(b, n + 1) = Power(b, n) * b
  <1>1. Power(b, 0) = 1
    BY PowerFunction
  <1>2. PICK f : /\ f[0] = 1 /\ \A i \in 1..n : f[i] = f[i - 1] * b
                 /\ Power(b, n) = f[n]
    BY PowerFunction
  <1>3. PICK g : /\ g[0] = 1 /\ \A i \in 1..(n + 1) : g[i] = g[i - 1] * b
                 /\ Power(b, n + 1) = g[n + 1]
    BY PowerFunction, n + 1 \in Nat
  <1>4. \A i \in 0..n : f[i] = g[i]
    BY <1>2, <1>3, RecursionUnique
  <1>5. g[n + 1] = g[n] * b
    <2>1. n + 1 \in 1..(n + 1) /\ (n + 1) - 1 = n
      OBVIOUS
    <2> QED BY <1>3, <2>1
  <1> QED BY <1>1, <1>2, <1>3, <1>4, <1>5

\* A power is a natural, and none of a positive number is 0.
LEMMA PowerNatural ==
  ASSUME NEW b \in Nat
  PROVE  \A n \in Nat : Power(b, n) \in Nat /\ (b > 0 => Power(b, n) > 0)
  <1> DEFINE S == {n \in Nat : Power(b, n) \in Nat /\ (b > 0 => Power(b, n) > 0)}
  <1>1. 0 \in S
    BY PowerStep
  <1>2. ASSUME NEW n \in Nat, n \in S
        PROVE  n + 1 \in S
    <2>1. Power(b, n + 1) = Power(b, n) * b /\ Power(b, n) \in Nat /\ (b > 0 => Power(b, n) > 0)
      BY <1>2, PowerStep
    <2>2. \A x \in Nat : x * b \in Nat /\ (b > 0 /\ x > 0 => x * b > 0)
      OBVIOUS
    <2> QED BY <2>1, <2>2
  <1> HIDE DEF S
  <1>3. \A n \in Nat : n \in S
    BY <1>1, <1>2, NaturalInduction
  <1> QED BY <1>3 DEF S

\* 0 to the power of 0 excepted, the powers of 0 are 0.
LEMMA PowerOfZero ==
  ASSUME NEW n \in Nat \ {0}
  PROVE  Power(0, n) = 0
  <1>1. n - 1 \in Nat /\ (n - 1) + 1 = n
    OBVIOUS
  <1>2. Power(0, n) = Power(0, n - 1) * 0 /\ Power(0, n - 1) \in Nat
    BY <1>1, PowerStep, PowerNatural
  <1> QED BY <1>2

\* The power to a sum is the product of the powers.
LEMMA PowerSum ==
  ASSUME NEW b \in Nat, NEW m \in Nat
  PROVE  \A n \in Nat : Power(b, m + n) = Power(b, m) * Power(b, n)
  <1> DEFINE S == {n \in Nat : Power(b, m + n) = Power(b, m) * Power(b, n)}
  <1>1. 0 \in S
    BY PowerStep, PowerNatural
  <1>2. ASSUME NEW n \in Nat, n \in S
        PROVE  n + 1 \in S
    <2>1. Power(b, (m + n) + 1) = Power(b, m + n) * b /\ Power(b, n + 1) = Power(b, n) * b
      BY PowerStep
    <2>2. m + (n + 1) = (m + n) + 1
      OBVIOUS
    <2>3. Power(b, m) \in Nat /\ Power(b, n) \in Nat /\ Power(b, m + n) = Power(b, m) * Power(b, n)
      BY <1>2, PowerNatural
    <2>4. (Power(b, m) * Power(b, n)) * b = Power(b, m) * (Power(b, n) * b)
      BY <2>3
    <2> QED BY <2>1, <2>2, <2>3, <2>4
  <1> HIDE DEF S
  <1>3. \A n \in Nat : n \in S
    BY <1>1, <1>2, NaturalInduction
  <1> QED BY <1>3 DEF S

-----------------------------------------------------------------------------
(* Numbers by their digits. *)

\* Different multiples of n are at least n apart.
LEMMA MultiplesApart ==
  ASSUME NEW n \in Nat, NEW a \in Int, NEW b \in Int, a < b
  PROVE  n * a + n <= n * b
  OBVIOUS

\* w is n digits.
Digits(w, n, base) == Len(w) = n /\ \A i \in 1..n : w[i] \in 0..(base - 1)

\* f[i] is the number of the first i digits.
Accumulates(f, w, n, base) == f[0] = 0 /\ \A i \in 1..n : f[i] = f[i - 1] * base + w[i]

\* The function that a number recurs by.
LEMMA NumeralFunction ==
  ASSUME NEW base \in Nat, NEW n \in Nat, NEW w, Digits(w, n, base)
  PROVE  \E f : Accumulates(f, w, n, base) /\ Numeral(w, base) = f[n]
  <1> USE DEF Digits
  <1> DEFINE d == [i \in 1..n |-> [x \in Nat |-> x * base + w[i]]]
             P(g) == g = [i \in 0..n |-> IF i = 0 THEN 0 ELSE g[i - 1] * base + w[i]]
             f == CHOOSE g : P(g)
  <1>1. \A i \in 1..n, x \in Nat : d[i][x] = x * base + w[i]
    OBVIOUS
  <1>2. 0 \in Nat /\ StepsTo(n, d)
    <2>1. \A i \in 1..n, x \in Nat : x * base + w[i] \in Nat
      OBVIOUS
    <2> HIDE DEF d
    <2> QED BY <1>1, <2>1 DEF StepsTo
  <1> HIDE DEF d
  <1>3. PICK g \in [0..n -> Nat] : Recurs(g, n, 0, d)
    BY <1>2, Recursion, Zenon
  <1>4. ASSUME NEW i \in 0..n
        PROVE  g[i] = IF i = 0 THEN 0 ELSE g[i - 1] * base + w[i]
    <2>1. CASE i = 0
      BY <1>3, <2>1 DEF Recurs
    <2>2. CASE i # 0
      <3>1. i \in 1..n /\ i - 1 \in 0..n
        BY <2>2
      <3>2. g[i - 1] \in Nat
        BY <1>3, <3>1
      <3> QED BY <1>1, <1>3, <2>2, <3>1, <3>2 DEF Recurs
    <2> QED BY <2>1, <2>2
  <1>5. P(g)
    BY <1>3, <1>4
  <1>6. P(f)
    BY <1>5, Zenon
  <1>7. Numeral(w, base) = f[n]
    BY DEF Numeral
  <1> HIDE DEF f
  <1>8. \A i \in 0..n : f[i] = IF i = 0 THEN 0 ELSE f[i - 1] * base + w[i]
    BY <1>6, Zenon
  <1>9. f[0] = 0 /\ \A i \in 1..n : f[i] = f[i - 1] * base + w[i]
    <2>1. ASSUME NEW i \in 1..n
          PROVE  f[i] = f[i - 1] * base + w[i]
      <3>1. i \in 0..n /\ i # 0
        OBVIOUS
      <3> QED BY <1>8, <3>1, Zenon
    <2> QED BY <1>8, <2>1
  <1> HIDE DEF P
  <1>10. Accumulates(f, w, n, base)
    BY <1>9 DEF Accumulates
  <1> QED BY <1>7, <1>10

\* The number of n digits is below the power of their number.
LEMMA NumeralRange ==
  ASSUME NEW base \in Nat \ {0}, NEW n \in Nat, NEW w, Digits(w, n, base)
  PROVE  Numeral(w, base) \in 0..(Power(base, n) - 1)
  <1>0. base \in Nat
    OBVIOUS
  <1>1. PICK f : Accumulates(f, w, n, base) /\ Numeral(w, base) = f[n]
    BY <1>0, NumeralFunction, Zenon
  <1> DEFINE S == {i \in 0..n : f[i] \in 0..(Power(base, i) - 1)}
  <1>2. 0 \in S
    <2>1. Power(base, 0) = 1
      BY PowerStep
    <2>2. f[0] \in 0..(1 - 1) /\ 0 \in 0..n
      BY <1>1 DEF Accumulates
    <2> QED BY <2>1, <2>2
  <1>3. ASSUME NEW i \in 1..n, i - 1 \in S
        PROVE  i \in S
    <2>1. i - 1 \in Nat /\ (i - 1) + 1 = i
      OBVIOUS
    <2> DEFINE x == f[i - 1]
               p == Power(base, i - 1)
    <2>2. Power(base, i) = p * base /\ p \in Nat
      BY <2>1, PowerStep, PowerNatural
    <2>3. f[i] = x * base + w[i] /\ w[i] \in 0..(base - 1) /\ x \in 0..(p - 1)
      BY <1>1, <1>3 DEF Accumulates, Digits
    <2> HIDE DEF x, p
    <2>4. x * base \in Nat /\ x * base + base <= p * base
      BY <2>2, <2>3, MultiplesApart
    <2>5. f[i] \in 0..(p * base - 1)
      <3>1. p * base \in Int
        BY <2>2
      <3>2. \A y \in Nat, z \in Int, d \in 0..(base - 1) :
              y + base <= z => y + d \in 0..(z - 1)
        OBVIOUS
      <3> QED BY <2>3, <2>4, <3>1, <3>2
    <2> QED BY <2>2, <2>5
  <1> HIDE DEF S
  <1>4. n \in S
    <2>1. n \in 0..n /\ \A i \in 1..n : i - 1 \in S => i \in S
      BY <1>3
    <2> QED BY <1>2, <2>1, InductionUpTo, Zenon
  <1> QED BY <1>1, <1>4 DEF S

\* Of two numbers the one whose first different digit is smaller.
Precedes(v, w, n) ==
  \E k \in 1..n : v[k] < w[k] /\ \A i \in 1..(k - 1) : v[i] = w[i]

\* The numbers of the prefixes are naturals.
LEMMA AccumulatedNaturals ==
  ASSUME NEW base \in Nat, NEW n \in Nat, NEW w, Digits(w, n, base), NEW f, Accumulates(f, w, n, base)
  PROVE  \A i \in 0..n : f[i] \in Nat
  <1> DEFINE S == {i \in 0..n : f[i] \in Nat}
  <1>1. 0 \in S
    BY DEF Accumulates
  <1>2. ASSUME NEW i \in 1..n, i - 1 \in S
        PROVE  i \in S
    <2>1. f[i] = f[i - 1] * base + w[i] /\ f[i - 1] \in Nat /\ w[i] \in Nat
      BY <1>2 DEF Accumulates, Digits
    <2> QED BY <2>1
  <1> HIDE DEF S
  <1>3. \A i \in 0..n : i \in S
    BY <1>1, <1>2, InductionUpTo
  <1> QED BY <1>3 DEF S

\* What comes first in the lexicographic order of digits is the smaller number.
LEMMA PrecedingIsSmaller ==
  ASSUME NEW base \in Nat, NEW n \in Nat, NEW v, NEW w,
         Digits(v, n, base), Digits(w, n, base), Precedes(v, w, n)
  PROVE  Numeral(v, base) < Numeral(w, base)
  <1>1. PICK f : Accumulates(f, v, n, base) /\ Numeral(v, base) = f[n]
    BY NumeralFunction, Zenon
  <1>2. PICK g : Accumulates(g, w, n, base) /\ Numeral(w, base) = g[n]
    BY NumeralFunction, Zenon
  <1>3. \A i \in 0..n : f[i] \in Nat /\ g[i] \in Nat
    BY <1>1, <1>2, AccumulatedNaturals
  <1>4. PICK k \in 1..n : v[k] < w[k] /\ \A i \in 1..(k - 1) : v[i] = w[i]
    BY DEF Precedes
  <1>5. \A i \in 1..n : f[i] = f[i - 1] * base + v[i] /\ g[i] = g[i - 1] * base + w[i]
    BY <1>1, <1>2 DEF Accumulates
  <1>6. \A i \in 1..n : v[i] \in 0..(base - 1) /\ w[i] \in 0..(base - 1)
    BY DEF Digits
  <1>7. f[k - 1] = g[k - 1]
    <2>1. k - 1 \in Nat /\ f[0] = g[0]
      BY <1>1, <1>2 DEF Accumulates
    <2>2. \A i \in 1..(k - 1) : f[i - 1] = g[i - 1] => f[i] = g[i]
      BY <1>4, <1>5
    <2>3. \A i \in 0..(k - 1) : f[i] = g[i]
      BY <2>1, <2>2, RecursionUnique
    <2> QED BY <2>1, <2>3
  <1>8. f[k] < g[k]
    <2>1. f[k - 1] \in Nat /\ f[k - 1] * base \in Nat
      BY <1>3
    <2> QED BY <1>4, <1>5, <1>6, <1>7, <2>1
  <1> DEFINE S == {i \in 0..n : i >= k => f[i] < g[i]}
  <1>9. 0 \in S
    OBVIOUS
  <1>10. ASSUME NEW i \in 1..n, i - 1 \in S
         PROVE  i \in S
    <2>1. CASE i > k
      <3>1. f[i - 1] < g[i - 1] /\ f[i - 1] \in Nat /\ g[i - 1] \in Nat
        BY <1>3, <1>10, <2>1
      <3>2. base * f[i - 1] + base <= base * g[i - 1]
        BY <3>1, MultiplesApart
      <3>3. /\ base * f[i - 1] = f[i - 1] * base /\ base * g[i - 1] = g[i - 1] * base
            /\ f[i - 1] * base \in Nat /\ g[i - 1] * base \in Nat
        BY <3>1
      <3>4. f[i] < g[i]
        BY <1>5, <1>6, <3>2, <3>3
      <3> QED BY <3>4
    <2>2. CASE i = k
      BY <1>8, <2>2
    <2>3. CASE i < k
      BY <2>3
    <2> QED BY <2>1, <2>2, <2>3
  <1> HIDE DEF S
  <1>11. n \in S
    <2>1. \A i \in 0..n : i \in S
      BY <1>9, <1>10, InductionUpTo
    <2> QED BY <2>1
  <1> QED BY <1>1, <1>2, <1>11 DEF S

=============================================================================
