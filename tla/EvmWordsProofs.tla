--------------------------- MODULE EvmWordsProofs ---------------------------
(***************************************************************************)
(* Proofs about words and the arithmetic on them: for every base and size  *)
(* of a word, and every three operands, addmod, mulmod and expmod are the  *)
(* residue of the exact sum, product or power.                             *)
(***************************************************************************)
EXTENDS EvmWords, Induction

-----------------------------------------------------------------------------
(* Division. *)

\* A quotient and a remainder.
LEMMA Division ==
  ASSUME NEW v \in Int, NEW n \in Nat \ {0}
  PROVE  /\ v \div n \in Int /\ v % n \in 0..(n - 1)
         /\ v = n * (v \div n) + (v % n)
  OBVIOUS

\* Quotient and remainder are the only ones.
LEMMA DivisionUnique ==
  ASSUME NEW n \in Nat \ {0}, NEW v \in Int, NEW q \in Int, NEW r \in 0..(n - 1),
         v = n * q + r
  PROVE  v \div n = q /\ v % n = r
  <1> DEFINE p == v \div n
             s == v % n
  <1>1. p \in Int /\ s \in 0..(n - 1) /\ n * p + s = n * q + r
    BY Division
  <1> HIDE DEF p, s
  <1>2. ~(p < q)
    BY <1>1, MultiplesApart
  <1>3. ~(q < p)
    BY <1>1, MultiplesApart
  <1> QED BY <1>1, <1>2, <1>3 DEF p, s

\* A natural divided stays one.
LEMMA QuotientNatural ==
  ASSUME NEW v \in Nat, NEW n \in Nat \ {0}
  PROVE  v \div n \in Nat
  OBVIOUS

\* What is below the modulus is its own remainder.
LEMMA SmallRemainder ==
  ASSUME NEW n \in Nat \ {0}, NEW v \in 0..(n - 1)
  PROVE  v % n = v
  BY DivisionUnique

\* Two divisions are one by the product.
LEMMA DivisionTwice ==
  ASSUME NEW v \in Nat, NEW p \in Nat \ {0}, NEW b \in Nat \ {0}
  PROVE  (v \div p) \div b = v \div (p * b)
  <1> DEFINE q == v \div p
             r == v % p
             t == q \div b
             s == q % b
  <1>1. /\ q \in Int /\ r \in 0..(p - 1) /\ v = p * q + r
        /\ t \in Int /\ s \in 0..(b - 1) /\ q = b * t + s
    BY Division
  <1> HIDE DEF q, r, t, s
  <1>2. v = (p * b) * t + (p * s + r)
    BY <1>1
  <1>3. p * s + p <= p * b /\ p * s >= 0
    BY <1>1, MultiplesApart
  <1>4. p * s + r \in 0..(p * b - 1) /\ p * b \in Nat \ {0}
    BY <1>1, <1>3
  <1>5. v \div (p * b) = t
    BY <1>1, <1>2, <1>4, DivisionUnique
  <1> QED BY <1>5 DEF q, t

\* A factor can be reduced before it is multiplied.
LEMMA ReducedFactor ==
  ASSUME NEW x \in Nat, NEW b \in Nat, NEW n \in Nat \ {0}
  PROVE  ((x % n) * b) % n = (x * b) % n
  <1> DEFINE q == x \div n
             r == x % n
             t == (r * b) \div n
             s == (r * b) % n
  <1>1. q \in Int /\ r \in 0..(n - 1) /\ x = n * q + r
    BY Division
  <1>2. r * b \in Int
    BY <1>1
  <1> HIDE DEF q, r
  <1>3. t \in Int /\ s \in 0..(n - 1) /\ r * b = n * t + s
    BY <1>2, Division
  <1> HIDE DEF t, s
  <1>4. x * b = n * (q * b + t) + s /\ q * b + t \in Int /\ x * b \in Int
    BY <1>1, <1>3
  <1>5. ASSUME NEW v \in Int, v = n * (q * b + t) + s
        PROVE  v % n = s
    BY <1>3, <1>4, <1>5, DivisionUnique
  <1>6. (x * b) % n = s
    BY <1>4, <1>5
  <1> QED BY <1>6 DEF s, r

-----------------------------------------------------------------------------
(* Words as numbers. *)

\* The assumption on bytes and words, in the forms that the proofs need.
LEMMA BytesAreNatural ==
  /\ Base \in Nat /\ Base \in Nat \ {0} /\ Base > 1 /\ Base > 0
  /\ WordSize \in Nat /\ WordSize \in Nat \ {0}
  /\ Byte \subseteq Nat
  BY WordShape DEF Byte

\* The function that ModPow recurs by.
LEMMA ModPowFunction ==
  ASSUME NEW b \in Nat, NEW n \in Nat, NEW m \in Nat \ {0}
  PROVE  \E f : /\ f[0] = 1 /\ \A i \in 1..n : f[i] = (f[i - 1] * b) % m
                /\ ModPow(b, n, m) = f[n]
  <1> DEFINE d == [i \in 1..n |-> [x \in Nat |-> (x * b) % m]]
             P(g) == g = [i \in 0..n |-> IF i = 0 THEN 1 ELSE (g[i - 1] * b) % m]
             f == CHOOSE g : P(g)
  <1>1. \A i \in 1..n, x \in Nat : d[i][x] = (x * b) % m
    OBVIOUS
  <1>2. 1 \in Nat /\ StepsTo(n, d)
    BY DEF StepsTo
  <1> HIDE DEF d
  <1>3. PICK g \in [0..n -> Nat] : Recurs(g, n, 1, d)
    BY <1>2, Recursion, Zenon
  <1>4. ASSUME NEW i \in 0..n
        PROVE  g[i] = IF i = 0 THEN 1 ELSE (g[i - 1] * b) % m
    <2>1. CASE i = 0
      BY <1>3, <2>1 DEF Recurs
    <2>2. CASE i # 0
      <3>1. i \in 1..n /\ i - 1 \in 0..n
        BY <2>2
      <3>2. g[i - 1] \in Nat
        BY <1>3, <3>1
      <3> QED BY <1>1, <1>3, <2>2, <3>1, <3>2 DEF Recurs
    <2> QED BY <2>1, <2>2
  <1>5. P(g)
    BY <1>3, <1>4
  <1>6. P(f)
    BY <1>5, Zenon
  <1>7. ModPow(b, n, m) = f[n]
    BY DEF ModPow
  <1> HIDE DEF f
  <1>8. f[0] = 1 /\ \A i \in 1..n : f[i] = (f[i - 1] * b) % m
    BY <1>6
  <1> HIDE DEF P
  <1> QED BY <1>7, <1>8

\* Reducing at every step gives the residue of the power.
LEMMA ModPowCorrect ==
  ASSUME NEW b \in Nat, NEW n \in Nat, NEW m \in Nat \ {0, 1}
  PROVE  ModPow(b, n, m) = Power(b, n) % m
  <1>1. PICK f : /\ f[0] = 1 /\ \A i \in 1..n : f[i] = (f[i - 1] * b) % m
                 /\ ModPow(b, n, m) = f[n]
    BY ModPowFunction
  <1> DEFINE S == {i \in 0..n : f[i] = Power(b, i) % m}
  <1>2. 0 \in S
    BY <1>1, PowerStep, SmallRemainder
  <1>3. ASSUME NEW i \in 1..n, i - 1 \in S
        PROVE  i \in S
    <2>1. i - 1 \in Nat /\ (i - 1) + 1 = i
      OBVIOUS
    <2>2. Power(b, i) = Power(b, i - 1) * b /\ Power(b, i - 1) \in Nat
      BY <2>1, PowerStep, PowerNatural
    <2>3. f[i] = ((Power(b, i - 1) % m) * b) % m
      BY <1>1, <1>3
    <2> QED BY <2>2, <2>3, ReducedFactor
  <1> HIDE DEF S
  <1>4. n \in S
    BY <1>2, <1>3, InductionUpTo
  <1> QED BY <1>1, <1>4 DEF S

\* The bytes of a word are its digits.
LEMMA WordDigits == ASSUME NEW w \in Word PROVE Digits(w, WordSize, Base)
  BY BytesAreNatural DEF Word, Byte, Digits

\* The number of a word is below the power of its length.
LEMMA WordNumber ==
  ASSUME NEW w \in Word
  PROVE  FromBytes(w) \in 0..(Power(Base, WordSize) - 1)
  BY WordDigits, NumeralRange, BytesAreNatural, Zenon DEF FromBytes

\* bigint_to_bytes32 gives a word, whatever the number.
LEMMA ToBytesWord ==
  ASSUME NEW v \in Nat
  PROVE  ToBytes(v) \in Word
  <1>1. ASSUME NEW i \in 1..WordSize
        PROVE  (v \div Power(Base, WordSize - i)) % Base \in Byte
    <2>1. WordSize - i \in Nat
      BY BytesAreNatural
    <2>2. Power(Base, WordSize - i) \in Nat \ {0}
      BY <2>1, PowerNatural, BytesAreNatural
    <2> DEFINE q == v \div Power(Base, WordSize - i)
    <2>3. \A n \in Nat \ {0} : v \div n \in Int
      BY Division
    <2>0. q \in Int
      BY <2>2, <2>3
    <2> HIDE DEF q
    <2>4. q % Base \in 0..(Base - 1)
      BY <2>0, BytesAreNatural, Division
    <2> QED BY <2>4 DEF q, Byte
  <1> QED BY <1>1 DEF ToBytes, Word

\* A number that fits into a word comes back from its bytes.
LEMMA WordRoundTrip ==
  ASSUME NEW v \in 0..(Power(Base, WordSize) - 1)
  PROVE  FromBytes(ToBytes(v)) = v
  <1> DEFINE w == ToBytes(v)
             p(i) == Power(Base, WordSize - i)
  <1>1. /\ Len(w) = WordSize
        /\ \A i \in 1..WordSize : w[i] \in Byte /\ w[i] = (v \div p(i)) % Base
    BY ToBytesWord, BytesAreNatural DEF ToBytes, Word
  <1>2. \A i \in 0..WordSize : p(i) \in Nat \ {0}
    <2>1. \A i \in 0..WordSize : WordSize - i \in Nat
      BY BytesAreNatural
    <2>2. \A n \in Nat : Power(Base, n) \in Nat /\ Power(Base, n) > 0
      BY PowerNatural, BytesAreNatural
    <2> QED BY <2>1, <2>2
  <1>3. p(0) = Power(Base, WordSize) /\ p(WordSize) = 1
    <2>1. WordSize - 0 = WordSize /\ WordSize - WordSize = 0
      BY BytesAreNatural
    <2> QED BY <2>1, PowerStep, BytesAreNatural
  <1>4. ASSUME NEW i \in 1..WordSize
        PROVE  p(i - 1) = p(i) * Base
    <2>1. WordSize - (i - 1) = (WordSize - i) + 1 /\ WordSize - i \in Nat
      BY BytesAreNatural
    <2> QED BY <2>1, PowerStep, BytesAreNatural
  <1>5. PICK f : /\ f[0] = 0 /\ \A i \in 1..WordSize : f[i] = f[i - 1] * Base + w[i]
                 /\ FromBytes(w) = f[WordSize]
    <2>1. w \in Word
      BY ToBytesWord
    <2> HIDE DEF w
    <2>2. PICK f : Accumulates(f, w, WordSize, Base) /\ Numeral(w, Base) = f[WordSize]
      BY <2>1, WordDigits, NumeralFunction, BytesAreNatural, Zenon
    <2> QED BY <2>2 DEF Accumulates, FromBytes
  <1> HIDE DEF w, p
  <1> DEFINE S == {i \in 0..WordSize : f[i] = v \div p(i)}
  <1>6. 0 \in S
    <2>1. p(0) \in Nat \ {0} /\ v \in 0..(p(0) - 1) /\ v = p(0) * 0 + v /\ 0 \in 0..WordSize
      BY <1>2, <1>3, BytesAreNatural
    <2>2. v \div p(0) = 0
      BY <2>1, DivisionUnique
    <2> QED BY <1>5, <2>1, <2>2
  <1>7. ASSUME NEW i \in 1..WordSize, i - 1 \in S
        PROVE  i \in S
    <2> DEFINE q == v \div p(i)
    <2>0. p(i) \in Nat \ {0} /\ v \in Nat /\ i \in 0..WordSize
      BY <1>2, <1>3, BytesAreNatural
    <2>1. q \in Nat /\ q \div Base = v \div (p(i) * Base)
      BY <2>0, QuotientNatural, DivisionTwice, BytesAreNatural
    <2>2. f[i - 1] = q \div Base
      BY <1>4, <1>7, <2>1
    <2>3. w[i] = q % Base
      BY <1>1
    <2> HIDE DEF q
    <2>4. /\ Base * (q \div Base) + (q % Base) = q
          /\ q \div Base \in Int /\ q % Base \in Int
      <3>1. q \in Int /\ Base \in Nat \ {0}
        BY <2>1, BytesAreNatural
      <3>2. /\ q \div Base \in Int /\ q % Base \in 0..(Base - 1)
            /\ q = Base * (q \div Base) + (q % Base)
        BY <3>1, Division, Zenon
      <3> QED BY <3>1, <3>2
    <2>5. f[i] = (q \div Base) * Base + (q % Base)
      BY <1>5, <2>2, <2>3
    <2>6. f[i] = q
      BY <2>4, <2>5, BytesAreNatural
    <2> QED BY <2>6 DEF q
  <1> HIDE DEF S
  <1>8. WordSize \in S
    BY <1>6, <1>7, InductionUpTo, BytesAreNatural
  <1>9. v \div 1 = v
    BY DivisionUnique
  <1> QED BY <1>3, <1>5, <1>8, <1>9 DEF S, w

-----------------------------------------------------------------------------
(* The arithmetic. *)

\* A residue modulo a word fits into a word.
LEMMA ResidueFits ==
  ASSUME NEW v \in Nat, NEW n \in Word
  PROVE  /\ Mod(v, FromBytes(n)) \in 0..(Power(Base, WordSize) - 1)
         /\ FromBytes(ToBytes(Mod(v, FromBytes(n)))) = Mod(v, FromBytes(n))
  <1> DEFINE m == FromBytes(n)
             p == Power(Base, WordSize)
  <1>1. m \in 0..(p - 1) /\ p \in Nat \ {0}
    BY WordNumber, PowerNatural, BytesAreNatural
  <1>2. ASSUME m # 0
        PROVE  v % m \in 0..(m - 1)
    <2>1. m \in Nat \ {0} /\ v \in Int
      BY <1>1, <1>2
    <2> HIDE DEF m
    <2> QED BY <2>1, Division, Zenon
  <1> HIDE DEF m, p
  <1>3. Mod(v, m) \in 0..(p - 1)
    BY <1>1, <1>2 DEF Mod
  <1> QED BY <1>3, WordRoundTrip DEF m, p

\* addmod gives the residue of the sum, which may need more than a word
\* (traits.rs:312-327).
THEOREM AddmodCorrect ==
  ASSUME NEW a \in Word, NEW b \in Word, NEW n \in Word
  PROVE  /\ addmod(a, b, n) \in Word
         /\ FromBytes(addmod(a, b, n)) = Mod(FromBytes(a) + FromBytes(b), FromBytes(n))
  <1>1. FromBytes(a) + FromBytes(b) \in Nat
    BY WordNumber
  <1>2. Mod(FromBytes(a) + FromBytes(b), FromBytes(n)) \in Nat
    BY <1>1, ResidueFits
  <1> QED BY <1>1, <1>2, ResidueFits, ToBytesWord DEF addmod

\* mulmod gives the residue of the product (traits.rs:329-344).
THEOREM MulmodCorrect ==
  ASSUME NEW a \in Word, NEW b \in Word, NEW n \in Word
  PROVE  /\ mulmod(a, b, n) \in Word
         /\ FromBytes(mulmod(a, b, n)) = Mod(FromBytes(a) * FromBytes(b), FromBytes(n))
  <1>1. FromBytes(a) * FromBytes(b) \in Nat
    <2>1. FromBytes(a) \in Nat /\ FromBytes(b) \in Nat
      BY WordNumber
    <2> QED BY <2>1
  <1>2. Mod(FromBytes(a) * FromBytes(b), FromBytes(n)) \in Nat
    BY <1>1, ResidueFits
  <1> QED BY <1>1, <1>2, ResidueFits, ToBytesWord DEF mulmod

\* The cases that expmod tells apart all give the residue of the power.
LEMMA PowerCases ==
  ASSUME NEW b \in Nat, NEW e \in Nat, NEW m \in Nat
  PROVE  (CASE m \in {0, 1}            -> 0
            [] m > 1 /\ e = 0          -> 1
            [] m > 1 /\ e > 0 /\ b = 0 -> 0
            [] OTHER                   -> ModPow(b, e, m)) = Mod(Power(b, e), m)
  <1>1. CASE m = 0
    BY <1>1 DEF Mod
  <1>2. CASE m = 1
    <2>1. Power(b, e) \in Nat
      BY PowerNatural
    <2>2. Power(b, e) % 1 = 0
      BY <2>1
    <2> QED BY <1>2, <2>2 DEF Mod
  <1>3. CASE m > 1 /\ e = 0
    <2>1. m \in Nat \ {0} /\ 1 \in 0..(m - 1)
      BY <1>3
    <2>2. Power(b, e) = 1
      BY <1>3, PowerStep
    <2>3. 1 % m = 1
      BY <2>1, SmallRemainder, Zenon
    <2> QED BY <1>3, <2>2, <2>3 DEF Mod
  <1>4. CASE m > 1 /\ e > 0 /\ b = 0
    <2>1. Power(b, e) = 0 /\ 0 % m = 0
      BY <1>4, PowerOfZero, SmallRemainder
    <2> QED BY <1>4, <2>1 DEF Mod
  <1>5. CASE m > 1 /\ e > 0 /\ b > 0
    BY <1>5, ModPowCorrect DEF Mod
  <1> QED BY <1>1, <1>2, <1>3, <1>4, <1>5

\* expmod gives the residue of the power, 0 to the power of 0 being 1, in each
\* case that it treats apart (traits.rs:346-371).
THEOREM ExpmodCorrect ==
  ASSUME NEW a \in Word, NEW b \in Word, NEW n \in Word
  PROVE  /\ expmod(a, b, n) \in Word
         /\ FromBytes(expmod(a, b, n)) = Mod(Power(FromBytes(a), FromBytes(b)), FromBytes(n))
  <1>1. FromBytes(a) \in Nat /\ FromBytes(b) \in Nat /\ FromBytes(n) \in Nat
    BY WordNumber
  <1>2. Power(FromBytes(a), FromBytes(b)) \in Nat
    BY <1>1, PowerNatural
  <1>3. expmod(a, b, n) = ToBytes(Mod(Power(FromBytes(a), FromBytes(b)), FromBytes(n)))
    BY <1>1, PowerCases DEF expmod
  <1>4. Mod(Power(FromBytes(a), FromBytes(b)), FromBytes(n)) \in Nat
    BY <1>2, ResidueFits
  <1> QED BY <1>2, <1>3, <1>4, ResidueFits, ToBytesWord

=============================================================================
