------------------------------ MODULE EvmWords ------------------------------
(***************************************************************************)
(* 256-bit words as byte strings, and the modular arithmetic the EvmHost   *)
(* trait provides on them by default (src/src/evm/traits.rs).  The code    *)
(* computes with BigUint, which does not overflow, and returns to words    *)
(* only at the end.                                                        *)
(***************************************************************************)
EXTENDS Numerals

CONSTANTS
  Base,      \* number of values of a byte: 256 in the code
  WordSize   \* bytes of a word: 32 in the code

ASSUME WordShape == Base \in Nat \ {0, 1} /\ WordSize \in Nat \ {0}

Byte == 0..(Base - 1)
Word == [1..WordSize -> Byte]

\* BigUint::from_bytes_be.
FromBytes(w) == Numeral(w, Base)

\* The least significant WordSize bytes, padded on the left (bigint_to_bytes32).
ToBytes(v) == [i \in 1..WordSize |-> (v \div Power(Base, WordSize - i)) % Base]

\* Modulo zero is zero.
Mod(v, n) == IF n = 0 THEN 0 ELSE v % n

\* A variant whose sum overflows a word.
AddModWrapped(a, b, n) ==
  ToBytes(Mod((FromBytes(a) + FromBytes(b)) % Power(Base, WordSize), FromBytes(n)))

addmod(a, b, n) == ToBytes(Mod(FromBytes(a) + FromBytes(b), FromBytes(n)))

mulmod(a, b, n) == ToBytes(Mod(FromBytes(a) * FromBytes(b), FromBytes(n)))

\* BigUint::modpow, for a modulus above one.
ModPow(base, exponent, modulus) ==
  LET Residue[e \in 0..exponent] == IF e = 0 THEN 1 ELSE (Residue[e - 1] * base) % modulus
  IN Residue[exponent]

expmod(base, exponent, modulus) ==
  LET b == FromBytes(base)
      e == FromBytes(exponent)
      m == FromBytes(modulus)
  IN ToBytes(CASE m \in {0, 1}          -> 0
               [] m > 1 /\ e = 0        -> 1
               [] m > 1 /\ e > 0 /\ b = 0 -> 0
               [] OTHER                 -> ModPow(b, e, m))

=============================================================================
