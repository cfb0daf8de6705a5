------------------------------ MODULE Numerals ------------------------------
(***************************************************************************)
(* Powers, and numbers written with digits.  Both recur by a function, so  *)
(* that they can be reasoned about.                                        *)
(***************************************************************************)
EXTENDS Integers, Sequences

\* The power by its definition; that of 0 is 1.
Power(b, n) ==
  LET Product[i \in 0..n] == IF i = 0 THEN 1 ELSE Product[i - 1] * b
  IN Product[n]

\* The number with these digits, the most significant first.
Numeral(digits, base) ==
  LET Prefix[i \in 0..Len(digits)] == IF i = 0 THEN 0 ELSE Prefix[i - 1] * base + digits[i]
  IN Prefix[Len(digits)]

=============================================================================
