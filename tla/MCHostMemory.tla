---------------------------- MODULE MCHostMemory ----------------------------
(***************************************************************************)
(* Instances of HostMemory.  Bits stand for bytes, and i32s have three of  *)
(* them.                                                                   *)
(***************************************************************************)
EXTENDS HostMemory, TLC

\* A memory of seven bytes and words of three.  Its upper half is at negative
\* i32 offsets, and the word ends before, at and behind its end.
MCArg == {-4, -3, -1, 0, 1, 2, 3}
MCCreateArg == {-1, 0, 3}
MCSource == {<<>>, <<1>>, <<1, 0, 1>>}
MCLong == {-1, 0, 2, 9}

\* Only zero has the same bits as a float and as an integer.
MCFloatBits == (0 :> 0) @@ (1 :> 2) @@ (2 :> 4)

\* The smallest memory in which a copy can leave bytes as they were.
MCSmallArg == {-1, 0, 1, 2, 3}

=============================================================================
