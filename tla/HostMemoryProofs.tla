-------------------------- MODULE HostMemoryProofs --------------------------
(***************************************************************************)
(* Proofs about the memory boundary: for every size of memory, widths of   *)
(* the integers, words and addresses, and every argument a guest passes,   *)
(* host functions write to their results only, copies fill theirs,         *)
(* arithmetic is exact and so is an integer that the guest returns.        *)
(*                                                                         *)
(* Where results lie depends on the addresses of memory only, so that      *)
(* MemoryShape is enough for the first two.  The others speak of contents: *)
(* operands are words because memory holds bytes, which is TypeOK.         *)
(***************************************************************************)
EXTENDS HostMemory, EvmWordsProofs, TLAPS

\* Memory keeps its addresses.
MemoryShape == DOMAIN memory = 0..(MemSize - 1)

-----------------------------------------------------------------------------
(* Widths. *)

\* The size of memory is a natural.
LEMMA MemSizeNatural == MemSize \in Nat
  BY MemoryAssumption

\* The widths of the integers, in the forms that the proofs need.
LEMMA WidthsNatural ==
  /\ IntBits \in Nat /\ LongBits \in Nat /\ IntBits > 1 /\ LongBits >= IntBits
  /\ IntBits - 1 \in Nat /\ IntBits - 2 \in Nat /\ LongBits - 1 \in Nat
  /\ LongBits - IntBits \in Nat /\ 2 \in Nat
  BY MemoryAssumption

\* How many halves a cell can have above an i32.
Halves == Power(2, LongBits - IntBits)

\* One of two numbers is not negative, and an i64 is an i32 with more in front.
LEMMA Widths ==
  /\ PositiveInts \in Nat \ {0} /\ PositiveInts > 1 /\ Ints = 2 * PositiveInts
  /\ PositiveLongs \in Nat \ {0} /\ Longs = 2 * PositiveLongs
  /\ Ints \in Nat \ {0} /\ Longs \in Nat \ {0}
  /\ Halves \in Nat \ {0} /\ Longs = Ints * Halves
  <1>1. \A n \in Nat : Power(2, n) \in Nat /\ Power(2, n) > 0
    BY PowerNatural
  <1>2. \A n \in Nat : Power(2, n + 1) = Power(2, n) * 2
    BY PowerStep
  <1>3. /\ (IntBits - 1) + 1 = IntBits /\ (IntBits - 2) + 1 = IntBits - 1
        /\ (LongBits - 1) + 1 = LongBits /\ IntBits + (LongBits - IntBits) = LongBits
    BY WidthsNatural
  <1>4. /\ Power(2, IntBits) = Power(2, IntBits - 1) * 2
        /\ Power(2, IntBits - 1) = Power(2, IntBits - 2) * 2
        /\ Power(2, LongBits) = Power(2, LongBits - 1) * 2
    BY <1>2, <1>3, WidthsNatural
  <1>5. Power(2, LongBits) = Power(2, IntBits) * Power(2, LongBits - IntBits)
    BY <1>3, PowerSum, WidthsNatural
  <1>6. PositiveInts \in Nat \ {0} /\ PositiveInts > 1 /\ Ints = 2 * PositiveInts
    BY <1>1, <1>4, WidthsNatural DEF Ints, PositiveInts
  <1>7. PositiveLongs \in Nat \ {0} /\ Longs = 2 * PositiveLongs
    BY <1>1, <1>4, WidthsNatural DEF Longs, PositiveLongs
  <1>8. Ints \in Nat \ {0} /\ Longs \in Nat \ {0} /\ Halves \in Nat \ {0}
    BY <1>1, WidthsNatural DEF Ints, Longs, Halves
  <1>9. Longs = Ints * Halves
    BY <1>5 DEF Ints, Longs, Halves
  <1> QED BY <1>6, <1>7, <1>8, <1>9

\* A cast to u32 is in range.
LEMMA AsU32Range == ASSUME NEW x \in Int PROVE AsU32(x) \in 0..(Ints - 1)
  BY Widths, Division DEF AsU32

\* What a guest passes are integers, what the host holds byte strings.
LEMMA ArgumentsAreIntegers ==
  Arg \subseteq Int /\ CreateArg \subseteq Int /\ Source \subseteq Seq(Byte)
  BY MemoryAssumption, Widths DEF I32

-----------------------------------------------------------------------------
(* Byte strings. *)

\* A function on 1..n is a sequence of length n.
LEMMA LengthOfTuple ==
  ASSUME NEW n \in Nat, NEW S, NEW w \in [1..n -> S]
  PROVE  w \in Seq(S) /\ Len(w) = n
  OBVIOUS

\* The length of a word.
LEMMA WordLength == ASSUME NEW w \in Word PROVE Len(w) = WordSize
  BY LengthOfTuple, WordShape DEF Word

\* And of an address.
LEMMA AddressLength == ASSUME NEW a \in Address PROVE Len(a) = AddrSize /\ AddrSize \in Nat
  BY LengthOfTuple, MemoryAssumption DEF Address

\* n zeros.
LEMMA ZerosLength == ASSUME NEW n \in Nat PROVE Zeros(n) \in Seq({0}) /\ Len(Zeros(n)) = n
  BY DEF Zeros

\* A number is written with the bytes of a word.
LEMMA ToBytesLength == ASSUME NEW v PROVE Len(ToBytes(v)) = WordSize
  BY WordShape DEF ToBytes

\* So is a result of arithmetic.
LEMMA ArithmeticLength ==
  ASSUME NEW a, NEW b, NEW n
  PROVE  /\ Len(addmod(a, b, n)) = WordSize
         /\ Len(mulmod(a, b, n)) = WordSize
         /\ Len(expmod(a, b, n)) = WordSize
  BY ToBytesLength DEF addmod, mulmod, expmod

\* And a block hash, found or not.
LEMMA BlockHashLength ==
  ASSUME NEW n, NEW w \in Word \union {None}
  PROVE  Len(BlockHash(n, w)) = WordSize
  BY WordLength, ZerosLength, WordShape DEF BlockHash

\* What a copy takes from its source: no more than asked for, byte for byte.
LEMMA AvailableBytes ==
  ASSUME NEW src \in Seq(Byte), NEW from \in Nat, NEW length \in Nat
  PROVE  /\ Available(src, from, length) \in Seq(Byte)
         /\ Len(Available(src, from, length)) \in 0..length
         /\ \A i \in 0..(length - 1) :
              /\ i < Len(Available(src, from, length)) <=> from + i < Len(src)
              /\ i < Len(Available(src, from, length)) =>
                   Available(src, from, length)[i + 1] = src[from + i + 1]
  <1> DEFINE rest == IF from < Len(src) THEN Len(src) - from ELSE 0
             n == IF rest < length THEN rest ELSE length
  <1>1. n \in 0..length /\ (n > 0 => from + n <= Len(src))
    OBVIOUS
  <1>2. Available(src, from, length) = SubSeq(src, from + 1, from + n)
    BY DEF Available
  <1>3. /\ SubSeq(src, from + 1, from + n) \in Seq(Byte)
        /\ Len(SubSeq(src, from + 1, from + n)) = n
        /\ \A k \in 1..n : SubSeq(src, from + 1, from + n)[k] = src[from + k]
    <2>1. CASE n > 0
      BY <1>1, <2>1
    <2>2. CASE n = 0
      BY <2>2
    <2> QED BY <1>1, <2>1, <2>2
  <1>4. \A i \in 0..(length - 1) : i < n <=> from + i < Len(src)
    OBVIOUS
  <1> HIDE DEF n
  <1>5. Len(Available(src, from, length)) = n
    BY <1>2, <1>3
  <1>6. ASSUME NEW i \in 0..(length - 1)
        PROVE  /\ i < Len(Available(src, from, length)) <=> from + i < Len(src)
               /\ i < Len(Available(src, from, length)) =>
                    Available(src, from, length)[i + 1] = src[from + i + 1]
    <2>1. i < n <=> from + i < Len(src)
      BY <1>4
    <2>2. ASSUME i < n
          PROVE  SubSeq(src, from + 1, from + n)[i + 1] = src[from + i + 1]
      <3>1. i + 1 \in 1..n /\ from + (i + 1) = from + i + 1
        BY <1>1, <2>2
      <3> QED BY <1>3, <3>1
    <2> QED BY <1>2, <1>5, <2>1, <2>2
  <1> QED BY <1>1, <1>2, <1>3, <1>5, <1>6

\* A buffer has the length asked for, the bytes of the source where it has
\* them and zeros elsewhere.
LEMMA BufferBytes ==
  ASSUME NEW src \in Seq(Byte), NEW from \in Nat, NEW length \in Nat
  PROVE  /\ Len(Buffer(src, from, length)) = length
         /\ \A i \in 0..(length - 1) :
              Buffer(src, from, length)[i + 1] =
                IF from + i < Len(src) THEN src[from + i + 1] ELSE 0
  <1> DEFINE bytes == Available(src, from, length)
             zeros == Zeros(length - Len(bytes))
  <1>1. Buffer(src, from, length) = bytes \o zeros
    BY DEF Buffer
  <1>2. /\ bytes \in Seq(Byte) /\ Len(bytes) \in 0..length
        /\ \A i \in 0..(length - 1) :
             /\ i < Len(bytes) <=> from + i < Len(src)
             /\ i < Len(bytes) => bytes[i + 1] = src[from + i + 1]
    BY AvailableBytes
  <1>3. zeros \in Seq({0}) /\ Len(zeros) = length - Len(bytes)
    BY <1>2, ZerosLength
  <1>4. \A k \in 1..Len(zeros) : zeros[k] = 0
    BY <1>3
  <1> HIDE DEF bytes, zeros
  <1>5. /\ Len(bytes \o zeros) = length
        /\ \A k \in 1..length :
             (bytes \o zeros)[k] = IF k <= Len(bytes) THEN bytes[k] ELSE zeros[k - Len(bytes)]
    BY <1>2, <1>3
  <1>6. ASSUME NEW i \in 0..(length - 1)
        PROVE  (bytes \o zeros)[i + 1] = IF from + i < Len(src) THEN src[from + i + 1] ELSE 0
    <2>1. CASE i < Len(bytes)
      BY <2>1, <1>2, <1>5
    <2>2. CASE ~(i < Len(bytes))
      <3>1. (i + 1) - Len(bytes) \in 1..Len(zeros)
        BY <2>2, <1>2, <1>3
      <3> QED BY <2>2, <3>1, <1>2, <1>4, <1>5
    <2> QED BY <2>1, <2>2
  <1> QED BY <1>1, <1>5, <1>6

-----------------------------------------------------------------------------
(* How a call ends. *)

\* The step property of WritesStayInResult.
Stays == IF call'.outcome = "rejected" THEN memory' = memory
         ELSE call' # NoCall => ChangesResultOnly

\* The record of a call that was accepted.
CallOf(op, args, given, got, answer) ==
  [op |-> op, args |-> args, outcome |-> "ok", given |-> given, got |-> got, answer |-> answer]

\* A write is seen in its range only.
LEMMA WriteRange ==
  ASSUME NEW offset, NEW bytes, NEW a \in DOMAIN memory,
         Write(offset, bytes)[a] # memory[a]
  PROVE  a \in offset..(offset + Len(bytes) - 1)
  BY DEF Write

\* A write changes no address.
LEMMA WriteKeepsShape ==
  ASSUME NEW offset, NEW bytes
  PROVE  DOMAIN Write(offset, bytes) = DOMAIN memory
  BY DEF Write

\* A range of memory.
InMemory(offset, length) == offset..(offset + length - 1) \subseteq DOMAIN memory

\* What the check of an offset of a given size accepts lies in memory.
LEMMA ValidInMemory ==
  ASSUME MemoryShape, NEW offset \in Int, NEW size \in Int, Valid(offset, size)
  PROVE  InMemory(offset, size)
  BY MemSizeNatural DEF Valid, ValidRange, InMemory, MemoryShape

\* So does what the check of an offset and a length accepts.
LEMMA ValidDataInMemory ==
  ASSUME MemoryShape, NEW offset \in Int, NEW length \in Int, ValidData(offset, length)
  PROVE  InMemory(offset, length)
  BY MemSizeNatural DEF ValidData, ValidRange, InMemory, MemoryShape

\* And a word at an offset that is cast to u32.
LEMMA ValidWordInMemory ==
  ASSUME MemoryShape, NEW offset \in Int, ValidWord(offset)
  PROVE  InMemory(AsU32(offset), WordSize)
  <1>1. AsU32(offset) \in Nat
    BY AsU32Range, Widths
  <1>2. Valid(AsU32(offset), WordSize)
    BY <1>1 DEF Valid, ValidWord
  <1> QED BY <1>1, <1>2, ValidInMemory, WordShape

\* Calls that write nothing, and so have no result in memory.
Resultless ==
  {"call_data_size", "code_size", "return_data_size", "number", "gas_left",
   "external_code_size", "store", "log", "finish", "revert", "destruct",
   "call", "callcode", "delegate", "static", "return", "return_nothing"}

\* The result of such a call is empty.
LEMMA ResultlessRange ==
  ASSUME call'.op \in Resultless
  PROVE  ResultRange(call') = <<0, 0>>
  BY DEF Resultless, ResultRange, CopyOps

\* A call that writes its bytes at the start of its result, and not past it.
LEMMA WrittenStays ==
  ASSUME NEW op, NEW args, NEW given, NEW got, NEW answer,
         NEW offset \in Int, NEW bytes, NEW length \in Int,
         call' = CallOf(op, args, given, got, answer),
         memory' = Write(offset, bytes),
         ResultRange(call') = <<offset, length>>, InMemory(offset, length),
         Len(bytes) \in Int, Len(bytes) <= length
  PROVE  Stays
  <1>1. call'.outcome = "ok"
    BY DEF CallOf
  <1>2. ASSUME NEW a \in DOMAIN memory, memory'[a] # memory[a]
        PROVE  a \in offset..(offset + length - 1)
    <2>1. a \in offset..(offset + Len(bytes) - 1)
      BY <1>2, WriteRange
    <2> QED BY <2>1
  <1>3. ResultRange(call')[1] = offset /\ ResultRange(call')[2] = length
    OBVIOUS
  <1>4. ChangesResultOnly
    BY <1>2, <1>3 DEF ChangesResultOnly, InMemory
  <1> QED BY <1>1, <1>4 DEF Stays

\* A call that fills its result, wherever that is.
LEMMA FilledStays ==
  ASSUME NEW op, NEW args, NEW given, NEW got, NEW answer, NEW offset, NEW bytes,
         call' = CallOf(op, args, given, got, answer),
         memory' = Write(offset, bytes),
         ResultRange(call') = <<offset, Len(bytes)>>, InMemory(offset, Len(bytes))
  PROVE  Stays
  <1>1. call'.outcome = "ok"
    BY DEF CallOf
  <1>2. ResultRange(call')[1] = offset /\ ResultRange(call')[2] = Len(bytes)
    OBVIOUS
  <1>3. ChangesResultOnly
    BY <1>2, WriteRange DEF ChangesResultOnly, InMemory
  <1> QED BY <1>1, <1>3 DEF Stays

\* A call without a result that leaves memory alone.
LEMMA UnwrittenStays ==
  ASSUME \A a \in DOMAIN memory : memory'[a] = memory[a],
         call'.op \in Resultless
  PROVE  ChangesResultOnly
  <1>1. ResultRange(call')[1] = 0 /\ ResultRange(call')[2] = 0
    BY ResultlessRange
  <1> QED BY <1>1 DEF ChangesResultOnly

\* Writing no bytes changes nothing.
LEMMA EmptyWrite ==
  ASSUME MemoryShape, memory' = Write(0, <<>>)
  PROVE  \A a \in DOMAIN memory : memory'[a] = memory[a]
  <1>1. Len(<<>>) = 0
    OBVIOUS
  <1>2. \A a \in DOMAIN memory : a \notin 0..(0 + Len(<<>>) - 1)
    BY <1>1
  <1> QED BY <1>2 DEF Write

\* A call that only takes something from memory writes nothing.
LEMMA TakenStays ==
  ASSUME MemoryShape, NEW op \in Resultless, NEW args, NEW got, Taken(op, args, got)
  PROVE  Stays
  <1>1. memory' = Write(0, <<>>) /\ call' = CallOf(op, args, None, got, 0)
    BY DEF Taken, Done, Accepted, CallOf
  <1>2. ChangesResultOnly
    BY <1>1, EmptyWrite, UnwrittenStays DEF CallOf
  <1> QED BY <1>1, <1>2 DEF Stays, CallOf

\* Neither does one that is rejected.
LEMMA RejectedStays ==
  ASSUME NEW op, NEW answer, Traps(op) \/ Refuses(op, answer)
  PROVE  Stays
  BY DEF Traps, Refuses, Stays, NoCall

-----------------------------------------------------------------------------
(* The host functions stay in their results. *)

\* A getter that answers with a number writes nothing.
LEMMA AnswersStay ==
  ASSUME NEW op \in Resultless, NEW answer, Answers(op, answer)
  PROVE  Stays
  BY UnwrittenStays DEF Answers, Accepted, Stays

\* Neither does one that ends the guest.
LEMMA ExitsStay ==
  ASSUME NEW op \in Resultless, NEW args, NEW got, Exits(op, args, got)
  PROVE  Stays
  BY UnwrittenStays DEF Exits, Accepted, Stays

\* The getters of addresses and words write one of them at their argument.
LEMMA PutStays ==
  ASSUME MemoryShape, NEW op \in {"account", "block", "fee", "gas_price"},
         NEW o \in Int, NEW v \in Address \union Word, Put(op, o, v)
  PROVE  Stays
  <1>1. CASE Traps(op)
    BY <1>1, RejectedStays
  <1>2. CASE Valid(o, Len(v)) /\ Done(op, <<o>>, v, None, o, v)
    <2>1. call' = CallOf(op, <<o>>, v, None, 0) /\ memory' = Write(o, v)
      BY <1>2 DEF Done, Accepted, CallOf
    <2>2. ResultRange(call') = <<o, Len(v)>>
      BY <2>1 DEF ResultRange, CallOf, CopyOps
    <2>3. InMemory(o, Len(v))
      BY <1>2, ValidInMemory, WordLength, AddressLength, WordShape
    <2> QED BY <2>1, <2>2, <2>3, FilledStays
  <1> QED BY <1>1, <1>2 DEF Put, Checked

\* The balance and the code hash of an account are words.
LEMMA LookupStays ==
  ASSUME MemoryShape, NEW op \in {"balance", "code_hash"}, NEW addr, NEW o \in Int,
         Lookup(op, addr, o)
  PROVE  Stays
  <1>1. CASE Traps(op)
    BY <1>1, RejectedStays
  <1>2. ASSUME Valid(o, WordSize),
               NEW w \in Word, Done(op, <<addr, o>>, w, Bytes(addr, AddrSize), o, w)
        PROVE  Stays
    <2>1. /\ call' = CallOf(op, <<addr, o>>, w, Bytes(addr, AddrSize), 0)
          /\ memory' = Write(o, w)
      BY <1>2 DEF Done, Accepted, CallOf
    <2>2. ResultRange(call') = <<o, WordSize>>
      BY <2>1 DEF ResultRange, CallOf, CopyOps
    <2>3. Len(w) = WordSize
      BY WordLength
    <2>4. InMemory(o, WordSize)
      BY <1>2, ValidInMemory, WordShape
    <2> QED BY <2>1, <2>2, <2>3, <2>4, FilledStays
  <1> QED BY <1>1, <1>2 DEF Lookup, Checked

\* get_external_code_size writes nothing.
LEMMA CodeSizeStays ==
  ASSUME NEW addr, GetExternalCodeSize(addr)
  PROVE  Stays
  <1>1. "external_code_size" \in Resultless
    BY DEF Resultless
  <1> QED BY <1>1, UnwrittenStays, RejectedStays DEF GetExternalCodeSize, Accepted, Checked, Stays

\* get_block_hash writes a word.
LEMMA BlockHashStays ==
  ASSUME MemoryShape, NEW n, NEW o \in Int, GetBlockHash(n, o)
  PROVE  Stays
  <1>1. CASE Traps("block_hash")
    BY <1>1, RejectedStays
  <1>2. ASSUME Valid(o, WordSize), NEW w \in Word \union {None}, NEW residue \in I32,
               Accepted("block_hash", <<n, o>>, w, <<AsI32(n)>>, residue),
               memory' = Write(o, BlockHash(AsI32(n), w))
        PROVE  Stays
    <2>1. call' = CallOf("block_hash", <<n, o>>, w, <<AsI32(n)>>, residue)
      BY <1>2 DEF Accepted, CallOf
    <2>2. ResultRange(call') = <<o, WordSize>>
      BY <2>1 DEF ResultRange, CallOf, CopyOps
    <2>3. Len(BlockHash(AsI32(n), w)) = WordSize
      BY BlockHashLength
    <2>4. InMemory(o, WordSize)
      BY <1>2, ValidInMemory, WordShape
    <2> QED BY <1>2, <2>1, <2>2, <2>3, <2>4, FilledStays
  <1> QED BY <1>1, <1>2 DEF GetBlockHash, Checked

\* A copy writes no more than the length asked for.
LEMMA CopyStays ==
  ASSUME NEW op \in CopyOps, NEW o \in Int, NEW from \in Int, NEW length \in Int,
         NEW src, NEW bytes,
         Len(bytes) \in Int, Len(bytes) <= length, InMemory(o, length),
         Done(op, <<o, from, length>>, src, None, o, bytes)
  PROVE  Stays
  <1>1. call' = CallOf(op, <<o, from, length>>, src, None, 0) /\ memory' = Write(o, bytes)
    BY DEF Done, Accepted, CallOf
  <1>2. ResultRange(call') = <<o, length>>
    BY <1>1 DEF ResultRange, CallOf, CopyOps
  <1> QED BY <1>1, <1>2, WrittenStays

\* The hash functions write a word.
LEMMA HashStays ==
  ASSUME MemoryShape, NEW op \in {"sha256", "keccak256"}, NEW o, NEW length, NEW result \in Int,
         Hash(op, o, length, result)
  PROVE  Stays
  <1>1. CASE Traps(op)
    BY <1>1, RejectedStays
  <1>2. ASSUME Valid(result, WordSize), NEW w \in Word,
               Done(op, <<o, length, result>>, w, Bytes(o, length), result, w)
        PROVE  Stays
    <2>1. /\ call' = CallOf(op, <<o, length, result>>, w, Bytes(o, length), 0)
          /\ memory' = Write(result, w)
      BY <1>2 DEF Done, Accepted, CallOf
    <2>2. ResultRange(call') = <<result, WordSize>>
      BY <2>1 DEF ResultRange, CallOf, CopyOps
    <2>3. Len(w) = WordSize
      BY WordLength
    <2>4. InMemory(result, WordSize)
      BY <1>2, ValidInMemory, WordShape
    <2> QED BY <2>1, <2>2, <2>3, <2>4, FilledStays
  <1> QED BY <1>1, <1>2 DEF Hash, Checked

\* addmod, mulmod and expmod write a word at their last argument.
LEMMA ArithmeticStays ==
  ASSUME MemoryShape, NEW op \in {"addmod", "mulmod", "expmod"},
         NEW a, NEW b, NEW n, NEW result \in Int, NEW value,
         Valid(result, WordSize), Len(value) = WordSize,
         Done(op, <<a, b, n, result>>, None, None, result, value)
  PROVE  Stays
  <1>1. /\ call' = CallOf(op, <<a, b, n, result>>, None, None, 0)
        /\ memory' = Write(result, value)
    BY DEF Done, Accepted, CallOf
  <1>2. ResultRange(call') = <<result, WordSize>>
    BY <1>1 DEF ResultRange, CallOf, CopyOps
  <1>3. InMemory(result, WordSize)
    BY ValidInMemory, WordShape
  <1> QED BY <1>1, <1>2, <1>3, FilledStays

\* storage_load writes a word.
LEMMA StorageLoadStays ==
  ASSUME MemoryShape, NEW key, NEW result \in Int, StorageLoad(key, result)
  PROVE  Stays
  <1>1. CASE Traps("load")
    BY <1>1, RejectedStays
  <1>2. ASSUME ValidWord(result), NEW w \in Word,
               Done("load", <<key, result>>, w, WordAt(key), AsU32(result), w)
        PROVE  Stays
    <2>1. /\ call' = CallOf("load", <<key, result>>, w, WordAt(key), 0)
          /\ memory' = Write(AsU32(result), w)
      BY <1>2 DEF Done, Accepted, CallOf
    <2>2. ResultRange(call') = <<AsU32(result), WordSize>>
      BY <2>1 DEF ResultRange, CallOf, CopyOps
    <2>3. Len(w) = WordSize
      BY WordLength
    <2>4. InMemory(AsU32(result), WordSize)
      BY <1>2, ValidWordInMemory
    <2> QED BY <2>1, <2>2, <2>3, <2>4, FilledStays
  <1> QED BY <1>1, <1>2 DEF StorageLoad, Checked

\* create_contract writes an address.
LEMMA CreateStays ==
  ASSUME MemoryShape, NEW v, NEW c, NEW m, NEW d, NEW l, NEW s, NEW isCreate2,
         NEW result \in Int, CreateContract(v, c, m, d, l, s, isCreate2, result)
  PROVE  Stays
  <1>1. CASE Refuses("create", 1)
    BY <1>1, RejectedStays
  <1>2. ASSUME Valid(result, AddrSize), NEW a \in Address, NEW got,
               Done("create", <<result>>, a, got, result, a)
        PROVE  Stays
    <2>1. call' = CallOf("create", <<result>>, a, got, 0) /\ memory' = Write(result, a)
      BY <1>2 DEF Done, Accepted, CallOf
    <2>2. ResultRange(call') = <<result, Len(a)>>
      BY <2>1 DEF ResultRange, CallOf, CopyOps
    <2>3. InMemory(result, Len(a))
      BY <1>2, ValidInMemory, AddressLength
    <2> QED BY <2>1, <2>2, <2>3, FilledStays
  <1> QED BY <1>1, <1>2 DEF CreateContract, Checked

\* The calls of contracts leave memory to the copies of return data.
LEMMA CallsStay ==
  ASSUME MemoryShape, NEW a, NEW b, NEW n, NEW r,
         \/ CallContract(a, b, n, r) \/ CallCode(a, b, n, r)
         \/ CallDelegate(a, n, r) \/ CallStatic(a, n, r)
  PROVE  Stays
  BY TakenStays, RejectedStays
     DEF CallContract, CallCode, CallDelegate, CallStatic, CallWithValue, CallWithoutValue,
         Checked, Resultless

\* emit_log_event only reads.
LEMMA LogStays ==
  ASSUME MemoryShape, NEW o, NEW l, NEW n, NEW offsets, EmitLogEvent(o, l, n, offsets)
  PROVE  Stays
  BY TakenStays, RejectedStays DEF EmitLogEvent, Checked, Resultless

\* The four copies, by what they fill their result with.
LEMMA CopyCases ==
  ASSUME NEW a, NEW o \in Int, NEW from \in Int, NEW length \in Int,
         \/ CallDataCopy(o, from, length) \/ ReturnDataCopy(o, from, length)
         \/ CodeCopy(o, from, length) \/ ExternalCodeCopy(a, o, from, length)
  PROVE  \/ \E op \in CopyOps : Traps(op)
         \/ /\ ValidData(o, length) /\ from \in Nat
            /\ \E src \in Source :
                 \/ Done("code", <<o, from, length>>, src, None, o, Available(src, from, length))
                 \/ \E op \in CopyOps :
                      Done(op, <<o, from, length>>, src, None, o, Buffer(src, from, length))
  <1>1. CASE CallDataCopy(o, from, length)
    BY <1>1 DEF CallDataCopy, Copy, Checked, CopyOps
  <1>2. CASE ReturnDataCopy(o, from, length)
    BY <1>2 DEF ReturnDataCopy, Copy, Checked, CopyOps
  <1>3. CASE CodeCopy(o, from, length)
    BY <1>3 DEF CodeCopy, Copy, Checked, CopyOps
  <1>4. CASE ExternalCodeCopy(a, o, from, length)
    BY <1>4 DEF ExternalCodeCopy, Copy, Checked, CopyOps
  <1> QED BY <1>1, <1>2, <1>3, <1>4

\* The four copies.
LEMMA CopiesStay ==
  ASSUME MemoryShape, NEW a, NEW o \in Int, NEW from \in Int, NEW length \in Int,
         \/ CallDataCopy(o, from, length) \/ ReturnDataCopy(o, from, length)
         \/ CodeCopy(o, from, length) \/ ExternalCodeCopy(a, o, from, length)
  PROVE  Stays
  <1>1. CASE \E op \in CopyOps : Traps(op)
    BY <1>1, RejectedStays
  <1>2. ASSUME ValidData(o, length), from \in Nat, NEW src \in Source, NEW op \in CopyOps,
               NEW bytes \in {Available(src, from, length), Buffer(src, from, length)},
               Done(op, <<o, from, length>>, src, None, o, bytes)
        PROVE  Stays
    <2>1. length \in Nat /\ src \in Seq(Byte)
      BY <1>2, ArgumentsAreIntegers DEF ValidData
    <2>2. Len(bytes) \in Int /\ Len(bytes) <= length
      BY <1>2, <2>1, AvailableBytes, BufferBytes
    <2>3. InMemory(o, length)
      BY <1>2, ValidDataInMemory
    <2> QED BY <1>2, <2>2, <2>3, CopyStays
  <1> QED BY <1>1, <1>2, CopyCases DEF CopyOps

\* Every host function stays in its result.
LEMMA HostCallStays ==
  ASSUME MemoryShape, HostCall
  PROVE  Stays
  <1> USE ArgumentsAreIntegers
  <1>1. CASE \/ GetCallDataSize \/ GetCodeSize \/ GetReturnDataSize
             \/ GetBlockNumberField \/ GetGasLeft
    BY <1>1, AnswersStay
       DEF GetCallDataSize, GetCodeSize, GetReturnDataSize, GetBlockNumberField, GetGasLeft, Size,
           Resultless
  <1>2. ASSUME NEW o \in Arg,
               \/ GetAccountField(o) \/ GetBlockField(o) \/ GetFee(o) \/ GetTxGasPrice(o)
        PROVE  Stays
    BY <1>2, PutStays DEF GetAccountField, GetBlockField, GetFee, GetTxGasPrice
  <1>3. ASSUME NEW o \in Arg, GetExternalCodeSize(o)
        PROVE  Stays
    BY <1>3, CodeSizeStays
  <1>4. ASSUME NEW o \in Arg, NEW p \in Arg,
               \/ SelfDestruct(o) \/ Finish(o, p) \/ Revert(o, p)
        PROVE  Stays
    BY <1>4, ExitsStay, RejectedStays DEF SelfDestruct, Finish, Revert, Exit, Checked, Resultless
  <1>5. ASSUME NEW o \in Arg, NEW p \in Arg, GetExternalBalance(o, p) \/ GetExternalCodeHash(o, p)
        PROVE  Stays
    BY <1>5, LookupStays DEF GetExternalBalance, GetExternalCodeHash
  <1>6. ASSUME NEW o \in Arg, NEW p \in Arg, StorageStore(o, p)
        PROVE  Stays
    BY <1>6, TakenStays, RejectedStays DEF StorageStore, Checked, Resultless
  <1>7. ASSUME NEW o \in Arg, NEW p \in Arg, StorageLoad(o, p)
        PROVE  Stays
    BY <1>7, StorageLoadStays
  <1>8. ASSUME NEW n \in Long, NEW o \in Arg, GetBlockHash(n, o)
        PROVE  Stays
    BY <1>8, BlockHashStays
  <1>9. ASSUME NEW a \in Arg, NEW o \in Arg, NEW p \in Arg, NEW l \in Arg,
               \/ CallDataCopy(o, p, l) \/ ReturnDataCopy(o, p, l)
               \/ CodeCopy(o, p, l) \/ ExternalCodeCopy(a, o, p, l)
        PROVE  Stays
    BY <1>9, CopiesStay
  <1>10. ASSUME NEW o \in Arg, NEW p \in Arg, NEW l \in Arg, sha256(o, l, p) \/ keccak256(o, l, p)
         PROVE  Stays
    BY <1>10, HashStays DEF sha256, keccak256
  <1>11. ASSUME NEW a \in Arg, NEW b \in Arg, NEW n \in Arg, NEW r \in Arg,
                AddMod(a, b, n, r) \/ MulMod(a, b, n, r) \/ ExpMod(a, b, n, r)
         PROVE  Stays
    <2>1. CASE AddMod(a, b, n, r)
      BY <2>1, ArithmeticStays, ArithmeticLength, RejectedStays DEF AddMod, Arithmetic, Checked
    <2>2. CASE MulMod(a, b, n, r)
      BY <2>2, ArithmeticStays, ArithmeticLength, RejectedStays DEF MulMod, Arithmetic, Checked
    <2>3. CASE ExpMod(a, b, n, r)
      BY <2>3, ArithmeticStays, ArithmeticLength, RejectedStays DEF ExpMod, Arithmetic, Checked
    <2> QED BY <1>11, <2>1, <2>2, <2>3
  <1>12. ASSUME NEW a \in Arg, NEW b \in Arg, NEW n \in Arg, NEW r \in Arg,
                \/ CallContract(a, b, n, r) \/ CallCode(a, b, n, r)
                \/ CallDelegate(a, n, r) \/ CallStatic(a, n, r)
         PROVE  Stays
    BY <1>12, CallsStay
  <1>13. ASSUME NEW o \in Arg, NEW l \in Arg, NEW n, NEW offsets, EmitLogEvent(o, l, n, offsets)
         PROVE  Stays
    BY <1>13, LogStays
  <1>14. ASSUME NEW o \in Arg, NEW l \in Arg, NEW topics, EmitLog(o, l, topics)
         PROVE  Stays
    BY <1>14, LogStays DEF EmitLog
  <1>15. ASSUME NEW v, NEW c, NEW m, NEW d, NEW l, NEW s, NEW isCreate2,
                NEW r \in CreateArg, CreateContract(v, c, m, d, l, s, isCreate2, r)
         PROVE  Stays
    BY <1>15, CreateStays
  <1> QED BY <1>1, <1>2, <1>3, <1>4, <1>5, <1>6, <1>7, <1>8, <1>9, <1>10, <1>11, <1>12,
             <1>13, <1>14, <1>15 DEF HostCall

\* The guest's own return leaves memory alone, and is no copy.
LEMMA ReturnLeavesMemory ==
  ASSUME ReturnNothing \/ ReturnInteger \/ ReturnFloat
  PROVE  memory' = memory /\ call'.op \in {"return", "return_nothing"}
  <1>1. ASSUME NEW type, NEW n, NEW bits, Return(type, n, bits)
        PROVE  memory' = memory /\ call'.op = "return"
    BY <1>1 DEF Return, Accepted
  <1> QED BY <1>1 DEF ReturnNothing, ReturnInteger, ReturnFloat, Exits, Accepted

\* So does every step; those of the guest itself are no calls.
LEMMA StepStays ==
  ASSUME MemoryShape, Next
  PROVE  Stays
  <1>1. CASE HostCall
    BY <1>1, HostCallStays
  <1>5. CASE ReturnNothing \/ ReturnInteger \/ ReturnFloat
    BY <1>5, ReturnLeavesMemory, UnwrittenStays DEF Resultless, Stays
  <1>2. CASE GoOn
    BY <1>2 DEF GoOn, Stays, NoCall
  <1>3. ASSUME NEW a, NEW b, GuestStore(a, b)
        PROVE  Stays
    BY <1>3 DEF GuestStore, Ready, Stays, NoCall
  <1>4. CASE Restart
    BY <1>4 DEF Restart, Stays, NoCall
  <1> QED BY <1>1, <1>2, <1>3, <1>4, <1>5 DEF Next

-----------------------------------------------------------------------------
(* The theorems. *)

\* Memory has its addresses from the start.
LEMMA InitShape == ASSUME Init PROVE MemoryShape
  BY DEF Init, MemoryShape

\* No step changes which addresses memory has.
LEMMA StepKeepsDomain ==
  ASSUME Next
  PROVE  DOMAIN memory' = DOMAIN memory
  <1>1. ASSUME NEW op, NEW args, NEW given, NEW got, NEW offset, NEW bytes,
               Done(op, args, given, got, offset, bytes)
        PROVE  DOMAIN memory' = DOMAIN memory
    BY <1>1, WriteKeepsShape DEF Done
  <1>2. ASSUME NEW op, NEW args, NEW got, NEW answer,
               \/ Taken(op, args, got) \/ Exits(op, args, got) \/ Answers(op, answer)
               \/ Traps(op) \/ Refuses(op, answer)
        PROVE  DOMAIN memory' = DOMAIN memory
    BY <1>1, <1>2 DEF Taken, Exits, Answers, Traps, Refuses
  <1>3. CASE HostCall
    <2>1. CASE \/ GetCallDataSize \/ GetCodeSize \/ GetReturnDataSize
               \/ GetBlockNumberField \/ GetGasLeft
      BY <2>1, <1>2
         DEF GetCallDataSize, GetCodeSize, GetReturnDataSize, GetBlockNumberField, GetGasLeft, Size
    <2>2. ASSUME NEW o \in Arg,
                 \/ GetAccountField(o) \/ GetBlockField(o) \/ GetFee(o) \/ GetTxGasPrice(o)
                 \/ GetExternalCodeSize(o) \/ SelfDestruct(o)
          PROVE  DOMAIN memory' = DOMAIN memory
      BY <2>2, <1>1, <1>2
         DEF GetAccountField, GetBlockField, GetFee, GetTxGasPrice, Put, GetExternalCodeSize,
             SelfDestruct, Checked
    <2>3. ASSUME NEW o \in Arg, NEW p \in Arg,
                 \/ GetExternalBalance(o, p) \/ GetExternalCodeHash(o, p)
                 \/ StorageStore(o, p) \/ StorageLoad(o, p) \/ Finish(o, p) \/ Revert(o, p)
          PROVE  DOMAIN memory' = DOMAIN memory
      BY <2>3, <1>1, <1>2
         DEF GetExternalBalance, GetExternalCodeHash, Lookup, StorageStore, StorageLoad,
             Finish, Revert, Exit, Checked
    <2>4. ASSUME NEW n \in Long, NEW o \in Arg, GetBlockHash(n, o)
          PROVE  DOMAIN memory' = DOMAIN memory
      BY <2>4, <1>2, WriteKeepsShape DEF GetBlockHash, Checked
    <2>5. ASSUME NEW a \in Arg, NEW o \in Arg, NEW p \in Arg, NEW l \in Arg,
                 \/ CallDataCopy(o, p, l) \/ ReturnDataCopy(o, p, l)
                 \/ CodeCopy(o, p, l) \/ ExternalCodeCopy(a, o, p, l)
          PROVE  DOMAIN memory' = DOMAIN memory
      BY <2>5, <1>1, <1>2, CopyCases, ArgumentsAreIntegers
    <2>6. ASSUME NEW o \in Arg, NEW p \in Arg, NEW l \in Arg,
                 sha256(o, l, p) \/ keccak256(o, l, p)
          PROVE  DOMAIN memory' = DOMAIN memory
      BY <2>6, <1>1, <1>2 DEF sha256, keccak256, Hash, Checked
    <2>7. ASSUME NEW a \in Arg, NEW b \in Arg, NEW n \in Arg, NEW r \in Arg,
                 AddMod(a, b, n, r) \/ MulMod(a, b, n, r) \/ ExpMod(a, b, n, r)
          PROVE  DOMAIN memory' = DOMAIN memory
      BY <2>7, <1>1, <1>2 DEF AddMod, MulMod, ExpMod, Arithmetic, Checked
    <2>8. ASSUME NEW a \in Arg, NEW b \in Arg, NEW n \in Arg, NEW r \in Arg,
                 \/ CallContract(a, b, n, r) \/ CallCode(a, b, n, r)
                 \/ CallDelegate(a, n, r) \/ CallStatic(a, n, r)
          PROVE  DOMAIN memory' = DOMAIN memory
      BY <2>8, <1>2
         DEF CallContract, CallCode, CallDelegate, CallStatic, CallWithValue, CallWithoutValue,
             Checked
    <2>9. ASSUME NEW o, NEW l, NEW n, NEW offsets, EmitLogEvent(o, l, n, offsets)
          PROVE  DOMAIN memory' = DOMAIN memory
      BY <2>9, <1>2 DEF EmitLogEvent, Checked
    <2>10. ASSUME NEW o, NEW l, NEW topics, EmitLog(o, l, topics)
           PROVE  DOMAIN memory' = DOMAIN memory
      BY <2>10, <2>9 DEF EmitLog
    <2>11. ASSUME NEW v, NEW c, NEW m, NEW d, NEW l, NEW s, NEW isCreate2, NEW r,
                  CreateContract(v, c, m, d, l, s, isCreate2, r)
           PROVE  DOMAIN memory' = DOMAIN memory
      BY <2>11, <1>1, <1>2 DEF CreateContract, Checked
    <2> QED BY <1>3, <2>1, <2>2, <2>3, <2>4, <2>5, <2>6, <2>7, <2>8, <2>9, <2>10, <2>11
            DEF HostCall
  <1>4. CASE GoOn \/ Restart \/ \E a, b : GuestStore(a, b)
    BY <1>4 DEF GoOn, Restart, GuestStore
  <1>5. CASE ReturnNothing \/ ReturnInteger \/ ReturnFloat
    BY <1>5, ReturnLeavesMemory
  <1> QED BY <1>3, <1>4, <1>5 DEF Next

\* And keeps them.
LEMMA StepKeepsShape ==
  ASSUME MemoryShape, [Next]_vars
  PROVE  MemoryShape'
  BY StepKeepsDomain DEF MemoryShape, vars

\* Memory keeps its size, whatever the guest and its host calls do.
THEOREM ShapeInvariant == Spec => []MemoryShape
  <1>1. Init => MemoryShape
    BY InitShape
  <1>2. MemoryShape /\ [Next]_vars => MemoryShape'
    BY StepKeepsShape
  <1> QED BY <1>1, <1>2, PTL DEF Spec

\* A host call that is accepted has its whole result in memory and changes nothing
\* else there, and a rejected one changes nothing (utils.rs:59-87).
THEOREM ResultsOnly == Spec => WritesStayInResult
  <1>1. MemoryShape /\ Next =>
          IF call'.outcome = "rejected" THEN memory' = memory
          ELSE call' # NoCall => ChangesResultOnly
    BY StepStays DEF Stays
  <1> QED BY <1>1, ShapeInvariant, PTL DEF Spec, WritesStayInResult

-----------------------------------------------------------------------------
(* The copies fill their results. *)

\* The copies that fill the rest of their result.
Filling == {"call_data", "return_data", "external_code"}

\* A copy that writes a whole buffer fills its result.
LEMMA CopyFills ==
  ASSUME MemoryShape, NEW op, NEW o \in Int, NEW from \in Nat, NEW length \in Int,
         NEW src \in Seq(Byte), ValidData(o, length),
         Done(op, <<o, from, length>>, src, None, o, Buffer(src, from, length))
  PROVE  ZeroFills(Filling)
  <1> DEFINE filled == Buffer(src, from, length)
  <1>1. call' = CallOf(op, <<o, from, length>>, src, None, 0) /\ memory' = Write(o, filled)
    BY DEF Done, Accepted, CallOf
  <1>2. /\ call'.args[1] = o /\ call'.args[2] = from
        /\ call'.args[3] = length /\ call'.given = src
    BY <1>1 DEF CallOf
  <1>3. length \in Nat /\ o \in Nat /\ o + length <= MemSize
    BY DEF ValidData, ValidRange
  <1>4. ASSUME NEW i \in 0..(length - 1)
        PROVE  memory'[o + i] = ZeroFilled(call', i)
    <2>1. Len(filled) = length /\ filled[i + 1] = IF from + i < Len(src) THEN src[from + i + 1] ELSE 0
      BY <1>3, BufferBytes
    <2>2. o + i \in DOMAIN memory /\ o + i \in o..(o + Len(filled) - 1)
      BY <1>3, <2>1, MemSizeNatural DEF MemoryShape
    <2>3. memory'[o + i] = filled[(o + i) - o + 1]
      BY <1>1, <2>2 DEF Write
    <2>4. (o + i) - o + 1 = i + 1
      BY <1>3
    <2> QED BY <1>2, <2>1, <2>3, <2>4 DEF ZeroFilled
  <1> QED BY <1>2, <1>4 DEF ZeroFills

\* What is not one of these copies, or is rejected, has nothing to fill.
LEMMA OthersFillNothing ==
  ASSUME call'.op \notin Filling \/ call'.outcome # "ok"
  PROVE  ZeroFills(Filling)
  BY DEF ZeroFills

\* The accepted calls of other functions.
LEMMA OtherDone ==
  ASSUME NEW op, op \notin Filling,
         NEW args, NEW given, NEW got, NEW offset, NEW bytes, NEW answer,
         \/ Done(op, args, given, got, offset, bytes) \/ Taken(op, args, got)
         \/ Exits(op, args, got) \/ Answers(op, answer) \/ Accepted(op, args, given, got, answer)
  PROVE  ZeroFills(Filling)
  <1>1. call'.op = op
    BY DEF Done, Taken, Exits, Answers, Accepted
  <1> QED BY <1>1, OthersFillNothing

\* A rejected copy has nothing to fill.
LEMMA RejectedFillsNothing ==
  ASSUME NEW op, NEW answer, Traps(op) \/ Refuses(op, answer)
  PROVE  ZeroFills(Filling)
  <1>1. call'.outcome = "rejected"
    BY DEF Traps, Refuses, NoCall
  <1> QED BY <1>1, OthersFillNothing

\* Every host function fills, or need not.
LEMMA HostCallFills ==
  ASSUME MemoryShape, HostCall
  PROVE  ZeroFills(Filling)
  <1> USE DEF Filling
  <1>1. CASE \/ GetCallDataSize \/ GetCodeSize \/ GetReturnDataSize
             \/ GetBlockNumberField \/ GetGasLeft
    BY <1>1, OtherDone
       DEF GetCallDataSize, GetCodeSize, GetReturnDataSize, GetBlockNumberField, GetGasLeft, Size
  <1>2. ASSUME NEW o \in Arg,
               \/ GetAccountField(o) \/ GetBlockField(o) \/ GetFee(o) \/ GetTxGasPrice(o)
               \/ GetExternalCodeSize(o) \/ SelfDestruct(o)
        PROVE  ZeroFills(Filling)
    BY <1>2, OtherDone, RejectedFillsNothing
       DEF GetAccountField, GetBlockField, GetFee, GetTxGasPrice, Put, GetExternalCodeSize,
           SelfDestruct, Checked
  <1>3. ASSUME NEW o \in Arg, NEW p \in Arg,
               \/ GetExternalBalance(o, p) \/ GetExternalCodeHash(o, p)
               \/ StorageStore(o, p) \/ StorageLoad(o, p) \/ Finish(o, p) \/ Revert(o, p)
        PROVE  ZeroFills(Filling)
    BY <1>3, OtherDone, RejectedFillsNothing
       DEF GetExternalBalance, GetExternalCodeHash, Lookup, StorageStore, StorageLoad,
           Finish, Revert, Exit, Checked
  <1>4. ASSUME NEW n \in Long, NEW o \in Arg, GetBlockHash(n, o)
        PROVE  ZeroFills(Filling)
    BY <1>4, OtherDone, RejectedFillsNothing DEF GetBlockHash, Checked
  <1>5. ASSUME NEW a \in Arg, NEW o \in Arg, NEW p \in Arg, NEW l \in Arg,
               \/ CallDataCopy(o, p, l) \/ ReturnDataCopy(o, p, l)
               \/ CodeCopy(o, p, l) \/ ExternalCodeCopy(a, o, p, l)
        PROVE  ZeroFills(Filling)
    <2>1. CASE \E op \in CopyOps : Traps(op)
      BY <2>1, RejectedFillsNothing
    <2>2. ASSUME ValidData(o, l), p \in Nat, NEW src \in Source,
                 Done("code", <<o, p, l>>, src, None, o, Available(src, p, l))
          PROVE  ZeroFills(Filling)
      BY <2>2, OtherDone
    <2>3. ASSUME ValidData(o, l), p \in Nat, NEW src \in Source, NEW op \in CopyOps,
                 Done(op, <<o, p, l>>, src, None, o, Buffer(src, p, l))
          PROVE  ZeroFills(Filling)
      BY <2>3, CopyFills, ArgumentsAreIntegers
    <2> QED BY <1>5, <2>1, <2>2, <2>3, CopyCases, ArgumentsAreIntegers
  <1>6. ASSUME NEW o \in Arg, NEW p \in Arg, NEW l \in Arg,
               sha256(o, l, p) \/ keccak256(o, l, p)
        PROVE  ZeroFills(Filling)
    BY <1>6, OtherDone, RejectedFillsNothing DEF sha256, keccak256, Hash, Checked
  <1>7. ASSUME NEW a \in Arg, NEW b \in Arg, NEW n \in Arg, NEW r \in Arg,
               AddMod(a, b, n, r) \/ MulMod(a, b, n, r) \/ ExpMod(a, b, n, r)
        PROVE  ZeroFills(Filling)
    BY <1>7, OtherDone, RejectedFillsNothing DEF AddMod, MulMod, ExpMod, Arithmetic, Checked
  <1>8. ASSUME NEW a \in Arg, NEW b \in Arg, NEW n \in Arg, NEW r \in Arg,
               \/ CallContract(a, b, n, r) \/ CallCode(a, b, n, r)
               \/ CallDelegate(a, n, r) \/ CallStatic(a, n, r)
        PROVE  ZeroFills(Filling)
    BY <1>8, OtherDone, RejectedFillsNothing
       DEF CallContract, CallCode, CallDelegate, CallStatic, CallWithValue, CallWithoutValue,
           Checked
  <1>9. ASSUME NEW o, NEW l, NEW n, NEW offsets, EmitLogEvent(o, l, n, offsets)
        PROVE  ZeroFills(Filling)
    BY <1>9, OtherDone, RejectedFillsNothing DEF EmitLogEvent, Checked
  <1>10. ASSUME NEW o, NEW l, NEW topics, EmitLog(o, l, topics)
         PROVE  ZeroFills(Filling)
    BY <1>10, <1>9 DEF EmitLog
  <1>11. ASSUME NEW v, NEW c, NEW m, NEW d, NEW l, NEW s, NEW isCreate2, NEW r,
                CreateContract(v, c, m, d, l, s, isCreate2, r)
         PROVE  ZeroFills(Filling)
    BY <1>11, OtherDone, RejectedFillsNothing DEF CreateContract, Checked
  <1> QED BY <1>1, <1>2, <1>3, <1>4, <1>5, <1>6, <1>7, <1>8, <1>9, <1>10, <1>11 DEF HostCall

\* And so every step.
LEMMA StepFills ==
  ASSUME MemoryShape, Next
  PROVE  ZeroFills(Filling)
  <1>1. CASE HostCall
    BY <1>1, HostCallFills
  <1>2. CASE GoOn \/ Restart \/ \E a, b : GuestStore(a, b)
    BY <1>2, OthersFillNothing DEF GoOn, Restart, GuestStore, Ready, NoCall
  <1>3. CASE ReturnNothing \/ ReturnInteger \/ ReturnFloat
    BY <1>3, ReturnLeavesMemory, OthersFillNothing DEF Filling
  <1> QED BY <1>1, <1>2, <1>3 DEF Next

\* A copy of call data, return data or external code fills the length asked
\* for: with the bytes of the source, and with zeros behind its end.
THEOREM CopiesFill == Spec => CopiesZeroFill
  <1>1. MemoryShape /\ Next => ZeroFills({"call_data", "return_data", "external_code"})
    BY StepFills DEF Filling
  <1> QED BY <1>1, ShapeInvariant, PTL DEF Spec, CopiesZeroFill

-----------------------------------------------------------------------------
(* Numbers of 32 and 64 bits. *)

\* A cast to i32 is in range.
LEMMA AsI32Range == ASSUME NEW x \in Int PROVE AsI32(x) \in I32
  <1>1. AsU32(x) \in 0..(Ints - 1)
    BY AsU32Range
  <1> QED BY <1>1, Widths DEF AsI32, I32

\* A cast to i64 is in range.
LEMMA AsI64Range == ASSUME NEW x \in 0..(Longs - 1) PROVE AsI64(x) \in I64
  BY Widths DEF AsI64, I64

\* The codes that the bridge answers with are i32s.
LEMMA SmallNumbers == 0 \in I32 /\ 1 \in I32
  BY Widths DEF I32

\* The bits of an i32 give it back, and those of an i64.
LEMMA IntRoundTrip ==
  ASSUME NEW n \in I32
  PROVE  AsU32(n) \in 0..(Ints - 1) /\ AsI32(n) = n
  <1>1. n \in Int
    BY Widths DEF I32
  <1>2. CASE n >= 0
    <2>1. n \in 0..(Ints - 1) /\ n < PositiveInts
      BY <1>2, Widths DEF I32
    <2>2. n % Ints = n
      BY <2>1, SmallRemainder, Widths
    <2> QED BY <2>1, <2>2 DEF AsI32, AsU32
  <1>3. CASE n < 0
    <2>1. n + Ints \in 0..(Ints - 1) /\ n = Ints * (-1) + (n + Ints) /\ n + Ints >= PositiveInts
      BY <1>3, Widths DEF I32
    <2>2. n % Ints = n + Ints
      BY <1>1, <2>1, DivisionUnique, Widths
    <2> QED BY <1>1, <2>1, <2>2, Widths DEF AsI32, AsU32
  <1> QED BY <1>1, <1>2, <1>3, AsU32Range

\* An i64 comes back from its bits.
LEMMA LongRoundTrip ==
  ASSUME NEW n \in I64
  PROVE  n % Longs \in 0..(Longs - 1) /\ AsI64(n % Longs) = n
  <1>1. n \in Int
    BY Widths DEF I64
  <1>2. CASE n >= 0
    <2>1. n \in 0..(Longs - 1) /\ n < PositiveLongs
      BY <1>2, Widths DEF I64
    <2>2. n % Longs = n
      BY <2>1, SmallRemainder, Widths
    <2> QED BY <2>1, <2>2 DEF AsI64
  <1>3. CASE n < 0
    <2>1. /\ n + Longs \in 0..(Longs - 1) /\ n = Longs * (-1) + (n + Longs)
          /\ n + Longs >= PositiveLongs
      BY <1>3, Widths DEF I64
    <2>2. n % Longs = n + Longs
      BY <1>1, <2>1, DivisionUnique, Widths
    <2> QED BY <1>1, <2>1, <2>2, Widths DEF AsI64
  <1> QED BY <1>1, <1>2, <1>3

\* The upper half of a cell is lost with `as i32', whatever it holds.
LEMMA UpperHalfLost ==
  ASSUME NEW rest \in 0..(Halves - 1), NEW bits \in 0..(Ints - 1)
  PROVE  /\ rest * Ints + bits \in 0..(Longs - 1)
         /\ AsU32(AsI64(rest * Ints + bits)) = bits
  <1> DEFINE x == rest * Ints + bits
  <1>1. Ints * rest + Ints <= Ints * Halves
    BY Widths, MultiplesApart
  <1>2. Ints * rest \in Nat /\ Ints * rest = rest * Ints
    BY Widths
  <1>3. x \in 0..(Longs - 1)
    BY <1>1, <1>2, Widths
  <1>4. x % Ints = bits
    <2>1. x = Ints * rest + bits /\ x \in Int /\ rest \in Int
      BY <1>2, Widths
    <2> HIDE DEF x
    <2> QED BY <2>1, DivisionUnique, Widths
  <1>5. (x - Longs) % Ints = bits
    <2>1. Ints * (rest - Halves) = Ints * rest - Ints * Halves
      BY Widths
    <2>2. /\ x - Longs = Ints * (rest - Halves) + bits
          /\ x - Longs \in Int /\ rest - Halves \in Int
      BY <1>2, <2>1, Widths
    <2> HIDE DEF x
    <2> QED BY <2>2, DivisionUnique, Widths
  <1> HIDE DEF x
  <1>6. AsU32(AsI64(x)) = bits
    BY <1>4, <1>5 DEF AsU32, AsI64
  <1> QED BY <1>3, <1>6 DEF x

\* What is read from the cell of a result is an i64.
LEMMA CellRange ==
  ASSUME NEW type, NEW bits \in 0..(Longs - 1), NEW rest \in 0..(Halves - 1),
         type \in {"i32", "f32"} => bits \in 0..(Ints - 1)
  PROVE  Cell(type, bits, rest) \in I64
  BY UpperHalfLost, AsI64Range DEF Cell

-----------------------------------------------------------------------------
(* Bytes stay bytes. *)

\* TypeOK knows the addresses.
LEMMA TypeHasShape == TypeOK => MemoryShape
  BY DEF TypeOK, Memory, MemoryShape

\* What is read in a valid range are bytes.
LEMMA BytesOfMemory ==
  ASSUME memory \in Memory, NEW offset \in Nat, NEW length \in Nat, ValidRange(offset, length)
  PROVE  Bytes(offset, length) \in [1..length -> Byte]
  BY MemSizeNatural DEF Memory, ValidRange, Bytes

\* An operand that passed its check is a word.
LEMMA OperandWord ==
  ASSUME memory \in Memory, NEW offset \in Int, Valid(offset, WordSize)
  PROVE  Operand(offset) \in Word
  BY BytesOfMemory, BytesAreNatural DEF Operand, Valid, Word

\* Words and addresses are byte strings.
LEMMA WordIsBytes == Word \subseteq Seq(Byte) /\ Address \subseteq Seq(Byte)
  <1>1. WordSize \in Nat /\ AddrSize \in Nat
    BY MemoryAssumption, BytesAreNatural
  <1> QED BY <1>1, LengthOfTuple DEF Word, Address

\* Writing bytes leaves bytes.
LEMMA WriteKeepsBytes ==
  ASSUME memory \in Memory, NEW offset \in Int, NEW bytes \in Seq(Byte)
  PROVE  Write(offset, bytes) \in Memory
  <1>1. DOMAIN memory = 0..(MemSize - 1) /\ \A a \in DOMAIN memory : memory[a] \in Byte
    BY DEF Memory
  <1>2. ASSUME NEW a \in DOMAIN memory, a \in offset..(offset + Len(bytes) - 1)
        PROVE  bytes[a - offset + 1] \in Byte
    <2>1. a - offset + 1 \in 1..Len(bytes)
      BY <1>2
    <2> QED BY <2>1
  <1> QED BY <1>1, <1>2 DEF Write, Memory

\* Zeros are bytes.
LEMMA ZerosAreBytes == ASSUME NEW n \in Nat PROVE Zeros(n) \in [1..n -> Byte]
  BY BytesAreNatural DEF Zeros, Byte

\* A buffer is made of bytes.
LEMMA BufferIsBytes ==
  ASSUME NEW src \in Seq(Byte), NEW from \in Nat, NEW length \in Nat
  PROVE  Buffer(src, from, length) \in Seq(Byte)
  <1>1. /\ Available(src, from, length) \in Seq(Byte)
        /\ length - Len(Available(src, from, length)) \in Nat
    BY AvailableBytes
  <1>2. Zeros(length - Len(Available(src, from, length))) \in Seq(Byte)
    BY <1>1, ZerosAreBytes, LengthOfTuple
  <1> QED BY <1>1, <1>2 DEF Buffer

\* A block hash is a word, found or not.
LEMMA BlockHashWord ==
  ASSUME NEW n, NEW w \in Word \union {None}
  PROVE  BlockHash(n, w) \in Word
  BY ZerosAreBytes, BytesAreNatural DEF BlockHash, Word

-----------------------------------------------------------------------------
(* Modular arithmetic on memory. *)

\* The functions with a modulus.
Modular == {"addmod", "mulmod", "expmod"}

\* The step property of ArithmeticExact.
ResidueLeft ==
  call'.op \in Modular /\ call'.outcome = "ok" =>
     LET Number(i) == FromBytes(Operand(call'.args[i]))
         result == [i \in 1..WordSize |-> memory'[call'.args[4] + i - 1]]
     IN IsResidue(FromBytes(result),
                  Exact(call'.op, Number(1), Number(2)), Number(3))

\* Mod is a residue as IsResidue defines it, without division.
LEMMA ModIsResidue ==
  ASSUME NEW v \in Nat, NEW n \in Nat
  PROVE  IsResidue(Mod(v, n), v, n)
  <1>1. CASE n = 0
    BY <1>1 DEF IsResidue, Mod
  <1>2. CASE n # 0
    <2> DEFINE q == v \div n
               r == v % n
    <2>1. n \in Nat \ {0} /\ q \in Int /\ r \in 0..(n - 1) /\ v = n * q + r
      BY <1>2, Division
    <2> HIDE DEF q, r
    <2>2. v - r = n * q + 0 /\ v - r \in Int /\ 0 \in 0..(n - 1)
      BY <2>1
    <2>3. (v - r) \div n = q
      BY <2>1, <2>2, DivisionUnique
    <2>4. IsResidue(r, v, n)
      BY <1>2, <2>1, <2>2, <2>3 DEF IsResidue
    <2> QED BY <1>2, <2>4 DEF Mod, r
  <1> QED BY <1>1, <1>2

\* What is written at an offset that validates is there afterwards.
LEMMA WrittenWord ==
  ASSUME memory \in Memory, NEW offset \in Int, Valid(offset, WordSize), NEW w \in Word
  PROVE  [i \in 1..WordSize |-> Write(offset, w)[offset + i - 1]] = w
  <1>1. ASSUME NEW i \in 1..WordSize
        PROVE  Write(offset, w)[offset + i - 1] = w[i]
    <2>1. /\ offset + i - 1 \in DOMAIN memory
          /\ offset + i - 1 \in offset..(offset + Len(w) - 1)
          /\ (offset + i - 1) - offset + 1 = i
      BY WordLength, BytesAreNatural, MemSizeNatural DEF Memory, Valid, ValidRange
    <2> QED BY <2>1 DEF Write
  <1> QED BY <1>1 DEF Word

\* The exact number that an operation on three operands is to reduce.
LEMMA ArithmeticReduces ==
  ASSUME NEW a \in Word, NEW b \in Word, NEW n \in Word, NEW op, NEW value,
         \/ op = "addmod" /\ value = addmod(a, b, n)
         \/ op = "mulmod" /\ value = mulmod(a, b, n)
         \/ op = "expmod" /\ value = expmod(a, b, n)
  PROVE  /\ value \in Word
         /\ IsResidue(FromBytes(value), Exact(op, FromBytes(a), FromBytes(b)), FromBytes(n))
  <1>1. FromBytes(a) \in Nat /\ FromBytes(b) \in Nat /\ FromBytes(n) \in Nat
    BY WordNumber
  <1>2. /\ FromBytes(a) + FromBytes(b) \in Nat
        /\ FromBytes(a) * FromBytes(b) \in Nat
        /\ Power(FromBytes(a), FromBytes(b)) \in Nat
    <2>1. Power(FromBytes(a), FromBytes(b)) \in Nat
      BY <1>1, PowerNatural
    <2>2. \A x, y \in Nat : x + y \in Nat /\ x * y \in Nat
      OBVIOUS
    <2> QED BY <1>1, <2>1, <2>2
  <1>3. CASE op = "addmod" /\ value = addmod(a, b, n)
    BY <1>1, <1>2, <1>3, AddmodCorrect, ModIsResidue DEF Exact
  <1>4. CASE op = "mulmod" /\ value = mulmod(a, b, n)
    BY <1>1, <1>2, <1>4, MulmodCorrect, ModIsResidue DEF Exact
  <1>5. CASE op = "expmod" /\ value = expmod(a, b, n)
    BY <1>1, <1>2, <1>5, ExpmodCorrect, ModIsResidue DEF Exact
  <1> QED BY <1>3, <1>4, <1>5

-----------------------------------------------------------------------------
(* Every step keeps the types, and arithmetic leaves residues. *)

\* What a host function concludes with.
Concludes == TypeOK' /\ ResidueLeft /\ call'.op # "return"

\* The operations that TypeOK or ResidueLeft treats in a way of its own.
Plain == {"number", "gas_left", "return"} \union Modular

\* Without a call there is nothing to conclude but the types.
LEMMA NothingRejected ==
  ASSUME call' = NoCall, memory' \in Memory, running' \in BOOLEAN
  PROVE  Concludes
  BY SmallNumbers DEF Concludes, TypeOK, ResidueLeft, Modular, NoCall, Wide, Outcome

\* A rejected call.
LEMMA RejectedConcludes ==
  ASSUME TypeOK, NEW op, op # "return", NEW answer \in {0, 1}, op \notin Plain,
         Traps(op) \/ Refuses(op, answer)
  PROVE  Concludes
  <1>1. /\ DOMAIN call' = DOMAIN NoCall /\ call'.op = op /\ call'.outcome = "rejected"
        /\ call'.answer \in {0, 1}
        /\ call'.args = None /\ call'.given = None /\ call'.got = None
        /\ memory' = memory /\ running' \in BOOLEAN
    BY DEF Traps, Refuses, NoCall, TypeOK
  <1>2. ~Wide(call')
    BY <1>1 DEF Wide, Plain
  <1>3. TypeOK'
    BY <1>1, <1>2, SmallNumbers DEF TypeOK, Outcome
  <1> QED BY <1>1, <1>3 DEF Concludes, ResidueLeft

\* An accepted call other than arithmetic, by what it leaves in memory.
LEMMA AcceptedConcludes ==
  ASSUME NEW op, NEW args, NEW given, NEW got, NEW answer \in I64,
         op \notin Modular \union {"return"},
         op \in {"number", "gas_left"} \/ answer \in I32,
         Accepted(op, args, given, got, answer), memory' \in Memory, running' \in BOOLEAN
  PROVE  Concludes
  <1>1. /\ DOMAIN call' = DOMAIN NoCall /\ call'.op = op /\ call'.outcome = "ok"
        /\ call'.answer = answer
    BY DEF Accepted, NoCall
  <1>2. call'.answer \in IF Wide(call') THEN I64 ELSE I32
    BY <1>1 DEF Wide
  <1>3. TypeOK'
    BY <1>1, <1>2 DEF TypeOK, Outcome
  <1> QED BY <1>1, <1>3 DEF Concludes, ResidueLeft

\* An i32 is an i64.
LEMMA IntsAreLongs == I32 \subseteq I64
  <1>1. \A x, y \in Nat \ {0} : x <= x * y
    OBVIOUS
  <1>2. Ints <= Longs
    BY <1>1, Widths
  <1> QED BY <1>2, Widths DEF I32, I64

\* A call that writes bytes.
LEMMA DoneConcludes ==
  ASSUME TypeOK, NEW op, op \notin Plain, NEW args, NEW given, NEW got,
         NEW offset \in Int, NEW bytes \in Seq(Byte),
         Done(op, args, given, got, offset, bytes)
  PROVE  Concludes
  <1>1. memory' \in Memory /\ running' \in BOOLEAN
    BY WriteKeepsBytes DEF TypeOK, Done
  <1> QED BY <1>1, AcceptedConcludes, SmallNumbers, IntsAreLongs DEF Done, Plain

\* A call that writes nothing.
LEMMA UnwrittenConcludes ==
  ASSUME TypeOK, NEW op, op \notin Plain, NEW args, NEW got, NEW answer \in I32,
         Taken(op, args, got) \/ Exits(op, args, got) \/ Answers(op, answer)
  PROVE  Concludes
  <1>1. <<>> \in Seq(Byte) /\ 0 \in Int
    OBVIOUS
  <1>2. CASE Taken(op, args, got)
    BY <1>1, <1>2, DoneConcludes DEF Taken
  <1>3. CASE Exits(op, args, got)
    BY <1>3, AcceptedConcludes, SmallNumbers, IntsAreLongs DEF Exits, Plain, TypeOK
  <1>4. CASE Answers(op, answer)
    BY <1>4, AcceptedConcludes, IntsAreLongs DEF Answers, Plain, TypeOK
  <1> QED BY <1>2, <1>3, <1>4

\* A getter that answers with an i64.
LEMMA WideConcludes ==
  ASSUME TypeOK, NEW op \in {"number", "gas_left"}, NEW answer \in I64, Answers(op, answer)
  PROVE  Concludes
  BY AcceptedConcludes DEF Answers, Modular, TypeOK

\* Arithmetic, over the operands as they were, whatever of them it overwrites.
LEMMA ArithmeticConcludes ==
  ASSUME TypeOK, NEW op, NEW a \in Int, NEW b \in Int, NEW n \in Int, NEW result \in Int,
         NEW value, Arithmetic(op, a, b, n, result, value),
         \/ op = "addmod" /\ value = addmod(Operand(a), Operand(b), Operand(n))
         \/ op = "mulmod" /\ value = mulmod(Operand(a), Operand(b), Operand(n))
         \/ op = "expmod" /\ value = expmod(Operand(a), Operand(b), Operand(n))
  PROVE  Concludes
  <1>1. CASE Traps(op)
    <2>1. /\ DOMAIN call' = DOMAIN NoCall /\ call'.op = op /\ call'.outcome = "rejected"
          /\ call'.answer = 0
          /\ call'.args = None /\ call'.given = None /\ call'.got = None
          /\ memory' = memory /\ running' \in BOOLEAN
      BY <1>1 DEF Traps, NoCall
    <2>2. TypeOK'
      BY <2>1, SmallNumbers DEF TypeOK, Outcome, Wide
    <2> QED BY <2>1, <2>2 DEF Concludes, ResidueLeft
  <1>2. CASE /\ \A o \in {a, b, n, result} : Valid(o, WordSize)
             /\ Done(op, <<a, b, n, result>>, None, None, result, value)
    <2>1. memory \in Memory /\ Valid(result, WordSize)
      BY <1>2 DEF TypeOK
    <2>2. Operand(a) \in Word /\ Operand(b) \in Word /\ Operand(n) \in Word
      BY <1>2, <2>1, OperandWord
    <2>3. /\ value \in Word
          /\ IsResidue(FromBytes(value),
                       Exact(op, FromBytes(Operand(a)), FromBytes(Operand(b))),
                       FromBytes(Operand(n)))
      BY <2>2, ArithmeticReduces
    <2>4. /\ call' = CallOf(op, <<a, b, n, result>>, None, None, 0)
          /\ memory' = Write(result, value) /\ running' = running
      BY <1>2 DEF Done, Accepted, CallOf
    <2>5. /\ DOMAIN call' = DOMAIN NoCall /\ call'.op = op /\ call'.outcome = "ok"
          /\ call'.answer = 0 /\ call'.args[1] = a /\ call'.args[2] = b
          /\ call'.args[3] = n /\ call'.args[4] = result
      BY <2>4 DEF CallOf, NoCall
    <2>6. [i \in 1..WordSize |-> memory'[result + i - 1]] = value
      BY <2>1, <2>3, <2>4, WrittenWord
    <2>7. memory' \in Memory
      BY <2>1, <2>3, <2>4, WriteKeepsBytes, WordIsBytes
    <2>8. TypeOK'
      BY <2>4, <2>5, <2>7, SmallNumbers DEF TypeOK, Outcome, Wide
    <2>9. ResidueLeft
      BY <2>3, <2>5, <2>6 DEF ResidueLeft
    <2> QED BY <2>5, <2>8, <2>9 DEF Concludes
  <1> QED BY <1>1, <1>2 DEF Arithmetic, Checked

\* The inputs that a host function is given.
LEMMA ConstantsTyped ==
  /\ Arg \subseteq Int /\ CreateArg \subseteq Int
  /\ Long \subseteq I64 /\ Long \subseteq Int /\ GasCounter \subseteq 0..(Longs - 1)
  /\ \A src \in Source : src \in Seq(Byte) /\ Len(src) \in Int
  <1>1. Source \subseteq Seq(Byte) /\ \A src \in Seq(Byte) : Len(src) \in Int
    BY MemoryAssumption
  <1>2. I32 \subseteq Int /\ I64 \subseteq Int
    BY Widths DEF I32, I64
  <1>3. Arg \subseteq I32 /\ CreateArg \subseteq I32
    BY MemoryAssumption
  <1>4. Long \subseteq I64 /\ GasCounter \subseteq 0..(Longs - 1)
    BY MemoryAssumption
  <1> QED BY <1>1, <1>2, <1>3, <1>4

\* get_block_hash.
LEMMA BlockHashConcludes ==
  ASSUME TypeOK, NEW n \in Int, NEW o \in Int, GetBlockHash(n, o)
  PROVE  Concludes
  <1>1. CASE Traps("block_hash")
    BY <1>1, RejectedConcludes DEF Plain, Modular
  <1>2. ASSUME NEW w \in Word \union {None}, NEW residue \in I32,
               Accepted("block_hash", <<n, o>>, w, <<AsI32(n)>>, residue),
               memory' = Write(o, BlockHash(AsI32(n), w)), UNCHANGED running
        PROVE  Concludes
    <2>1. BlockHash(AsI32(n), w) \in Seq(Byte)
      BY BlockHashWord, WordIsBytes
    <2>2. memory' \in Memory
      BY <1>2, <2>1, WriteKeepsBytes DEF TypeOK
    <2>3. residue \in I32 /\ residue \in I64
      BY IntsAreLongs
    <2> QED BY <1>2, <2>2, <2>3, AcceptedConcludes DEF Modular, TypeOK
  <1> QED BY <1>1, <1>2 DEF GetBlockHash, Checked

\* storage_load.
LEMMA StorageLoadConcludes ==
  ASSUME TypeOK, NEW key, NEW result \in Int, StorageLoad(key, result)
  PROVE  Concludes
  <1>1. AsU32(result) \in Int
    BY AsU32Range
  <1> QED BY <1>1, DoneConcludes, RejectedConcludes, WordIsBytes
          DEF StorageLoad, Checked, Plain, Modular

\* The four copies.
LEMMA CopyConcludes ==
  ASSUME TypeOK, NEW a, NEW o \in Int, NEW from \in Int, NEW length \in Int,
         \/ CallDataCopy(o, from, length) \/ ReturnDataCopy(o, from, length)
         \/ CodeCopy(o, from, length) \/ ExternalCodeCopy(a, o, from, length)
  PROVE  Concludes
  <1>1. \A op \in CopyOps : op \notin Plain /\ op # "return"
    BY DEF CopyOps, Plain, Modular
  <1>2. ASSUME NEW op \in CopyOps, Traps(op)
        PROVE  Concludes
    BY <1>1, <1>2, RejectedConcludes
  <1>3. ASSUME ValidData(o, length), from \in Nat, NEW src \in Source, NEW op \in CopyOps,
               NEW bytes \in Seq(Byte),
               Done(op, <<o, from, length>>, src, None, o, bytes)
        PROVE  Concludes
    BY <1>1, <1>3, DoneConcludes
  <1>4. ASSUME ValidData(o, length), from \in Nat, NEW src \in Source
        PROVE  /\ Available(src, from, length) \in Seq(Byte)
               /\ Buffer(src, from, length) \in Seq(Byte)
    <2>1. length \in Nat /\ src \in Seq(Byte)
      BY <1>4, ConstantsTyped DEF ValidData
    <2> QED BY <1>4, <2>1, AvailableBytes, BufferIsBytes
  <1>5. "code" \in CopyOps
    BY DEF CopyOps
  <1> QED BY <1>2, <1>3, <1>4, <1>5, CopyCases

\* create_contract.
LEMMA CreateConcludes ==
  ASSUME TypeOK, NEW v, NEW c, NEW m, NEW d, NEW l, NEW s, NEW isCreate2, NEW result \in Int,
         CreateContract(v, c, m, d, l, s, isCreate2, result)
  PROVE  Concludes
  <1>1. "create" \notin Plain /\ "create" # "return" /\ 1 \in {0, 1}
    BY DEF Plain, Modular
  <1> QED BY <1>1, DoneConcludes, RejectedConcludes, WordIsBytes DEF CreateContract, Checked

\* Every host function.
LEMMA HostCallConcludes ==
  ASSUME TypeOK, HostCall
  PROVE  Concludes
  <1> USE DEF Plain, Modular
  <1>1. CASE GetCallDataSize \/ GetCodeSize \/ GetReturnDataSize
    BY <1>1, UnwrittenConcludes, AsI32Range, ConstantsTyped
       DEF GetCallDataSize, GetCodeSize, GetReturnDataSize, Size
  <1>2. CASE GetBlockNumberField \/ GetGasLeft
    BY <1>2, WideConcludes, AsI64Range, ConstantsTyped DEF GetBlockNumberField, GetGasLeft
  <1>3. ASSUME NEW o \in Arg,
               GetAccountField(o) \/ GetBlockField(o) \/ GetFee(o) \/ GetTxGasPrice(o)
        PROVE  Concludes
    <2>1. o \in Int
      BY ConstantsTyped
    <2> QED BY <1>3, <2>1, DoneConcludes, RejectedConcludes, WordIsBytes
            DEF GetAccountField, GetBlockField, GetFee, GetTxGasPrice, Put, Checked
  <1>4. ASSUME NEW o \in Arg, GetExternalCodeSize(o)
        PROVE  Concludes
    <2>1. CASE Refuses("external_code_size", 0)
      BY <2>1, RejectedConcludes
    <2>2. ASSUME NEW code \in Source,
                 Accepted("external_code_size", <<o>>, code, Bytes(o, AddrSize),
                          AsI32(Len(code))),
                 UNCHANGED <<memory, running>>
          PROVE  Concludes
      <3>1. AsI32(Len(code)) \in I32 /\ AsI32(Len(code)) \in I64
        BY AsI32Range, IntsAreLongs, ConstantsTyped
      <3> QED BY <2>2, <3>1, AcceptedConcludes DEF TypeOK
    <2> QED BY <1>4, <2>1, <2>2 DEF GetExternalCodeSize, Checked
  <1>5. ASSUME NEW o \in Arg, SelfDestruct(o)
        PROVE  Concludes
    BY <1>5, UnwrittenConcludes, RejectedConcludes, SmallNumbers DEF SelfDestruct, Checked
  <1>6. ASSUME NEW o \in Arg, NEW p \in Arg, GetExternalBalance(o, p) \/ GetExternalCodeHash(o, p)
        PROVE  Concludes
    <2>1. p \in Int
      BY ConstantsTyped
    <2> QED BY <1>6, <2>1, DoneConcludes, RejectedConcludes, WordIsBytes
            DEF GetExternalBalance, GetExternalCodeHash, Lookup, Checked
  <1>7. ASSUME NEW o \in Arg, NEW p \in Arg,
               StorageStore(o, p) \/ Finish(o, p) \/ Revert(o, p)
        PROVE  Concludes
    BY <1>7, UnwrittenConcludes, RejectedConcludes, SmallNumbers
       DEF StorageStore, Finish, Revert, Exit, Checked
  <1>8. ASSUME NEW o \in Arg, NEW p \in Arg, StorageLoad(o, p)
        PROVE  Concludes
    BY <1>8, StorageLoadConcludes, ConstantsTyped
  <1>9. ASSUME NEW n \in Long, NEW o \in Arg, GetBlockHash(n, o)
        PROVE  Concludes
    BY <1>9, BlockHashConcludes, ConstantsTyped
  <1>10. ASSUME NEW a \in Arg, NEW o \in Arg, NEW p \in Arg, NEW l \in Arg,
                \/ CallDataCopy(o, p, l) \/ ReturnDataCopy(o, p, l)
                \/ CodeCopy(o, p, l) \/ ExternalCodeCopy(a, o, p, l)
         PROVE  Concludes
    BY <1>10, CopyConcludes, ConstantsTyped
  <1>11. ASSUME NEW o \in Arg, NEW p \in Arg, NEW l \in Arg,
                sha256(o, l, p) \/ keccak256(o, l, p)
         PROVE  Concludes
    <2>1. p \in Int
      BY ConstantsTyped
    <2> QED BY <1>11, <2>1, DoneConcludes, RejectedConcludes, WordIsBytes
            DEF sha256, keccak256, Hash, Checked
  <1>12. ASSUME NEW a \in Arg, NEW b \in Arg, NEW n \in Arg, NEW r \in Arg,
                AddMod(a, b, n, r) \/ MulMod(a, b, n, r) \/ ExpMod(a, b, n, r)
         PROVE  Concludes
    <2>1. a \in Int /\ b \in Int /\ n \in Int /\ r \in Int
      BY ConstantsTyped
    <2> QED BY <1>12, <2>1, ArithmeticConcludes DEF AddMod, MulMod, ExpMod
  <1>13. ASSUME NEW a \in Arg, NEW b \in Arg, NEW n \in Arg, NEW r \in Arg,
                \/ CallContract(a, b, n, r) \/ CallCode(a, b, n, r)
                \/ CallDelegate(a, n, r) \/ CallStatic(a, n, r)
         PROVE  Concludes
    BY <1>13, UnwrittenConcludes, RejectedConcludes, SmallNumbers
       DEF CallContract, CallCode, CallDelegate, CallStatic, CallWithValue, CallWithoutValue,
           Checked
  <1>14. ASSUME NEW o, NEW l, NEW n, NEW offsets, EmitLogEvent(o, l, n, offsets)
         PROVE  Concludes
    BY <1>14, UnwrittenConcludes, RejectedConcludes, SmallNumbers DEF EmitLogEvent, Checked
  <1>15. ASSUME NEW o, NEW l, NEW topics, EmitLog(o, l, topics)
         PROVE  Concludes
    BY <1>15, <1>14 DEF EmitLog
  <1>16. ASSUME NEW v, NEW c, NEW m, NEW d, NEW l, NEW s, NEW isCreate2, NEW r \in CreateArg,
                CreateContract(v, c, m, d, l, s, isCreate2, r)
         PROVE  Concludes
    BY <1>16, CreateConcludes, ConstantsTyped
  <1> QED BY <1>1, <1>2, <1>3, <1>4, <1>5, <1>6, <1>7, <1>8, <1>9, <1>10, <1>11, <1>12, <1>13,
             <1>14, <1>15, <1>16
          DEF HostCall

-----------------------------------------------------------------------------
(* What the guest's function returns. *)

\* The step property of IntegersReturnExact.
ReturnedExactly == ReturnsExactly({"i32", "i64"})

\* The caller's number has the type that it asked for, and is the guest's.
LEMMA ReturnConcludes ==
  ASSUME TypeOK, NEW type \in {"i32", "i64", "f32", "f64"}, NEW number,
         NEW bits \in 0..(Longs - 1),
         type \in {"i32", "f32"} => bits \in 0..(Ints - 1),
         type = "i32" => AsI32(bits) = number,
         type = "i64" => AsI64(bits) = number,
         Return(type, number, bits)
  PROVE  TypeOK' /\ ResidueLeft /\ ReturnedExactly
  <1>1. PICK rest \in 0..(Halves - 1) :
          Accepted("return", <<type>>, <<number>>, None, FromCell(type, Cell(type, bits, rest)))
    BY DEF Return, Halves
  <1> DEFINE answer == FromCell(type, Cell(type, bits, rest))
  <1>2. Cell(type, bits, rest) \in I64
    BY CellRange
  <1>3. Cell(type, bits, rest) \in Int
    BY <1>2, Widths DEF I64
  <1>4. ASSUME type = "i32"
        PROVE  answer = number
    <2>1. bits \in 0..(Ints - 1) /\ AsI32(bits) = number
      BY <1>4
    <2>2. AsU32(Cell(type, bits, rest)) = bits
      BY <1>4, <2>1, UpperHalfLost DEF Cell
    <2>3. AsU32(bits) = bits
      BY <2>1, SmallRemainder, Widths DEF AsU32
    <2>4. AsI32(Cell(type, bits, rest)) = AsI32(bits)
      BY <2>2, <2>3 DEF AsI32
    <2> QED BY <1>4, <2>1, <2>4 DEF FromCell
  <1>5. type = "i32" => answer \in I32
    BY <1>3, AsI32Range DEF FromCell
  <1>6. type # "i32" => answer \in I64
    BY <1>2 DEF FromCell
  <1>7. type = "i64" => answer = number
    BY DEF FromCell, Cell
  <1> HIDE DEF answer
  <1>8. /\ DOMAIN call' = DOMAIN NoCall /\ call'.op = "return" /\ call'.outcome = "ok"
        /\ call'.args = <<type>> /\ call'.given = <<number>> /\ call'.answer = answer
    BY <1>1 DEF Accepted, NoCall, answer
  <1>9. call'.args[1] = type /\ call'.given[1] = number
    BY <1>8
  <1>10. Wide(call') <=> type # "i32"
    BY <1>8, <1>9 DEF Wide
  <1>11. memory' \in Memory /\ running' \in BOOLEAN
    BY DEF Return, TypeOK
  <1>12. TypeOK'
    BY <1>5, <1>6, <1>8, <1>10, <1>11 DEF TypeOK, Outcome
  <1>13. ReturnedExactly
    BY <1>4, <1>7, <1>8, <1>9 DEF ReturnedExactly, ReturnsExactly
  <1> QED BY <1>8, <1>12, <1>13 DEF ResidueLeft, Modular

\* A host function is no return of the guest.
LEMMA ConcludesReturns == ASSUME Concludes PROVE ReturnedExactly
  BY DEF Concludes, ReturnedExactly, ReturnsExactly

\* Every return, by the type of the guest's function.
LEMMA ReturnsConclude ==
  ASSUME TypeOK, ReturnNothing \/ ReturnInteger \/ ReturnFloat
  PROVE  TypeOK' /\ ResidueLeft /\ ReturnedExactly
  <1>1. CASE ReturnNothing
    <2>1. "return_nothing" \notin Plain
      BY DEF Plain, Modular
    <2>2. Concludes
      BY <1>1, <2>1, UnwrittenConcludes, SmallNumbers DEF ReturnNothing
    <2> QED BY <2>2, ConcludesReturns DEF Concludes
  <1>2. ASSUME NEW n \in Arg, Return("i32", n, AsU32(n))
        PROVE  TypeOK' /\ ResidueLeft /\ ReturnedExactly
    <2>1. n \in I32
      BY MemoryAssumption
    <2>2. AsU32(n) \in 0..(Ints - 1) /\ AsI32(n) = n
      BY <2>1, IntRoundTrip
    <2>3. AsU32(AsU32(n)) = AsU32(n)
      BY <2>2, SmallRemainder, Widths DEF AsU32
    <2>4. AsI32(AsU32(n)) = n
      BY <2>2, <2>3 DEF AsI32
    <2>5. AsU32(n) \in 0..(Longs - 1)
      <3>1. \A x, y \in Nat \ {0} : x <= x * y
        OBVIOUS
      <3> QED BY <2>2, <3>1, Widths
    <2> QED BY <1>2, <2>2, <2>4, <2>5, ReturnConcludes
  <1>3. ASSUME NEW n \in Long, Return("i64", n, n % Longs)
        PROVE  TypeOK' /\ ResidueLeft /\ ReturnedExactly
    <2>1. n \in I64
      BY ConstantsTyped
    <2>2. n % Longs \in 0..(Longs - 1) /\ AsI64(n % Longs) = n
      BY <2>1, LongRoundTrip
    <2> QED BY <1>3, <2>2, ReturnConcludes
  <1>4. ASSUME NEW type \in {"f32", "f64"}, NEW n \in DOMAIN FloatBits,
               Return(type, n, FloatBits[n])
        PROVE  TypeOK' /\ ResidueLeft /\ ReturnedExactly
    <2>1. FloatBits[n] \in 0..(Ints - 1)
      BY MemoryAssumption
    <2>2. FloatBits[n] \in 0..(Longs - 1)
      <3>1. \A x, y \in Nat \ {0} : x <= x * y
        OBVIOUS
      <3> QED BY <2>1, <3>1, Widths
    <2> QED BY <1>4, <2>1, <2>2, ReturnConcludes
  <1> QED BY <1>1, <1>2, <1>3, <1>4 DEF ReturnInteger, ReturnFloat

-----------------------------------------------------------------------------

\* Every step keeps the types, leaves residues and returns integers exactly.
LEMMA StepConcludes ==
  ASSUME TypeOK, Next
  PROVE  TypeOK' /\ ResidueLeft /\ ReturnedExactly
  <1> USE ConcludesReturns DEF Concludes
  <1>1. CASE HostCall
    BY <1>1, HostCallConcludes
  <1>2. CASE ReturnNothing \/ ReturnInteger \/ ReturnFloat
    BY <1>2, ReturnsConclude
  <1>3. CASE GoOn
    BY <1>3, NothingRejected DEF GoOn, TypeOK
  <1>4. ASSUME NEW a \in DOMAIN memory, NEW b \in GuestByte, GuestStore(a, b)
        PROVE  TypeOK' /\ ResidueLeft /\ ReturnedExactly
    <2>1. b \in Byte
      BY MemoryAssumption
    <2>2. memory' \in Memory /\ running' \in BOOLEAN /\ call' = NoCall
      BY <1>4, <2>1 DEF GuestStore, Ready, TypeOK, Memory
    <2> QED BY <2>2, NothingRejected
  <1>5. CASE Restart
    <2>1. memory' \in Memory /\ running' \in BOOLEAN /\ call' = NoCall
      BY <1>5, BytesAreNatural DEF Restart, TypeOK, Memory, Byte
    <2> QED BY <2>1, NothingRejected
  <1> QED BY <1>1, <1>2, <1>3, <1>4, <1>5 DEF Next

\* Memory keeps its size and holds bytes, answers fit the type that the caller
\* reads, and a rejected call has taken nothing.
THEOREM TypeCorrect == Spec => []TypeOK
  <1>1. Init => TypeOK
    BY SmallNumbers, BytesAreNatural
       DEF Init, TypeOK, Memory, Byte, NoCall, Wide, Outcome
  <1>2. TypeOK /\ [Next]_vars => TypeOK'
    <2>1. TypeOK /\ UNCHANGED vars => TypeOK'
      BY DEF TypeOK, vars, Wide, Memory
    <2> QED BY <2>1, StepConcludes
  <1> QED BY <1>1, <1>2, PTL DEF Spec

\* addmod, mulmod and expmod leave the exact residue of the operands as they
\* were, wherever the result overlaps them (math.rs:36-49).
THEOREM ResiduesExact == Spec => ArithmeticExact
  <1>1. TypeOK /\ Next =>
          (call'.op \in {"addmod", "mulmod", "expmod"} /\ call'.outcome = "ok" =>
             LET Number(i) == FromBytes(Operand(call'.args[i]))
                 result == [i \in 1..WordSize |-> memory'[call'.args[4] + i - 1]]
             IN IsResidue(FromBytes(result),
                          Exact(call'.op, Number(1), Number(2)), Number(3)))
    BY StepConcludes DEF ResidueLeft, Modular
  <1> QED BY <1>1, TypeCorrect, PTL DEF Spec, ArithmeticExact

\* The caller of a guest's function gets the integer that the function returns,
\* whatever the upper half of the cell holds (instance.rs:203-246).
THEOREM ReturnsExact == Spec => IntegersReturnExact
  <1>1. TypeOK /\ Next => ReturnsExactly({"i32", "i64"})
    BY StepConcludes DEF ReturnedExactly
  <1> QED BY <1>1, TypeCorrect, PTL DEF Spec, IntegersReturnExact

=============================================================================
