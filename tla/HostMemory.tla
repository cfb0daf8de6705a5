----------------------------- MODULE HostMemory -----------------------------
(***************************************************************************)
(* The boundary between a guest and the host: the host functions of        *)
(* src/src/evm/host_functions with their offsets into linear memory,       *)
(* through the checks of src/src/evm/utils.rs, and with their answers, as  *)
(* the bridge of evm_example offers them.                                  *)
(*                                                                         *)
(* What the host knows (the EvmHost trait) is an input: an address, a word *)
(* or a byte string it gives.  What it is given is recorded in the call.   *)
(* ContractCalls models what the host then does with it.  The engine's     *)
(* check of an address range is external: it accepts what lies in memory.  *)
(***************************************************************************)
EXTENDS EvmWords

CONSTANTS
  MemSize,      \* bytes of linear memory
  IntBits,      \* width of the guest's i32
  LongBits,     \* width of its i64
  AddrSize,     \* bytes of an address: 20 in the code
  MaxBuffer,    \* MAX_BUFFER_SIZE
  MaxTopics,    \* topics of an event: 4 in the code
  Arg,          \* offsets and lengths a guest passes
  CreateArg,    \* those it passes to create_contract
  Source,       \* byte strings the host holds: call data, code, return data
  CurrentBlock, \* the block the transaction runs in
  Long,         \* i64s: block numbers, timestamps, gas limits
  GasCounter,   \* u64s: values of the engine's gas counter
  FloatBits,    \* the bit patterns of some numbers as floats
  GuestByte     \* bytes a guest stores by itself

\* How many i32s there are, and i64s, and how many of them are not negative.
Ints == Power(2, IntBits)
PositiveInts == Power(2, IntBits - 1)
Longs == Power(2, LongBits)
PositiveLongs == Power(2, LongBits - 1)

I32 == (-PositiveInts)..(PositiveInts - 1)
I64 == (-PositiveLongs)..(PositiveLongs - 1)

ASSUME MemoryAssumption ==
  /\ {MemSize, IntBits, LongBits, AddrSize, MaxBuffer, MaxTopics} \subseteq Nat
  /\ IntBits > 1 /\ MemSize <= Ints /\ MaxBuffer < PositiveInts
  /\ Arg \union CreateArg \subseteq I32
  /\ Source \subseteq Seq(Byte) /\ GuestByte \subseteq Byte
  /\ LongBits >= IntBits /\ CurrentBlock \in Nat
  /\ Long \subseteq I64
  /\ GasCounter \subseteq 0..(Longs - 1)
  /\ FloatBits \in [DOMAIN FloatBits -> 0..(Ints - 1)]

VARIABLES
  memory,   \* the guest's linear memory
  running,  \* the guest has neither ended nor trapped
  call      \* the last host call, until the guest goes on

vars == <<memory, running, call>>

Memory == [0..(MemSize - 1) -> Byte]
Address == [1..AddrSize -> Byte]
Zeros(n) == [i \in 1..n |-> 0]

\* op, its arguments, and what became of it; what the host gave and got.
None == <<>>
NoCall == [op |-> "none", args |-> None, outcome |-> "none",
           given |-> None, got |-> None, answer |-> 0]

-----------------------------------------------------------------------------
(* Memory access (src/src/evm/utils.rs). *)

\* `as u32', the i32 of the low bits of a wider number, and `as i64' of a u64.
AsU32(x) == x % Ints
AsI32(x) == IF AsU32(x) < PositiveInts THEN AsU32(x) ELSE AsU32(x) - Ints
AsI64(x) == IF x < PositiveLongs THEN x ELSE x - Longs

ValidRange(offset, length) == offset + length <= MemSize

Valid(offset, size) == offset >= 0 /\ ValidRange(offset, size)

ValidData(offset, length) ==
  offset >= 0 /\ length >= 0 /\ length <= MaxBuffer /\ ValidRange(offset, length)

Bytes(offset, length) == [i \in 1..length |-> memory[offset + i - 1]]

Write(offset, bytes) ==
  [a \in DOMAIN memory |-> IF a \in offset..(offset + Len(bytes) - 1)
                           THEN bytes[a - offset + 1] ELSE memory[a]]

-----------------------------------------------------------------------------
(* How a host call ends. *)

Ready == running /\ call = NoCall

Accepted(op, args, given, got, answer) ==
  call' = [op |-> op, args |-> args, outcome |-> "ok",
           given |-> given, got |-> got, answer |-> answer]

\* The function returns Ok with `bytes' written at `offset'; the guest goes on.
Done(op, args, given, got, offset, bytes) ==
  /\ Accepted(op, args, given, got, 0)
  /\ memory' = Write(offset, bytes)
  /\ UNCHANGED running

\* The function returns Ok and has only taken `got' from memory.
Taken(op, args, got) == Done(op, args, None, got, 0, <<>>)

\* The instance exits.
Exits(op, args, got) ==
  /\ Accepted(op, args, None, got, 0)
  /\ running' = FALSE
  /\ UNCHANGED memory

\* The function returns Err: the bridge raises exception 9.
Traps(op) ==
  /\ call' = [NoCall EXCEPT !.op = op, !.outcome = "rejected"]
  /\ running' = FALSE
  /\ UNCHANGED memory

\* The function returns Err: the bridge answers and lets the guest go on.
Refuses(op, answer) ==
  /\ call' = [NoCall EXCEPT !.op = op, !.outcome = "rejected", !.answer = answer]
  /\ UNCHANGED <<memory, running>>

\* The checks of a host function and what follows them.
Checked(valid, Accept, Reject) ==
  \/ valid /\ Accept
  \/ ~valid /\ Reject

-----------------------------------------------------------------------------
(* Answers without a result in memory. *)

Answers(op, answer) ==
  /\ Accepted(op, None, None, None, answer)
  /\ UNCHANGED <<memory, running>>

\* The length of what the host holds, a usize, as an i32.
Size(op) == \E src \in Source : Answers(op, AsI32(Len(src)))

GetCallDataSize == Size("call_data_size")
GetCodeSize == Size("code_size")
GetReturnDataSize == Size("return_data_size")

\* The number, the timestamp or the gas limit of the block.
GetBlockNumberField == \E n \in Long : Answers("number", n)

GetGasLeft == \E g \in GasCounter : Answers("gas_left", AsI64(g))

-----------------------------------------------------------------------------
(* Values of the environment: an address or a word at the result offset. *)

Put(op, offset, value) ==
  Checked(Valid(offset, Len(value)),
          Done(op, <<offset>>, value, None, offset, value), Traps(op))

GetAccountField(offset) == \E v \in Address \union Word : Put("account", offset, v)
GetBlockField(offset) == \E v \in Address \union Word : Put("block", offset, v)
GetFee(offset) == \E w \in Word : Put("fee", offset, w)
GetTxGasPrice(offset) == \E w \in Word : Put("gas_price", offset, w)

\* A word about the account whose address is in memory.
Lookup(op, addr, offset) ==
  Checked(Valid(addr, AddrSize) /\ Valid(offset, WordSize),
          \E w \in Word : Done(op, <<addr, offset>>, w, Bytes(addr, AddrSize), offset, w),
          Traps(op))

GetExternalBalance(addr, offset) == Lookup("balance", addr, offset)
GetExternalCodeHash(addr, offset) == Lookup("code_hash", addr, offset)

\* An address that does not validate answers like an account without code.
GetExternalCodeSize(addr) ==
  Checked(Valid(addr, AddrSize),
          /\ \E code \in Source :
               Accepted("external_code_size", <<addr>>, code, Bytes(addr, AddrSize),
                        AsI32(Len(code)))
          /\ UNCHANGED <<memory, running>>,
          Refuses("external_code_size", 0))

\* The hash the host has for block n, or zeros.
BlockHash(n, w) ==
  IF n < 0 \/ n >= CurrentBlock \/ w = None THEN Zeros(WordSize) ELSE w

\* The bridge takes an i32 where the descriptor has an i64, and returns nothing
\* where the descriptor has an i32: the number loses its upper half and the
\* answer is whatever the return register held, any i32.
GetBlockHash(number, offset) ==
  Checked(Valid(offset, WordSize),
          \E w \in Word \union {None}, residue \in I32 :
            /\ Accepted("block_hash", <<number, offset>>, w, <<AsI32(number)>>, residue)
            /\ memory' = Write(offset, BlockHash(AsI32(number), w))
            /\ UNCHANGED running,
          Traps("block_hash"))

-----------------------------------------------------------------------------
(* Copies of what the host holds. *)

\* The bytes of src from `from', as many as there are up to `length'.
Available(src, from, length) ==
  LET rest == IF from < Len(src) THEN Len(src) - from ELSE 0
      n == IF rest < length THEN rest ELSE length
  IN SubSeq(src, from + 1, from + n)

\* A buffer of `length' zeros with the available bytes in front.
Buffer(src, from, length) ==
  LET bytes == Available(src, from, length) IN bytes \o Zeros(length - Len(bytes))

Copy(op, valid, offset, from, length, Filled(_, _, _)) ==
  Checked(valid /\ ValidData(offset, length) /\ from >= 0,
          \E src \in Source :
            Done(op, <<offset, from, length>>, src, None, offset, Filled(src, from, length)),
          Traps(op))

CallDataCopy(offset, from, length) == Copy("call_data", TRUE, offset, from, length, Buffer)

\* A variant that writes what there is.
ReturnDataCopyShort(offset, from, length) ==
  Copy("return_data", TRUE, offset, from, length, Available)

ReturnDataCopy(offset, from, length) == Copy("return_data", TRUE, offset, from, length, Buffer)

\* Only the bytes copied from the code are written.
CodeCopy(offset, from, length) == Copy("code", TRUE, offset, from, length, Available)

\* An account without code gives zeros, as one whose code is empty.
ExternalCodeCopy(addr, offset, from, length) ==
  Copy("external_code", Valid(addr, AddrSize), offset, from, length, Buffer)

-----------------------------------------------------------------------------
(* Hashes and modular arithmetic: operands and result in guest memory. *)

Hash(op, offset, length, result) ==
  Checked(ValidData(offset, length) /\ Valid(result, WordSize),
          \E w \in Word :
            Done(op, <<offset, length, result>>, w, Bytes(offset, length), result, w),
          Traps(op))

sha256(offset, length, result) == Hash("sha256", offset, length, result)
keccak256(offset, length, result) == Hash("keccak256", offset, length, result)

\* The result is computed from the operands as they are before it is written.
Arithmetic(op, a, b, n, result, value) ==
  Checked(\A o \in {a, b, n, result} : Valid(o, WordSize),
          Done(op, <<a, b, n, result>>, None, None, result, value), Traps(op))

Operand(offset) == Bytes(offset, WordSize)

AddMod(a, b, n, result) ==
  Arithmetic("addmod", a, b, n, result, addmod(Operand(a), Operand(b), Operand(n)))
MulMod(a, b, n, result) ==
  Arithmetic("mulmod", a, b, n, result, mulmod(Operand(a), Operand(b), Operand(n)))
ExpMod(a, b, n, result) ==
  Arithmetic("expmod", a, b, n, result, expmod(Operand(a), Operand(b), Operand(n)))

-----------------------------------------------------------------------------
(* Storage: offsets are cast to u32, so that the upper half is in reach. *)

ValidWord(offset) == ValidRange(AsU32(offset), WordSize)
WordAt(offset) == Bytes(AsU32(offset), WordSize)

StorageStore(key, value) ==
  Checked(ValidWord(key) /\ ValidWord(value),
          Taken("store", <<key, value>>, <<WordAt(key), WordAt(value)>>),
          Traps("store"))

\* A variant that loses the sign bit of the result offset.
StorageLoadMasked(key, result) ==
  Checked(ValidWord(key) /\ ValidWord(result),
          \E w \in Word : Done("load", <<key, result>>, w, WordAt(key),
                               AsU32(result) % PositiveInts, w),
          Traps("load"))

\* A variant that checks the end of the result modulo the width of an offset.
StorageLoadWrapped(key, result) ==
  Checked(ValidWord(key) /\ (AsU32(result) + WordSize) % Ints <= MemSize,
          \E w \in Word : Done("load", <<key, result>>, w, WordAt(key), AsU32(result), w),
          Traps("load"))

\* The host answers before the result offset is checked, which changes nothing.
StorageLoad(key, result) ==
  Checked(ValidWord(key) /\ ValidWord(result),
          \E w \in Word : Done("load", <<key, result>>, w, WordAt(key), AsU32(result), w),
          Traps("load"))

-----------------------------------------------------------------------------
(* Data handed to the host. *)

\* A topic at offset 0 is the zero word.
TopicValid(offset) == offset = 0 \/ Valid(offset, WordSize)
Topic(offset) == IF offset = 0 THEN Zeros(WordSize) ELSE Bytes(offset, WordSize)

EmitLogEvent(offset, length, topics, offsets) ==
  Checked(/\ topics \in 0..MaxTopics /\ ValidData(offset, length)
          /\ \A i \in 1..topics : TopicValid(offsets[i]),
          Taken("log", <<offset, length, topics, offsets>>,
                <<Bytes(offset, length), [i \in 1..topics |-> Topic(offsets[i])]>>),
          Traps("log"))

\* emit_log0 to emit_log4: as many topics as the name says, the others at 0.
EmitLog(offset, length, topics) ==
  EmitLogEvent(offset, length, Len(topics),
               [i \in 1..MaxTopics |-> IF i <= Len(topics) THEN topics[i] ELSE 0])

Exit(op, offset, length) ==
  Checked(ValidData(offset, length),
          Exits(op, <<offset, length>>, Bytes(offset, length)), Traps(op))

Finish(offset, length) == Exit("finish", offset, length)
Revert(offset, length) == Exit("revert", offset, length)

SelfDestruct(addr) ==
  Checked(Valid(addr, AddrSize),
          Exits("destruct", <<addr>>, Bytes(addr, AddrSize)), Traps("destruct"))

\* The four calls: CALL and CALLCODE pass a value, the others do not.
CallWithValue(op, addr, value, offset, length) ==
  Checked(Valid(addr, AddrSize) /\ Valid(value, WordSize) /\ ValidData(offset, length),
          Taken(op, <<addr, value, offset, length>>,
                <<Bytes(addr, AddrSize), Bytes(value, WordSize), Bytes(offset, length)>>),
          Refuses(op, 1))

CallWithoutValue(op, addr, offset, length) ==
  Checked(Valid(addr, AddrSize) /\ ValidData(offset, length),
          Taken(op, <<addr, offset, length>>,
                <<Bytes(addr, AddrSize), Bytes(offset, length)>>),
          Refuses(op, 1))

CallContract(addr, value, offset, length) == CallWithValue("call", addr, value, offset, length)

CallCode(addr, value, offset, length) == CallWithValue("callcode", addr, value, offset, length)

CallDelegate(addr, offset, length) == CallWithoutValue("delegate", addr, offset, length)

CallStatic(addr, offset, length) == CallWithoutValue("static", addr, offset, length)

\* The new address, or zeros after a failed creation; the salt is read for
\* CREATE2 only.
CreateContract(value, code, codeLength, data, dataLength, salt, isCreate2, result) ==
  Checked(/\ Valid(value, WordSize)
          /\ ValidData(code, codeLength) /\ ValidData(data, dataLength)
          /\ isCreate2 => Valid(salt, WordSize)
          /\ Valid(result, AddrSize),
          \E a \in Address :
            Done("create", <<result>>, a,
                 <<Bytes(value, WordSize), Bytes(code, codeLength), Bytes(data, dataLength),
                   IF isCreate2 THEN Bytes(salt, WordSize) ELSE None>>, result, a),
          Refuses("create", 1))

-----------------------------------------------------------------------------
(* The guest's function returns, and call_wasm_func converts its result. *)

\* The engine writes the member of the cell's union that has the type.  One of
\* 32 bits leaves the upper half of the allocated cell as it was: anything.
Cell(type, bits, rest) ==
  AsI64(IF type \in {"i32", "f32"} THEN rest * Ints + bits ELSE bits)

\* A variant that takes the cell as it is.
FromCellWhole(type, cell) == cell

\* A variant that converts to the nearest i32.
FromCellSaturated(type, cell) ==
  CASE type # "i32"           -> cell
    [] cell > PositiveInts - 1 -> PositiveInts - 1
    [] cell < -PositiveInts    -> -PositiveInts
    [] OTHER                   -> cell

\* The cell is read as an i64 and converted as a number, by `as i32', `as f32'
\* and `as f64', to the number that the caller gets.  Rounding is left out.
FromCell(type, cell) == IF type = "i32" THEN AsI32(cell) ELSE cell

Return(type, number, bits) ==
  /\ \E rest \in 0..(Power(2, LongBits - IntBits) - 1) :
       Accepted("return", <<type>>, <<number>>, None, FromCell(type, Cell(type, bits, rest)))
  /\ running' = FALSE
  /\ UNCHANGED memory

ReturnNothing == Exits("return_nothing", None, None)

ReturnInteger ==
  \/ \E n \in Arg : Return("i32", n, AsU32(n))
  \/ \E n \in Long : Return("i64", n, n % Longs)

ReturnFloat == \E type \in {"f32", "f64"}, n \in DOMAIN FloatBits : Return(type, n, FloatBits[n])

-----------------------------------------------------------------------------
(* The guest: it goes on after a host call, and stores by itself. *)

GoOn == running /\ call # NoCall /\ call' = NoCall /\ UNCHANGED <<memory, running>>

GuestStore(a, b) == Ready /\ memory' = [memory EXCEPT ![a] = b] /\ UNCHANGED <<running, call>>

\* A new instance after one that ended.
Restart ==
  /\ ~running
  /\ memory' = [a \in DOMAIN memory |-> 0] /\ running' = TRUE /\ call' = NoCall

Init ==
  /\ memory = [a \in 0..(MemSize - 1) |-> 0]
  /\ running = TRUE
  /\ call = NoCall

HostCall ==
  \/ GetCallDataSize \/ GetCodeSize \/ GetReturnDataSize \/ GetBlockNumberField \/ GetGasLeft
  \/ \E o \in Arg : \/ GetAccountField(o) \/ GetBlockField(o) \/ GetFee(o) \/ GetTxGasPrice(o)
                    \/ GetExternalCodeSize(o) \/ SelfDestruct(o)
  \/ \E o, p \in Arg : \/ GetExternalBalance(o, p) \/ GetExternalCodeHash(o, p)
                       \/ StorageStore(o, p) \/ StorageLoad(o, p)
                       \/ Finish(o, p) \/ Revert(o, p)
  \/ \E n \in Long, o \in Arg : GetBlockHash(n, o)
  \/ \E o, p, l \in Arg : \/ CallDataCopy(o, p, l) \/ ReturnDataCopy(o, p, l) \/ CodeCopy(o, p, l)
                          \/ sha256(o, l, p) \/ keccak256(o, l, p)
                          \/ CallDelegate(p, o, l) \/ CallStatic(p, o, l)
  \/ \E a, b, n, r \in Arg : \/ AddMod(a, b, n, r) \/ MulMod(a, b, n, r) \/ ExpMod(a, b, n, r)
                             \/ ExternalCodeCopy(a, b, n, r)
                             \/ CallContract(a, b, n, r) \/ CallCode(a, b, n, r)
  \/ \E o, l \in Arg, n \in (-1)..(MaxTopics + 1) :
        \E offsets \in [1..MaxTopics -> Arg] : EmitLogEvent(o, l, n, offsets)
  \/ \E o, l \in Arg, n \in 0..MaxTopics : \E topics \in [1..n -> Arg] : EmitLog(o, l, topics)
  \/ \E v, c, m, d, l, s, r \in CreateArg, isCreate2 \in BOOLEAN :
        CreateContract(v, c, m, d, l, s, isCreate2, r)

Next ==
  \/ Ready /\ HostCall
  \/ Ready /\ (ReturnNothing \/ ReturnInteger \/ ReturnFloat)
  \/ GoOn
  \/ \E a \in DOMAIN memory, b \in GuestByte : GuestStore(a, b)
  \/ Restart

Spec == Init /\ [][Next]_vars

-----------------------------------------------------------------------------
(* Safety. *)

Outcome == {"none", "ok", "rejected"}

\* Answers of 64 bits.
Wide(c) == c.op \in {"number", "gas_left"} \/ (c.op = "return" /\ c.args # <<"i32">>)

\* Memory keeps its size and holds bytes; a call is recorded while its answer
\* is on the way, which fits the type that the caller reads, and a rejected one
\* has taken nothing from the guest.
TypeOK ==
  /\ memory \in Memory
  /\ running \in BOOLEAN
  /\ DOMAIN call = DOMAIN NoCall
  /\ call.outcome \in Outcome
  /\ call.answer \in IF Wide(call) THEN I64 ELSE I32
  /\ call.outcome = "rejected" => call.args = None /\ call.given = None /\ call.got = None

\* What the documentation of each host function calls its result: the offset
\* and the length of the only bytes it may write.
CopyOps == {"call_data", "return_data", "external_code", "code"}

ResultRange(c) ==
  CASE c.op \in {"account", "block", "fee", "gas_price", "create"} -> <<c.args[1], Len(c.given)>>
    [] c.op \in {"balance", "code_hash", "block_hash"} -> <<c.args[2], WordSize>>
    [] c.op \in CopyOps -> <<c.args[1], c.args[3]>>
    [] c.op \in {"sha256", "keccak256"} -> <<c.args[3], WordSize>>
    [] c.op \in {"addmod", "mulmod", "expmod"} -> <<c.args[4], WordSize>>
    [] c.op = "load" -> <<AsU32(c.args[2]), WordSize>>
    [] OTHER -> <<0, 0>>

ChangesResultOnly ==
  LET r == ResultRange(call')
      result == r[1]..(r[1] + r[2] - 1)
  IN /\ result \subseteq DOMAIN memory
     /\ \A a \in DOMAIN memory : memory'[a] # memory[a] => a \in result

\* A host call that is accepted has its whole result in guest memory and changes
\* no byte outside it; one whose checks fail, be it the last of several, changes
\* none (utils.rs:59-87, utils.rs:272, log.rs:44-75, contract.rs:268-278).
WritesStayInResult ==
  [][IF call'.outcome = "rejected" THEN memory' = memory
     ELSE call' # NoCall => ChangesResultOnly]_vars

\* Byte i of a copy is byte from + i of the source, or zero behind its end.
ZeroFilled(c, i) ==
  LET k == c.args[2] + i IN IF k < Len(c.given) THEN c.given[k + 1] ELSE 0

ZeroFills(ops) ==
  call'.op \in ops /\ call'.outcome = "ok" =>
    \A i \in 0..(call'.args[3] - 1) : memory'[call'.args[1] + i] = ZeroFilled(call', i)

\* A copy of call data, return data or external code fills the whole length
\* asked for, with zeros behind the end of the source, whatever the offset
\* into it (transaction.rs:35-36, control.rs:185-206, code.rs:225-245).
CopiesZeroFill == [][ZeroFills({"call_data", "return_data", "external_code"})]_vars

\* The residue of v modulo n by its definition: 0 for n = 0, and otherwise the
\* r below n that differs from v by a multiple of n.
IsResidue(r, v, n) ==
  IF n = 0 THEN r = 0 ELSE r \in 0..(n - 1) /\ v - r = n * ((v - r) \div n)

\* 0 to the power of 0 is 1 (traits.rs:360).
Exact(op, a, b) ==
  CASE op = "addmod" -> a + b
    [] op = "mulmod" -> a * b
    [] op = "expmod" -> Power(a, b)

\* addmod, mulmod and expmod leave the exact residue of the sum, product or
\* power, which may need more than a word, of the operands as they were before
\* the call, also where the result overlaps them (math.rs:36-49,
\* traits.rs:312-371).
ArithmeticExact ==
  [][call'.op \in {"addmod", "mulmod", "expmod"} /\ call'.outcome = "ok" =>
       LET Number(i) == FromBytes(Operand(call'.args[i]))
           result == [i \in 1..WordSize |-> memory'[call'.args[4] + i - 1]]
       IN IsResidue(FromBytes(result),
                    Exact(call'.op, Number(1), Number(2)), Number(3))]_vars

-----------------------------------------------------------------------------
(* Results of the guest. *)

ReturnsExactly(types) ==
  call'.op = "return" /\ call'.args[1] \in types => call'.answer = call'.given[1]

\* An integer that the guest's function returns is the one that call_wasm_func
\* gives its caller, whatever the half of the cell that the engine leaves
\* unwritten holds (instance.rs:203-246).
IntegersReturnExact == [][ReturnsExactly({"i32", "i64"})]_vars

-----------------------------------------------------------------------------
(* What the documentation says and the code does not do. *)

\* The cell is a "union of i32/i64/f32/f64" (extern.rs:55), so that a float the
\* guest returns is the one its caller gets.
FloatsReturnExact == [][ReturnsExactly({"f32", "f64"})]_vars

\* "Fill remaining buffer with zeros if needed" (code.rs:87): code_copy fills
\* the length asked for, as the other copies do.
CodeCopyZeroFills == [][ZeroFills({"code"})]_vars

=============================================================================
