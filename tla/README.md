# Models of dtvm-rust

dtvm-rust lets a Rust host run EVM contracts that were compiled to WASM. A C++
engine compiles and executes the WASM; the Rust code owns the engine's objects,
offers the guest the EVM's host functions, and, in `evm_example`, implements the
host behind them: a context with storage, events and a contract registry, and an
executor that runs contracts, also those that contracts call. This directory
holds TLA+ models of that code, the TLC runs that check them and the proofs
that TLAPS checks.

Paths: `src/src/` is the library crate, `src/evm_example/src/` the host.

## The system

| Component | State | Operations | Works with |
|---|---|---|---|
| **Nested contract execution**: `mock_context.rs`, `contract_executor.rs`, `host_functions/{contract,control,storage,log}.rs`, `mock_evm_bridge.rs` | per context: address, caller, value, code. Shared through `Rc` by all clones of a context: storage, events, return data, execution status, registry | top-level calls and deployments; store, log, finish, revert, invalid, self-destruct; CALL, CALLCODE, DELEGATECALL, STATICCALL; CREATE, CREATE2 | the engine runs the guest and calls the bridge, which calls the host function, which calls the context, which makes an executor, which makes a new runtime and runs the callee |
| **Memory boundary**: `evm/utils.rs`, all of `evm/host_functions` | the guest's linear memory | every host function: check, read operands, ask the `EvmHost`, write the result or answer | bridge above, `EvmHost` below |
| **256-bit arithmetic**: defaults of `evm/traits.rs` | none | `addmod`, `mulmod`, `expmod` | called by `host_functions/math.rs` |
| **Owners of engine objects**: `core/{runtime,host_module,isolation,instance}.rs` | six kinds of wrappers in `Rc`s, each with a raw pointer and `Rc`s of others; a runtime's lists of descs and host modules | create, load, merge, clone, move, drop | the engine's C interface (`core/extern.rs`) |
| **Executors' use of the engine**: `contract_executor.rs`, `execute_contract_*` of `mock_context.rs` | the locals of each function on the native stack: a runtime, a host module, a module, an isolation, an instance | build an executor, load, isolate, instantiate, run, give up on a `?`, drop | the owners below; guests that call again above |
| **Calling a guest**: `core/{instance,types,utils}.rs` | none | marshal arguments, call, read the exception or the result | executor, engine |
| **Errors**: `evm/error.rs` | none | constructors, wording | bridge: only `Ok` or `Err` matters |
| **Context building**: builders in `mock_context.rs` | a context under construction | fluent setters | harness |
| **Engine** (external) | | compile, meter, run, trap | |

### What is hard here

* Nothing runs in parallel, but everything is **re-entrant**: a host function of
  a running guest runs another guest to its end, over cells the first one will
  read afterwards. There is one execution status and one return-data cell for
  the whole tree of calls, and the executor of each level reads them after the
  levels below have written them any number of times.
* **Failure in the middle**: a guest can revert, trap, run out of gas or be
  refused by the engine at each level, in a call or a constructor, and a host
  function can panic.
* **Offsets and lengths come from the guest** as i32: signs, sums, the end of
  memory, and casts to u32 that differ from function to function.
* **Ownership across the FFI**: which `Rc` goes last is up to the user, and it
  decides in which order the engine is asked to delete objects that use each
  other. Each nested call adds a runtime and five objects to that, while guests
  further down the native stack are still running on theirs.

`PROJECT.json` lists the hazards line by line, with the properties aimed at each.

### What makes each component correct

* Execution: the executor and a calling guest hear of a callee what that callee
  itself decided, at any depth. Only a successful creation registers. Delegated
  code acts for its caller's account, also when it creates. Each top-level call ends.
* Memory: the result of a host function lies in memory, and nothing else changes;
  one that fails late changes nothing. Copies fill what they were asked to fill. Arithmetic is exact, also
  when the result overlaps operands.
* Executors: each guest on the native stack keeps what it runs on, the host
  module its executor dropped included; a call that ends, or is refused half way,
  leaves nothing it created for itself.
* Owners: no object is deleted while an `Rc` refers to its wrapper or the engine
  uses it through another object; none is left once no `Rc` refers to it; a drop
  ends.

## Modules

| Module | Models | Extends or instantiates |
|---|---|---|
| `Numerals` | powers, numbers by their digits | |
| `ContractCalls` | nested contract execution over the shared cells | `Numerals` |
| `CallProtocol` | what it promises: every guest owns its outcome | |
| `ContractCallsRefinement` | the mapping between them | `ContractCalls`, `CallProtocol` |
| `ContractCallsProofs` | theorems | `ContractCalls`, `SequenceLemmas`, `Induction` |
| `ContractCallsRefinementProofs` | the refinement as a theorem | `ContractCallsRefinement`, `ContractCallsProofs` |
| `EvmWords` | words and modular arithmetic | `Numerals` |
| `EvmWordsProofs` | theorems | `EvmWords`, `Induction` |
| `HostMemory` | every host function at the memory boundary, and the guest's result | `EvmWords` |
| `HostMemoryProofs` | theorems | `HostMemory`, `EvmWordsProofs` |
| `ZenRuntime` | wrappers, their `Rc`s, drops | `EngineHandles` |
| `EngineHandles` | what the engine asks of creations and deletions | |
| `ZenRuntimeProofs` | theorems | `ZenRuntime` |
| `Executors` | executors and nested calls as users of `ZenRuntime` | `ZenRuntime` |
| `ExecutorsProofs` | theorems | `Executors`, `ZenRuntimeProofs` |
| `SequenceLemmas` | a lemma on prefixes that two proofs use | |
| `Induction` | natural induction, recursive functions, powers and digits, proved | `Numerals` |
| `MCContractCalls`, `MCHostMemory`, `MCZenRuntime`, `MCExecutors` | instances for TLC | |

### ContractCalls

`frames` is the stack of guests in execution. A frame is one clone of the
`MockContext` (`addr`, `caller`, `value`, `code`) and the instance that runs for it
(`gas`, `ended`), with what its guest has been told by its last callee (`heard`,
`ok`, and `told`, the i32 the bridge returned). The `Rc`-shared fields are
variables of their own: `storage`, `status` (`execution_status`), `returnData`,
`events` (their number), `registry`. `verdict` is the
`ContractExecutionResult` the harness got for its last top-level call; `out`,
`ended` and `kind` in it are kept for the properties. `aborted` says that a
panic in an `extern "C"` function has ended the process.

One action is one host function, or one way the engine ends a guest. A call is
two: `CallInto` up to the point where the callee runs, and `ReturnFromCall` from
there, which first computes the executor's result from the cells and then writes
the cells by `set_return_data`, in the order of the code. In between, only the
callee runs. The engine may refuse any code, executor or instance: a call, and a
creation whose executor cannot be made (`CreateRefused`, as one of the empty code),
then fail and leave the cells, while a refused deployment sets empty return data.
The gas counter makes every guest finite: a guest step costs one.
Data is abstract: codes are told apart by what the host can tell (`Loadable`,
`ShortCode`, the code behind the first four bytes).

`StepsLeft` is how far a top-level call is from its end: a guest with g units of
gas can still take g steps, end and return, and each step may be a call that gives
another guest all of the limit. So the frames' `Weight`s are the digits of a number,
the outermost the most significant, to a base above every weight.

`CallProtocol` has neither cells nor codes. A guest ends with an outcome, and
its caller, or the harness, is given one of the `Results` of that guest.
Two gaps are left open there on purpose, as the code leaves them open: a guest
that returns without `finish` or `revert` and has never heard from a callee is
judged by whatever the cells held, and a deployment is judged by whether it
trapped.

### HostMemory

One action per host function. Those with offsets are `Checked(valid, Accept, Reject)`: the
validations in `valid` (those of `utils.rs`, or the unsigned ones of
`storage.rs`), what the function does, and what the bridge does with an `Err`:
raise exception 9 (`Traps`), or return a code and let the guest go on
(`Refuses`). `call` records the last call with its arguments, with what the host
gave (an input, chosen by `\E`) and what it got. `memory` is a function on
addresses: a write outside it is a step that `WritesStayInResult` refuses, and a
read outside it has no value, so that TLC stops there. A byte has `Base` values, a word `WordSize` bytes, an i32 `IntBits`
bits, an i64 `LongBits`, so that all sizes scale down together. The numbers of
integers are powers of two (`Power`), as a word's number is a sum of powers of `Base`. The getters
answer with a size (`usize` to i32), a number of the block, or the gas counter
(u64 to i64).

`Return` is the end of `call_wasm_func`: the engine writes the member of the
result's union that has the function's type into a cell that `malloc` did not
clear, and the Rust side reads the cell as one i64 and converts it as a number.

### ZenRuntime

Wrappers are named by the engine object they wrap. `fields` has the `Rc`s of
each wrapper in the order in which its `Drop` or the struct gives them up,
`descs` and `hostModules` are the lists of a runtime, `user` counts the `Rc`s in
the user's hands. `dropping` is the stack of `Drop`s in progress: deleting the
engine object, releasing the fields one after the other, each release starting
another drop if it was the last `Rc`, and ending are steps of their own. `live`
and `needs` are the engine's view: what exists, and what each object was created
out of. `EngineHandles` states over these two alone what the C interface
requires; `RespectsEngine` is the refinement. `DropWork` counts what drops
can still do: an object to delete is one step, a field to release one and the
end of the drop it may start another.

### Executors

The user of `ZenRuntime` may make any legal call at any time. `Executors` is the
user that the repository has: the harness with its executors, and below it
`levels`, the functions on the native stack. A level has its local `Rc`s in the
order of their declaration and the statement it has reached (`phase`). Its
actions are those of `ZenRuntime` with the objects that the statement names, and
`Begin`, `Continue` or the end of the level in the same step. A `?` and a normal
end lead to the same `unwinding`, in which the locals are dropped, the last first,
each drop with all the steps `ZenRuntime` gives it. A running guest can start
another level (`GuestCalls`), which is again `ContractExecutor::new` and
`call_contract_function`; deployments run through the same statements.

## Runs

`tlc -config X.cfg MCModule`, each within five minutes on two workers.

| Run | Checks | Distinct states |
|---|---|---|
| `calls_nesting` | `TypeOK`, `CellsFollowTop`, `VerdictFaithful`, `DelegationKeepsAccount` | 2.0 M |
| `calls_outcomes` | `RegisteredOnSuccessOnly`, `ImplementsProtocol`, `StepsRunOut`, `CallsConclude` | 370 k |
| `memory_boundary` | `TypeOK`, `WritesStayInResult`, `CopiesZeroFill`, `ArithmeticExact`, `IntegersReturnExact` | 480 k |
| `engine_ownership` | `TypeOK`, `OwnedObjectsLive`, `UnownedObjectsDeleted`, `RespectsEngine`, `DroppedOnce`, `DropsRunOut`, `DropsConclude` | 350 k |
| `executors_nested` | `LevelsOK`, `RunningGuestsReachLiveObjects`, `NothingOfACallRemains`, `LevelsUnwind` | 260 k |
| `calls_static_call` | `StaticCallsModifyNothing` is violated | |
| `calls_bridge_code` | `AnswerTellsOutcome` is violated | |
| `calls_constructor_revert` | `RevertedConstructorDeploysNothing` is violated | |
| `calls_stale_revert` | `ReportedRevertsHappened` is violated | |
| `memory_code_copy` | `CodeCopyZeroFills` is violated | |
| `memory_float_results` | `FloatsReturnExact` is violated | |
| `engine_leak` | `NothingLeftBehind` is violated | |

The last seven state what a comment of the code says and the code does not do; see
*Divergences*.

### Bounds

* `calls_nesting`: three frames deep. A cell is shared by all frames, so what
  matters is a frame, its callee and its callee's callee: the third writes the
  cell, the second overwrites it or does not, the first reads it. Each guest has
  two steps (`TxGas`), enough to make a call and then end in some way, or to
  make two calls and be cut off by metering. Two byte strings tell one guest's
  data from another's and from none. One creation code, which deploys; events
  change no cell and are left to the other runs.
* `calls_outcomes`: two frames deep, all shapes of code (no code, three bytes,
  behind a prefix, a module as it is), one event, and calls to the address of
  CREATE, which runs the caller's own code before a creation and what the CREATE
  registered after it.
* `memory_boundary`: an i32 of three bits (-4..3) and a memory of seven bytes, so
  that its upper half is at negative i32 offsets, as in a memory beyond two
  gigabytes, and that negative, zero, last and one-too-far values exist of every
  offset and length. Words of three bits lie at every offset, so that operands
  take every value and overlap the result in every way. A source is empty,
  shorter or longer than the destination. i64s of five bits leave an i32 two bits
  of rest in the cell of a result; the gas counters are on both sides of the sign.
* `engine_ownership`: two runtimes, so that objects of one reach the other, one
  object of each kind below them, two user `Rc`s of each. A `create_host_module`
  that merges into a module that exists already needs a second desc and module;
  the run has the same effect by `MergeHostModule`, and the theorems hold for any
  number of objects.
* `executors_nested`: four names of each kind, taken in order (`NextName`; which
  fresh pointer a new object gets does not matter), and three levels: a guest, the
  guest it calls and one above, with a name left so that one call at the second
  level follows another. A level starts only when a name of each kind is left
  (`Room`).

All bounds are in guards, named: `MaxDepth`, `MaxEvents`, `TxGas` (metering,
also in the code), `MaxHandles`, `MaxLevels`. The engine objects are finitely many names, and
each name is used once.

`CHECK_DEADLOCK FALSE`: in the calls runs, because a host that panicked makes no
more steps; in the engine runs, because a user with no handle left and no unused
name has nothing to call. `HostMemory` checks deadlock.

### Fairness

`FairSpec` of `ContractCalls` has `WF_vars(Progress)`: the thread that runs a
guest is not preempted for ever. `Progress` does not include new top-level
calls; nothing makes the harness call. `CallsConclude` then rests on the gas
counter, which every guest step decrements (external: the instance is created
with `ZenCreateInstanceWithGas`), and on each ended guest's return to its
caller. It is no longer true when the bound on depth is dropped, since every
nested call gets the whole gas limit anew; see *Divergences*. What fairness adds is
only that steps are taken: that there are finitely many is `StepsRunOut`, an action
property, and `DropsRunOut` says the same of drops. The bound on depth is the
model's; the code has the size of the native stack.

`FairSpec` of `ZenRuntime` has `WF_vars(DropStep)`: a `Drop` that has started
runs by itself, and the user's next call waits for it (`Idle` in every user's
call).

`FairExecSpec` of `Executors` has `WF_execVars(Proceed)`: the one thread that
runs the functions goes on, and the harness need not call again. That a running
guest sometimes ends rather than calls on and on follows from the names, which
run out; in the code it is the gas of each guest and the size of the stack.

### Mutants

Each property of a passing run has a variant of a mapped definition, or two, defined
before it, under which the run fails: a call that leaves the cells alone
when the callee failed, a contract created for the caller of its creator, an `invalid` that forgets the status, a registration
before the constructor's result, an offset that loses its sign, the end of a result
or a sum that wraps around, a strong count that looks at the user's `Rc`s only, a
callee that gives the rest of its gas back, an object dropped a second time, a field
that stays when its `Rc` has been dropped, and so on.

## Proofs

`ContractCallsProofs` proves, for all values of the constants that satisfy the
assumptions of `ContractCalls`:

| Theorem | States |
|---|---|
| `TypeCorrect` | `Spec => []TypeOK` |
| `CellsFollowRunningGuest` | `Spec => []CellsFollowTop` |
| `VerdictCorrect` | `Spec => []VerdictFaithful` |
| `DelegationCorrect` | `Spec => []DelegationKeepsAccount` |
| `OnlySuccessRegisters` | `Spec => RegisteredOnSuccessOnly` |
| `ProtocolImplemented` | `Spec => ImplementsProtocol` (`ContractCallsRefinementProofs`) |
| `GasBoundsCalls` | `Spec => StepsRunOut` |
| `StepsBounded` | `Spec => [](StepsLeft \in 0..(Power(StepBase, MaxDepth) - 1))` |

so that depth, gas, the registry, codes and data are not bounded by the
runs' values (`MaxDepth` remains a constant, of any value).

The inductive invariant is `IInv == TypeOK /\ StackShape /\ CellsFollowTop /\
VerdictFaithful`. `VerdictFaithful` is not inductive alone: that the result of
an ended guest reports its own ending is what `CellsFollowTop` says when the
outermost frame is the last. `CellsFollowTop` in turn speaks of the last frame
only, and a return makes the caller the last: `StackShape` says that the caller
is still running and so has no ending of its own to report, only what it has
just heard. The kinds in `StackShape` tell returns to a frame from returns to
the harness, so that the pop leaves a caller. The proof has one lemma per action
or group of actions that share a shape (`QuietStep` for those that leave the
cells and answer in place, `EnterStep` for calls, `DeliverStep` for returns),
lemmas on the stack operations, and one step per disjunct of `Next`.

`DelegationKeepsAccount` speaks of two frames any distance apart: every frame from
the one to the other delegates, but for the last, which may be a creation and then
has the first one's account as its creator. Its proof adds `Accounts`, which says how the
account, caller and value of a frame follow from the frame right below it
(`AccountsInvariant`); a step pushes one frame, pops one or leaves these fields
alone. The refinement maps a frame to the guest that remains when its account,
code and gas are forgotten. Its proof shows that the initial states map to the
protocol's, and by groups of actions as above that every step maps to a step of
the protocol or to none; `CellsFollowTop` is what makes the result computed from
the shared cells one of the results of the guest itself.

The last two theorems say together that a top-level call takes fewer than
(2 TxGas + 3)^MaxDepth steps, whatever its guests do. A call lowers the digit of the
caller and sets the digit behind it from zero to at most its greatest value; a
return clears that one and leaves the caller's as it is, which it has paid for
already; every other step lowers the last digit. So each step makes the number smaller by the
lexicographic order of its digits (`PrecedingIsSmaller` in `Induction`). That a
callee has a digit of its own, and so may start with the whole limit, is
`DepthBounded`, proved by `DepthInvariant` together with `IInv`.

`ZenRuntimeProofs` proves, for any number of objects, runtimes and user `Rc`s:

| Theorem | States |
|---|---|
| `TypeCorrect` | `Spec => []TypeOK` |
| `NoUseAfterDelete` | `Spec => []OwnedObjectsLive` |
| `NothingUnownedStays` | `Spec => []UnownedObjectsDeleted` |
| `EngineRespected` | `Spec => RespectsEngine`, the refinement of `EngineHandles` |
| `DropsStartOnce` | `Spec => DroppedOnce` |
| `DropsAreFinite` | `Spec => DropsRunOut` |
| `DropWorkNatural` | `Spec => [](DropWork \in Nat)` |

Here the inductive invariant `IInv` (end of `ZenRuntime`) adds to `TypeOK` and
`OwnedObjectsLive`: a wrapper whose drop has begun is not owned and will not be
(`DropsUnowned`), so deleting its object deletes nothing owned; what lives is
owned or waits for its drop (`LiveOwnedOrDropping`), which is
`UnownedObjectsDeleted` in the middle of a drop; what the engine uses an object
through is a field of its wrapper or listed by a runtime (`NeedsKept`), which is
why the engine is never asked to delete what it uses; what a runtime lists holds
that runtime (`ListedHoldRuntime`). The last is the cycle that leaks, and it is
also what makes the proof work: a runtime that is dropped lists nothing, so
clearing its lists takes no owner away. `DescsListed`, `ModulesHoldRuntime` and
`FieldsOfMade` say that the user's calls find what they use. The calls fall into
two shapes, `Grows` (objects or `Rc`s are added) and `Loses` (one `Rc` goes); the
invariant is shown once for each, and each call is shown to have its shape. `IInv`
was model-checked before it was proved.

`DropsStartOnce` follows from it: a wrapper that loses its last `Rc` was owned, so its
object lives and its drop has not begun. `DropsAreFinite` is arithmetic on `DropWork`:
a release takes a field away and starts at most one drop, a deletion takes
away an object, an end a drop. `DropWorkNatural` needs that what was made is finite,
although the names may be infinitely many (`WorkBounded`, by `WorkInvariant`).
Through `ExecutorsUseRuntime` all of these hold for the executors' drops too.

`ExecutorsProofs` proves, for any number of executors, calls and levels:

| Theorem | States |
|---|---|
| `ExecutorsUseRuntime` | `ExecSpec => Spec`: whatever is proved of `ZenRuntime` holds here |
| `HandlesInOnePlace` | `ExecSpec => []LevelsOK` |
| `RunningGuestsKeepObjects` | `ExecSpec => []RunningGuestsReachLiveObjects` |
| `CallsCleanUp` | `ExecSpec => []NothingOfACallRemains` |

`EInv` adds to `IInv` that each `Rc` in use is in one place (`LevelsOK`), what
locals a level has by its statement (`Shapes`), and that the host module a level
dropped stays listed by the runtime the level keeps (`HostsKept`). A level's
module, isolation and instance are held, so by `IInv` they live, and so does what
they need. `NothingOfACallRemains` goes from a live object to the `Rc` that owns
it, and from there to the level or to the wrapper a level holds.

`HostMemoryProofs` proves, for all sizes and widths, all arguments and all that
the host may give:

| Theorem | States |
|---|---|
| `ResultsOnly` | `Spec => WritesStayInResult` |
| `CopiesFill` | `Spec => CopiesZeroFill` |
| `TypeCorrect` | `Spec => []TypeOK` |
| `ResiduesExact` | `Spec => ArithmeticExact` |
| `ReturnsExact` | `Spec => IntegersReturnExact` |

The first two need only that memory keeps its addresses (`MemoryShape`): what it
holds does not matter. A lemma per group of host functions shows that its checks
put the result in memory (`ValidInMemory`, `ValidWordInMemory`), and that
what it writes is as long as its result, or shorter (`code_copy`), and starts
where its result starts; `BufferBytes` says byte by byte what a copy writes. The
others need what memory holds: `TypeOK`, inductive as it stands, makes every operand that
passes its check a word, so that the theorems on arithmetic apply, and the word
they give is what the bytes of the result spell afterwards (`WrittenWord`),
operands overwritten or not. `ReturnsExact` is the arithmetic of the casts: the
bits an i32 does not write are a multiple of 2^32 and fall out of `as i32`
(`UpperHalfLost`).

`EvmWordsProofs` proves, for every base and size of words:

| Theorem | States |
|---|---|
| `AddmodCorrect`, `MulmodCorrect`, `ExpmodCorrect` | the result is a word, and its number is the residue of the exact sum, product or power |

`Power`, `Numeral` and `ModPow` are recursive functions, and what they compute is
shown by induction over their domain. `Induction` gets it from the least element of a
set of naturals: the predicate of an induction is a set and the step of a
recursion a function, so that the provers can instantiate them, which they cannot
do with operators. A word comes back from its number (`WordRoundTrip`), and a
factor may be reduced before it is multiplied (`ReducedFactor`), on which
`modpow` rests.

The assumptions are those named in the modules: what the byte strings and
addresses are, that a module's first bytes are the WASM magic so that a module
behind a prefix is none, and that bounds are positive.

Only model-checked: liveness (`CallsConclude`, `DropsConclude`, `LevelsUnwind`),
which needs fairness and `ENABLED`. Of the first two the safety part, that the
steps run out, is proved as above.

## Divergences

With a run (see `PROJECT.json`, `findings`):

* A static call can store, log and create (`contract.rs:185`).
* The bridge answers 0 for a successful and for a failed call (`mock_evm_bridge.rs:406`).
* A constructor that reverts is deployed and registered (`contract_executor.rs:68`).
* The status of an earlier call on the same context is reported for a later one
  that ends without finish or revert (`contract_executor.rs:99`).
* `code_copy` does not fill with zeros (`code.rs:96`).
* A float that a guest's function returns reaches the caller as the number its
  bits make (`instance.rs:247-248`).
* A runtime with a desc or host module is never freed: they own each other
  (`runtime.rs:141`).

Modelled as the code does it, without a run of its own:

* All contracts share one storage map (`mock_context.rs:662`), although
  `storage.rs:16` says that each has its own.
* Every CREATE gives one address and every CREATE2 another
  (`mock_context.rs:463,472`), so that a later contract replaces an earlier one.
* The gas argument of a call is not used for the callee, which gets the whole
  limit of the transaction (`contract_executor.rs:94`, `contract.rs:21`).
* A creation deploys the code behind its length prefix and registers the code
  with it (`mock_context.rs:531,954`), which a later call cannot load.
* With constructor data, a code of one to three bytes panics (`mock_context.rs:531`).
* The bridge's `get_block_hash` returns nothing where its descriptor declares an
  i32, and takes an i32 where the descriptor declares an i64
  (`mock_evm_bridge.rs:170,705`).
* Stores and events of a callee that failed are kept; no comment says otherwise.
* CALL passes on the caller of the caller (`Top.caller` in `CallInto`).
* A log topic at offset 0 is emitted as zeros, whatever memory holds there.
* The storage functions accept offsets from 2^31; all others reject them.
* A `create_host_module` whose load fails leaves its desc, and its merge, behind.
* `get_external_code_size` answers 0 for an address outside memory.
* A negative gas limit of a context becomes a counter near 2^64
  (`contract_executor.rs:94`), and `get_gas_left` gives it back negative.

Not modelled, as no state depends on it: `find_host_func_desc` compares a name
with stored names that end in a NUL byte (`runtime.rs:253`), so that it finds
none.

## Not modelled

* Call data: only its length and bytes at the memory boundary; which call passed
  which data makes no difference to the state of the host.
* The width of gas counters in execution: in `ContractCalls` they count steps. What
  a context's negative limit should mean is not said anywhere.
* The arguments of `call_wasm_func` (decimal text for the engine's parser; no code
  of the repository passes any) and the text of its errors.
* The hash functions: an arbitrary word.
* `find_host_func_desc`, `get_import_func_name`, `filter_host_funcs`: they change
  no state.
* Cloning a `ZenHostModuleDesc` (the struct, not its `Rc`), null pointers from
  the constructors that do not check for them: open hazards. What the engine does
  with a null is not in the repository.
* `error.rs` (wording), builders beyond a built context, tests and examples.

## Plan

Done, in this order: nested execution with its protocol and its first proofs; the
memory boundary with the arithmetic; the owners of engine objects with proofs of
their safety; nested calls as users of the engine, composed with the owners and
proved for any depth; values through calls and creations; the refinement of the
protocol, delegation and registration as theorems; the getters, the LOG variants
and the guest's results; the memory boundary as theorems; the arithmetic and the
conversions of results as theorems; bounds on the steps of calls and of drops.

Left: `Clone` of a `ZenHostModuleDesc` as an operation of the library's user, once
code uses it; gas counters of the code's width in `ContractCalls`, once a nested
call is charged for what it uses; a bound on the steps of a level of `Executors`, as
there is for calls and drops, and a proof that it holds; liveness itself, which the
prover does not reach.
