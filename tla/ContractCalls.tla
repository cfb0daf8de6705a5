---------------------------- MODULE ContractCalls ----------------------------
(***************************************************************************)
(* Nested contract execution: the host functions of                        *)
(* src/src/evm/host_functions/{contract,control,storage,log}.rs as the     *)
(* bridge of evm_example exposes them to a guest, over the MockContext     *)
(* (evm_example/src/mock_context.rs) and the ContractExecutor.             *)
(*                                                                         *)
(* Every call clones the MockContext.  A clone copies the address, caller, *)
(* call value and code, and SHARES (Rc) the storage, the return data, the  *)
(* execution status, the events and the registry.  A running guest is a    *)
(* frame of the stack `frames'; the shared cells are variables of their    *)
(* own, written by whichever frame runs.  One thread runs everything: only *)
(* the last frame makes steps, the others wait in a call host function.    *)
(***************************************************************************)
EXTENDS Numerals

CONSTANTS
  Address,        \* contract and account addresses
  Key, Value,     \* storage keys and 32-byte words
  Zero,           \* the all-zero word
  Stored,         \* words a guest stores
  Passed,         \* call values a guest passes
  Data,           \* byte strings handed to finish and revert
  NoData,         \* the empty byte string
  Nothing,        \* no data heard from a callee so far
  Code,           \* byte strings used as contract code
  EmptyCode,      \* the code of length 0
  ShortCode,      \* codes of 1 to 3 bytes
  Loadable,       \* codes the engine accepts as a WASM module
  StripPrefix,    \* code[4..] of every code of 4 bytes or more
  CreationCode,   \* codes a guest passes to a creation
  NoCode,         \* an address with no registry entry
  InitRegistry,   \* the registry a harness prepares
  CreateAddress,  \* the address of every CREATE
  Create2Address, \* the address of every CREATE2
  Contexts,       \* the MockContexts a harness sets up
  TxGas,          \* gas limit of the transaction, in metered steps
  Target,         \* addresses a guest calls
  MaxDepth,       \* bound on the nesting of frames
  MaxEvents       \* bound on the number of events

ASSUME DataAssumption == NoData \in Data /\ Nothing \notin Data
ASSUME WordAssumption == Zero \in Value /\ Stored \subseteq Value /\ Passed \subseteq Value
ASSUME CodeAssumption ==
  /\ CreationCode \subseteq Code
  /\ EmptyCode \in Code /\ ShortCode \subseteq Code /\ EmptyCode \notin ShortCode
  /\ Loadable \subseteq Code \ (ShortCode \union {EmptyCode})
  /\ StripPrefix \in [Code \ (ShortCode \union {EmptyCode}) -> Code]
  \* A module starts with the WASM magic: behind a prefix it does not.
  /\ \A c \in DOMAIN StripPrefix : StripPrefix[c] \in Loadable => c \notin Loadable
ASSUME AddressAssumption ==
  /\ {CreateAddress, Create2Address} \subseteq Address
  /\ Target \subseteq Address
  /\ NoCode \notin Code
  /\ InitRegistry \in [Address -> Code \union {NoCode}]
  /\ Contexts \subseteq [addr : Address, caller : Address, value : Value, code : Code]
ASSUME BoundAssumption ==
  /\ TxGas \in Nat \ {0}
  /\ MaxDepth \in Nat \ {0} /\ MaxEvents \in Nat

VARIABLES
  frames,      \* the guests in execution, the running one last
  storage,     \* MockContext.storage, one map for all contracts
  status,      \* MockContext.execution_status
  returnData,  \* MockContext.return_data
  events,      \* how many events MockContext.events holds
  registry,    \* MockContext.contract_registry
  verdict,     \* what the last top-level call returned to the harness, until the next
  aborted      \* the process died of a panic in a host function

world == <<storage, events>>
cells == <<status, returnData>>
vars == <<frames, storage, status, returnData, events, registry, verdict, aborted>>

-----------------------------------------------------------------------------
(* Frames. *)

NestedKind == {"call", "callcode", "delegate", "static", "create"}
Kind == {"transact", "deploy"} \union NestedKind

\* How a guest ended: by finish, revert, invalid or self_destruct, by
\* returning from its exported function, or by a trap.
Ending == {"finish", "revert", "invalid", "destruct", "plain", "trap"}

Frame ==
  [kind   : Kind,
   addr   : Address,                     \* MockContext.address of this clone
   caller : Address,                     \* MockContext.caller of this clone
   value  : Value,                       \* MockContext.call_value of this clone
   code   : Code,                        \* MockContext.contract_code of this clone
   image  : Code,                        \* a creation: the code it will register
   gas    : 0..TxGas,                    \* the instance's gas counter
   ended  : {"running"} \union Ending,
   out    : Data,                        \* what it gave to finish or revert
   heard  : Data \union {Nothing},       \* return data of its last callee
   ok     : {"none", "yes", "no"},       \* success of its last call or creation
   told   : {"none", "zero", "one"}]     \* the i32 the guest got for it

NewFrame(kind, addr, caller, value, code, image) ==
  [kind |-> kind, addr |-> addr, caller |-> caller, value |-> value,
   code |-> code, image |-> image, gas |-> TxGas,
   ended |-> "running", out |-> NoData,
   heard |-> Nothing, ok |-> "none", told |-> "none"]

Idle == frames = <<>>
Top == frames[Len(frames)]
Caller == frames[Len(frames) - 1]

\* The last frame replaced by f, and the last two replaced by f.
SetTop(f) == [frames EXCEPT ![Len(frames)] = f]
PopTo(f) == Append(SubSeq(frames, 1, Len(frames) - 2), f)

\* The engine meters every guest step.
Charged(f) == [f EXCEPT !.gas = @ - 1]

\* A variant without metering.
RunningUnmetered == ~aborted /\ ~Idle /\ Top.ended = "running"

\* The running guest may make a step.
Running == ~aborted /\ ~Idle /\ Top.ended = "running" /\ Top.gas > 0

\* The guest ended (instance.exit, a trap, or its function returned).
Ends(how, d) == frames' = SetTop([Charged(Top) EXCEPT !.ended = how, !.out = d])

-----------------------------------------------------------------------------
(* Storage and log host functions. *)

StorageStore(k, v) ==
  /\ Running
  /\ storage' = [storage EXCEPT ![k] = v]
  /\ frames' = SetTop(Charged(Top))
  /\ UNCHANGED <<cells, events, registry, verdict, aborted>>

EmitLogEvent ==
  /\ Running
  /\ events < MaxEvents
  /\ events' = events + 1
  /\ frames' = SetTop(Charged(Top))
  /\ UNCHANGED <<storage, cells, registry, verdict, aborted>>

-----------------------------------------------------------------------------
(* Control host functions, and the ends the engine itself decides. *)

\* set_return_data, and what finish writes: the data and Some(true).
SetReturnData(d) == returnData' = d /\ status' = "finished"

Finish(d) ==
  /\ Running
  /\ SetReturnData(d)
  /\ Ends("finish", d)
  /\ UNCHANGED <<world, registry, verdict, aborted>>

Revert(d) ==
  /\ Running
  /\ returnData' = d /\ status' = "reverted"
  /\ Ends("revert", d)
  /\ UNCHANGED <<world, registry, verdict, aborted>>

\* A variant of invalid that forgets the status.
InvalidUnmarked ==
  /\ Running
  /\ Ends("invalid", NoData)
  /\ UNCHANGED <<world, cells, registry, verdict, aborted>>

\* invalid() leaves the return data of whoever wrote it last.
Invalid ==
  /\ Running
  /\ status' = "reverted"
  /\ Ends("invalid", NoData)
  /\ UNCHANGED <<world, returnData, registry, verdict, aborted>>

\* exit(3) after a self_destruct that changes nothing in the host, and the
\* exported function returning by itself: neither touches the cells.
SelfDestruct ==
  /\ Running
  /\ Ends("destruct", NoData)
  /\ UNCHANGED <<world, cells, registry, verdict, aborted>>

PlainReturn ==
  /\ Running
  /\ Ends("plain", NoData)
  /\ UNCHANGED <<world, cells, registry, verdict, aborted>>

\* A host function returned Err and the bridge raised exception 9, or the
\* guest trapped by itself.
Trap ==
  /\ Running
  /\ Ends("trap", NoData)
  /\ UNCHANGED <<world, cells, registry, verdict, aborted>>

OutOfGas ==
  /\ ~aborted /\ ~Idle /\ Top.ended = "running" /\ Top.gas = 0
  /\ frames' = SetTop([Top EXCEPT !.ended = "trap", !.out = NoData])
  /\ UNCHANGED <<world, cells, registry, verdict, aborted>>

-----------------------------------------------------------------------------
(* Calls. *)

\* The registered code, or else the code of the calling contract.
TargetCode(target) == IF registry[target] # NoCode THEN registry[target] ELSE Top.code

\* The guest of f resumes after a host function that ran no callee (to its
\* end): the code success_code is replaced by 0 in the bridge.
Answered(f, success) == [f EXCEPT !.ok = IF success THEN "yes" ELSE "no", !.told = "zero"]

\* A clone of the context for `addr' with call value `value' runs the target's
\* code.  A code that the engine refuses, and an executor or instance that it
\* refuses whatever the code is, make the call fail before anything is written.
CallInto(kind, target, addr, value) ==
  /\ Running
  /\ LET code == TargetCode(target) IN
     \/ /\ code \in Loadable
        /\ Len(frames) < MaxDepth
        /\ frames' = Append(SetTop(Charged(Top)),
                            NewFrame(kind, addr, Top.caller, value, code, code))
     \/ frames' = SetTop(Answered(Charged(Top), FALSE))
  /\ UNCHANGED <<world, cells, registry, verdict, aborted>>

\* A variant of DELEGATECALL that acts for the account of the code.
CallDelegateSwitching(target) == CallInto("delegate", target, target, Top.value)

CallContract(target, value) == CallInto("call", target, target, value)

CallCode(target, value) == CallInto("callcode", target, Top.addr, value)

CallDelegate(target) == CallInto("delegate", target, Top.addr, Top.value)

CallStatic(target) == CallInto("static", target, target, Zero)

\* A call or creation whose offsets do not validate: the bridge returns 1 and
\* raises no exception.
CallRejected ==
  /\ Running
  /\ frames' = SetTop([Charged(Top) EXCEPT !.ok = "no", !.told = "one"])
  /\ UNCHANGED <<world, cells, registry, verdict, aborted>>

-----------------------------------------------------------------------------
(* Creations. *)

\* A variant of creation for the account that called the running contract.
CreatorOfCaller == Top.caller

\* The account that a guest creates a contract for.
Creator == Top.addr

NewAddress(isCreate2) == IF isCreate2 THEN Create2Address ELSE CreateAddress

Register(a, code) == registry' = [registry EXCEPT ![a] = code]

\* Without constructor data no constructor runs: the code is registered as is.
CreateWithoutConstructor(code, isCreate2) ==
  /\ Running
  /\ code # EmptyCode
  /\ Register(NewAddress(isCreate2), code)
  /\ frames' = SetTop(Answered(Charged(Top), TRUE))
  /\ UNCHANGED <<world, cells, verdict, aborted>>

\* A creation of the empty code, and one with constructor data whose executor
\* cannot be made, fail before anything is written.
CreateRefused ==
  /\ Running
  /\ frames' = SetTop(Answered(Charged(Top), FALSE))
  /\ UNCHANGED <<world, cells, registry, verdict, aborted>>

\* With constructor data the code loses its first four bytes and is deployed:
\* slicing a code of less than four bytes panics.  A deployment that the engine
\* refuses, for its code or its instance, has no result but sets empty return data.
CreateWithConstructor(code, value, isCreate2) ==
  /\ Running
  /\ code \notin ShortCode \union {EmptyCode}
  /\ LET init == StripPrefix[code] IN
     \/ /\ init \in Loadable
        /\ Len(frames) < MaxDepth
        /\ frames' = Append(SetTop(Charged(Top)),
                            NewFrame("create", NewAddress(isCreate2), Creator,
                                     value, init, code))
        /\ UNCHANGED cells
     \/ /\ SetReturnData(NoData)
        /\ frames' = SetTop([Answered(Charged(Top), FALSE) EXCEPT !.heard = NoData])
  /\ UNCHANGED <<world, registry, verdict, aborted>>

CreateOfShortCode(code) ==
  /\ Running
  /\ code \in ShortCode
  /\ aborted' = TRUE
  /\ UNCHANGED <<frames, world, cells, registry, verdict>>

CreateContract ==
  \/ CreateRefused
  \/ \E c \in CreationCode, isCreate2 \in BOOLEAN :
        \/ CreateWithoutConstructor(c, isCreate2)
        \/ \E v \in Passed : CreateWithConstructor(c, v, isCreate2)
        \/ CreateOfShortCode(c)

-----------------------------------------------------------------------------
(* Returning: the executor reads the shared cells once the guest has ended. *)

\* A variant that judges by the trap alone, as deployments are judged.
ExecutionResultByTrap ==
  [ok       |-> Top.ended # "trap",
   data     |-> IF Top.ended = "trap" THEN NoData ELSE returnData,
   reverted |-> status = "reverted"]

\* call_contract_function: a trap is a failure without data; anything else is
\* judged by the shared status.
ExecutionResult ==
  [ok       |-> Top.ended # "trap" /\ status # "reverted",
   data     |-> IF Top.ended = "trap" THEN NoData ELSE returnData,
   reverted |-> status = "reverted"]

\* deploy_contract: only a trap is a failure, whatever the status says.
DeploymentResult ==
  [ok       |-> Top.ended # "trap",
   data     |-> IF Top.ended = "trap" THEN NoData ELSE returnData,
   reverted |-> FALSE]

\* A variant that sets the return data after successful calls only.
DeliverOnSuccess(r) ==
  /\ IF r.ok THEN SetReturnData(r.data) ELSE UNCHANGED cells
  /\ frames' = PopTo([Answered(Caller, r.ok) EXCEPT !.heard = r.data])

\* A variant that gives the caller the gas its callee has not used.
DeliverRefunding(r) ==
  /\ SetReturnData(r.data)
  /\ frames' = PopTo([Answered(Caller, r.ok) EXCEPT !.heard = r.data, !.gas = @ + Top.gas])

\* The guest of the caller resumes with the callee's return data in the cell.
Deliver(r) ==
  /\ SetReturnData(r.data)
  /\ frames' = PopTo([Answered(Caller, r.ok) EXCEPT !.heard = r.data])

Ended(kinds) == ~aborted /\ ~Idle /\ Top.ended # "running" /\ Top.kind \in kinds

ReturnFromCall ==
  /\ Ended(NestedKind \ {"create"})
  /\ Deliver(ExecutionResult)
  /\ UNCHANGED <<world, registry, verdict, aborted>>

\* Variants: one registers before it knows the result, one never returns from a
\* constructor that trapped.
ReturnFromCreateRegistering ==
  /\ Ended({"create"})
  /\ Deliver(DeploymentResult)
  /\ Register(Top.addr, Top.image)
  /\ UNCHANGED <<world, verdict, aborted>>

ReturnFromCreateStuck ==
  /\ Ended({"create"}) /\ Top.ended # "trap"
  /\ Deliver(DeploymentResult)
  /\ Register(Top.addr, Top.image)
  /\ UNCHANGED <<world, verdict, aborted>>

\* A deployment that did not trap is registered under its address.
ReturnFromCreate ==
  /\ Ended({"create"})
  /\ Deliver(DeploymentResult)
  /\ IF DeploymentResult.ok THEN Register(Top.addr, Top.image) ELSE UNCHANGED registry
  /\ UNCHANGED <<world, verdict, aborted>>

-----------------------------------------------------------------------------
(* The harness: top-level calls and deployments on one MockContext. *)

NoVerdict == [ok |-> FALSE, data |-> NoData, reverted |-> FALSE, ended |-> "none",
              out |-> NoData, kind |-> "transact"]

Verdict(r, f) ==
  [ok |-> r.ok, data |-> r.data, reverted |-> r.reverted,
   ended |-> f.ended, out |-> f.out, kind |-> f.kind]

\* call_contract_function and deploy_contract on the harness's context, which
\* keeps the status and return data of earlier calls.  What the engine refuses,
\* the code or an instance of it, is an Err.
TopLevel(kind, ctx) ==
  /\ ~aborted /\ Idle
  /\ \/ /\ ctx.code \in Loadable
        /\ frames' = <<NewFrame(kind, ctx.addr, ctx.caller, ctx.value, ctx.code, ctx.code)>>
        /\ verdict' = NoVerdict
     \/ /\ verdict' = [NoVerdict EXCEPT !.ended = "refused", !.kind = kind]
        /\ UNCHANGED frames
  /\ UNCHANGED <<world, cells, registry, aborted>>

ReturnFromTransact ==
  /\ Ended({"transact"})
  /\ verdict' = Verdict(ExecutionResult, Top)
  /\ frames' = <<>>
  /\ UNCHANGED <<world, cells, registry, aborted>>

\* deploy_contract returns Ok(()): no data, no status.
ReturnFromDeploy ==
  /\ Ended({"deploy"})
  /\ verdict' = Verdict([DeploymentResult EXCEPT !.data = NoData], Top)
  /\ frames' = <<>>
  /\ UNCHANGED <<world, cells, registry, aborted>>

-----------------------------------------------------------------------------
Init ==
  /\ frames = <<>>
  /\ storage = [k \in Key |-> Zero]
  /\ status = "none"
  /\ returnData = NoData
  /\ events = 0
  /\ registry = InitRegistry
  /\ verdict = NoVerdict
  /\ aborted = FALSE

\* One step of the code in flight: the guest's, or the return from it.
Progress ==
  \/ \E k \in Key, v \in Stored : StorageStore(k, v)
  \/ EmitLogEvent
  \/ \E d \in Data : Finish(d) \/ Revert(d)
  \/ Invalid \/ SelfDestruct \/ PlainReturn \/ Trap \/ OutOfGas
  \/ \E t \in Target :
        \/ \E v \in Passed : CallContract(t, v) \/ CallCode(t, v)
        \/ CallDelegate(t) \/ CallStatic(t)
  \/ CallRejected
  \/ CreateContract
  \/ ReturnFromCall \/ ReturnFromCreate \/ ReturnFromTransact \/ ReturnFromDeploy

Next ==
  \/ Progress
  \/ \E kind \in {"transact", "deploy"}, ctx \in Contexts : TopLevel(kind, ctx)

Spec == Init /\ [][Next]_vars

\* The thread that runs a guest is not preempted for ever.
FairSpec == Spec /\ WF_vars(Progress)

-----------------------------------------------------------------------------
(* Safety. *)

\* The variables range over what the Rust types and the frames allow.
TypeOK ==
  /\ frames \in Seq(Frame)
  /\ storage \in [Key -> Value]
  /\ status \in {"none", "finished", "reverted"}
  /\ returnData \in Data
  /\ events \in 0..MaxEvents
  /\ registry \in [Address -> Code \union {NoCode}]
  /\ verdict \in [ok : BOOLEAN, data : Data, reverted : BOOLEAN,
                  ended : {"none", "refused"} \union Ending, out : Data,
                  kind : {"transact", "deploy"}]
  /\ aborted \in BOOLEAN

\* The outermost frame was entered by the harness, the others by a call or
\* creation; every frame but the last waits for its callee.
StackShape ==
  \A i \in 1..Len(frames) :
    /\ frames[i].kind \in NestedKind <=> i > 1
    /\ i < Len(frames) => frames[i].ended = "running"

\* What the shared cells must say while frame f, the last one, runs or once it
\* ended as it did.
CellsReport(f) ==
  /\ f.ended = "finish"  => status = "finished" /\ returnData = f.out
  /\ f.ended = "revert"  => status = "reverted" /\ returnData = f.out
  /\ f.ended = "invalid" => status = "reverted"
  /\ f.ended \notin {"finish", "revert", "invalid"} /\ f.heard # Nothing =>
       status = "finished" /\ returnData = f.heard

\* However many frames wrote the shared status and return data before, at the
\* moment the executor or the guest reads them they describe the frame that
\* runs: its own finish or revert, or else its own last callee.  This is what
\* set_return_data after each nested call re-establishes (mock_context.rs:761).
CellsFollowTop == ~Idle => CellsReport(Top)

\* call_contract_function tells the harness how the outermost guest ended,
\* whatever the nested calls left in the shared cells in the meantime
\* (contract_executor.rs:99).
VerdictFaithful ==
  verdict.kind = "transact" =>
    /\ verdict.ended = "finish" =>
         verdict.ok /\ ~verdict.reverted /\ verdict.data = verdict.out
    /\ verdict.ended = "revert" =>
         ~verdict.ok /\ verdict.reverted /\ verdict.data = verdict.out
    /\ verdict.ended = "invalid" => ~verdict.ok /\ verdict.reverted
    /\ verdict.ended = "trap"    => ~verdict.ok /\ verdict.data = NoData

\* Frames j + 1 to i were all entered by calls of these kinds.
Entered(j, i, kinds) == \A k \in (j + 1)..i : frames[k].kind \in kinds

\* However deep a chain of CALLCODE and DELEGATECALL is, it acts for the account
\* and the caller of the frame it starts from, and one of DELEGATECALLs also with
\* that frame's call value, whatever else was called and answered on the way.  A
\* contract that such a chain creates has that account as its creator
\* (mock_context.rs:786,822-823,923).
DelegationKeepsAccount ==
  \A i \in 1..Len(frames) : \A j \in 1..(i - 1) :
    /\ Entered(j, i, {"callcode", "delegate"}) =>
         frames[i].addr = frames[j].addr /\ frames[i].caller = frames[j].caller
    /\ Entered(j, i, {"delegate"}) => frames[i].value = frames[j].value
    /\ Entered(j, i - 1, {"callcode", "delegate"}) /\ frames[i].kind = "create" =>
         frames[i].caller = frames[j].addr

\* A creation runs under one of the two create addresses.
CreationsPlaced ==
  \A i \in 1..Len(frames) :
    frames[i].kind = "create" => frames[i].addr \in {CreateAddress, Create2Address}

\* The inductive invariant behind the safety theorems, and what it adds about the
\* accounts of the frames.
IInv == TypeOK /\ StackShape /\ CellsFollowTop /\ VerdictFaithful
Accounts == DelegationKeepsAccount /\ CreationsPlaced

\* Guests nest to the bound and not deeper.
DepthBounded == Len(frames) <= MaxDepth

-----------------------------------------------------------------------------
(* Action properties. *)

\* A contract enters the registry only in the step that answers a successful
\* creation, under one of the two create addresses: a constructor that traps,
\* is refused by the engine or is still running registers nothing
\* (mock_context.rs:931-954).
RegisteredOnSuccessOnly ==
  [][registry' # registry =>
       /\ \A a \in Address : registry'[a] # registry[a] =>
            a \in {CreateAddress, Create2Address} /\ registry'[a] # NoCode
       /\ frames' # <<>> /\ frames'[Len(frames')].ok = "yes"
       /\ (Len(frames') < Len(frames) => Top.kind = "create" /\ Top.ended # "trap")]_vars

-----------------------------------------------------------------------------
(* How far a top-level call is from its end. *)

\* What a guest can still do by itself: each of its steps costs gas, ending is one
\* more, and returning another.
Weight(f) == 2 * f.gas + IF f.ended = "running" THEN 2 ELSE 1

\* A guest gives one of its steps for a callee with the whole gas limit, which
\* may again give each of its steps for one: the weights are digits, the
\* outermost the most significant.
Weights(s) == [i \in 1..MaxDepth |-> IF i \in DOMAIN s THEN Weight(s[i]) ELSE 0]
StepBase == 2 * TxGas + 3
StepsLeft == Numeral(Weights(frames), StepBase)

\* Although each nested call starts with the whole gas limit of the transaction
\* (contract_executor.rs:94), no step on behalf of a top-level call leads away
\* from its end: nested to MaxDepth, it takes fewer than StepBase ^ MaxDepth.
StepsRunOut == [][~Idle => aborted' \/ StepsLeft' < StepsLeft]_vars

-----------------------------------------------------------------------------
(* Liveness. *)

\* Metering ends every guest and every ended guest returns to its caller, so a
\* top-level call ends, unless a host function panics.
CallsConclude == ~Idle ~> (Idle \/ aborted)

-----------------------------------------------------------------------------
(* What the documentation says and the code does not do. *)

\* "Calls another contract without allowing state modifications"
\* (contract.rs:185): no guest below a static call stores, logs or creates.
StaticCallsModifyNothing ==
  [][(\E i \in 1..Len(frames) : frames[i].kind = "static")
       => UNCHANGED <<storage, events, registry>>]_vars

\* "1 if the call succeeded, 0 if it failed" (contract.rs:28): the guest gets
\* different codes for a successful and a failed call.
AnswerTellsOutcome ==
  \A i, j \in 1..Len(frames) :
    /\ frames[i].ok = "yes" /\ frames[j].ok = "no"
    => frames[i].told # frames[j].told

\* revert "terminates execution with failure" (control.rs:45): a constructor
\* that reverts deploys nothing.
RevertedConstructorDeploysNothing ==
  [][~Idle /\ Top.kind = "create" /\ Top.ended = "revert" => UNCHANGED registry]_vars

\* "None = running, Some(true) = finished successfully, Some(false) = reverted"
\* (mock_context.rs:202): a call reported as reverted did revert.
ReportedRevertsHappened ==
  verdict.reverted => verdict.ended \in {"revert", "invalid"}

=============================================================================
