----------------------------- MODULE Executors -----------------------------
(***************************************************************************)
(* How nested contract calls use the engine's objects.  The harness builds *)
(* executors and calls a contract on one; the guest's calls and creations  *)
(* of other contracts each build an executor of their own                  *)
(* (mock_context.rs:486-557, contract_executor.rs:28-138), on the stack of *)
(* the guest they interrupt.  A level of that stack is one such function   *)
(* with the Rcs its local variables hold; it ends, normally or by a `?',   *)
(* when they have been dropped, the last one declared first.               *)
(*                                                                         *)
(* What contracts compute is in ContractCalls.  Here a guest only calls,   *)
(* and then ends or traps.                                                 *)
(***************************************************************************)
EXTENDS ZenRuntime

CONSTANT MaxLevels   \* bound on the depth of the calls
ASSUME LevelAssumption == MaxLevels \in Nat \ {0}

VARIABLES
  executors,   \* the runtimes of the harness's executors
  levels       \* the functions under way, the innermost last

execVars == <<made, user, fields, descs, hostModules, dropping, live, needs,
              executors, levels>>

Phases == {"new", "hosted", "ready", "loaded", "isolated", "running", "unwinding"}

\* A function that builds an executor for the harness, or that runs a contract
\* on the executor of the harness or on one it built for this call only.
Kinds == {"build", "call", "nested"}

Level == [kind : Kinds, runtime : Runtime, locals : Seq(Obj), phase : Phases]

Current == levels[Len(levels)]
LastLocal == Current.locals[Len(Current.locals)]
ButLast(s) == SubSeq(s, 1, Len(s) - 1)
At(phase) == Idle /\ levels # <<>> /\ Current.phase = phase

LevelOf(kind, r, locals, phase) ==
  [kind |-> kind, runtime |-> r, locals |-> locals, phase |-> phase]

Continue(locals, phase) ==
  /\ levels' = [levels EXCEPT ![Len(levels)] =
                  LevelOf(Current.kind, Current.runtime, locals, phase)]
  /\ UNCHANGED executors

\* The name the next object of a kind gets.
NextName(o, kind) == o = CHOOSE x \in kind : Fresh(x)

\* Bound: what starts has a name left for every object it may create.
Room == \A kind \in {Runtime, Desc, HostModule, Module, Isolation, Instance} :
          \E o \in kind : Fresh(o)

-----------------------------------------------------------------------------
(* The harness, between two calls. *)

HarnessIdle == Idle /\ levels = <<>>

Begin(kind, r, locals, phase) ==
  /\ levels' = Append(levels, LevelOf(kind, r, locals, phase))
  /\ UNCHANGED executors

BuildExecutor ==
  /\ HarnessIdle /\ Room
  /\ \E r \in Runtime : NextName(r, Runtime) /\ NewRuntime(r) /\ Begin("build", r, <<r>>, "new")

CallOnExecutor(r) ==
  /\ HarnessIdle /\ Room /\ r \in executors
  /\ Begin("call", r, <<>>, "ready")
  /\ UNCHANGED vars

DropExecutor(r) ==
  /\ HarnessIdle /\ r \in executors
  /\ DropHandle(r)
  /\ executors' = executors \ {r}
  /\ UNCHANGED levels

-----------------------------------------------------------------------------
(* ContractExecutor::new. *)

\* The guest of the current level calls or creates a contract.
GuestCalls ==
  /\ At("running") /\ Len(levels) < MaxLevels /\ Room
  /\ \E r \in Runtime : NextName(r, Runtime) /\ NewRuntime(r) /\ Begin("nested", r, <<r>>, "new")

RegisterHostModule ==
  /\ At("new")
  /\ \E d \in Desc, h \in HostModule :
       /\ NextName(d, Desc) /\ NextName(h, HostModule)
       /\ CreateHostModule(Current.runtime, d, h)
       /\ \/ h \in made' /\ Continue(Append(Current.locals, h), "hosted")
          \/ h \notin made' /\ Continue(Current.locals, "unwinding")

\* new returns and drops its handle of the host module; the one of the runtime
\* moves into the executor.
FinishNew ==
  /\ At("hosted")
  /\ DropHandle(LastLocal)
  /\ \/ /\ Current.kind = "build"
        /\ executors' = executors \union {Current.runtime}
        /\ levels' = ButLast(levels)
     \/ /\ Current.kind = "nested"
        /\ Continue(ButLast(Current.locals), "ready")

-----------------------------------------------------------------------------
(* call_contract_function and deploy_contract. *)

Load ==
  /\ At("ready")
  /\ \E m \in Module :
       /\ NextName(m, Module) /\ LoadModule(Current.runtime, m)
       /\ Continue(Append(Current.locals, m), "loaded")

\* The engine refuses the code.
LoadRefused ==
  /\ At("ready") /\ Continue(Current.locals, "unwinding")
  /\ UNCHANGED vars

Isolate ==
  /\ At("loaded")
  /\ \E i \in Isolation :
       /\ NextName(i, Isolation) /\ NewIsolation(Current.runtime, i)
       /\ Continue(Append(Current.locals, i), "isolated")

\* The module and the isolation are the last two locals; the call takes the
\* isolation.
Instantiate ==
  LET kept == ButLast(Current.locals) IN
  /\ At("isolated")
  /\ \E n \in Instance :
       /\ NextName(n, Instance) /\ NewInstance(kept[Len(kept)], LastLocal, n)
       /\ Continue(Append(kept, n), "running")

InstantiateRefused ==
  LET kept == ButLast(Current.locals) IN
  /\ At("isolated")
  /\ NewInstanceRefused(kept[Len(kept)], LastLocal)
  /\ Continue(kept, "unwinding")

\* call_wasm_func returns, with a result or with the guest's trap.
GuestEnds ==
  /\ At("running") /\ Continue(Current.locals, "unwinding")
  /\ UNCHANGED vars

-----------------------------------------------------------------------------
(* The end of a level. *)

\* A variant that forgets the handle.
UnwindForgetting ==
  /\ At("unwinding") /\ Current.locals # <<>>
  /\ Continue(ButLast(Current.locals), "unwinding")
  /\ UNCHANGED vars

Unwind ==
  /\ At("unwinding") /\ Current.locals # <<>>
  /\ DropHandle(LastLocal)
  /\ Continue(ButLast(Current.locals), "unwinding")

Leave ==
  /\ At("unwinding") /\ Current.locals = <<>>
  /\ levels' = ButLast(levels)
  /\ UNCHANGED <<vars, executors>>

ContinueDrop == DropStep /\ UNCHANGED <<executors, levels>>

-----------------------------------------------------------------------------
ExecInit == Init /\ executors = {} /\ levels = <<>>

HarnessStep == BuildExecutor \/ \E r \in Runtime : CallOnExecutor(r) \/ DropExecutor(r)

LevelStep ==
  \/ GuestCalls \/ RegisterHostModule \/ FinishNew
  \/ Load \/ LoadRefused \/ Isolate \/ Instantiate \/ InstantiateRefused
  \/ GuestEnds \/ Unwind \/ Leave

Proceed == LevelStep \/ ContinueDrop

ExecNext == HarnessStep \/ Proceed

ExecSpec == ExecInit /\ [][ExecNext]_execVars

\* What has begun goes on; only the harness need not call again.
FairExecSpec == ExecSpec /\ WF_execVars(Proceed)

-----------------------------------------------------------------------------
(* Safety. *)

Placed(o) == o \in executors \/ \E k \in 1..Len(levels) : In(o, levels[k].locals)

\* No two local variables, of one level or of two, have the same handle.
Apart(L) ==
  \A k, l \in 1..Len(L) :
    \A i \in 1..Len(L[k].locals), j \in 1..Len(L[l].locals) :
      L[k].locals[i] = L[l].locals[j] => k = l /\ i = j

\* Each Rc in use is in one place, a local variable or an executor of the
\* harness, and none is forgotten: what the levels hold is what they will drop.
LevelsOK ==
  /\ executors \subseteq Runtime
  /\ levels \in Seq(Level) /\ Len(levels) <= MaxLevels
  /\ \A o \in Obj : (Holds(o) <=> Placed(o)) /\ user[o] <= 1
  /\ Apart(levels)
  /\ \A k \in 1..Len(levels) : \A o \in executors : ~In(o, levels[k].locals)

\* What the engine uses to run instance n.
Uses(objs) == objs \union UNION {needs[o] : o \in objs}
Reached(n) == Uses(Uses(Uses(Uses({n}))))

RunningInstance(k) == levels[k].locals[Len(levels[k].locals)]

\* Every guest on the stack, also one that waits in a host function for the
\* guests it called, still has its instance and all the engine runs it with,
\* among it a host module of its own runtime, whatever the levels above create,
\* fail to create and drop: the 'static reference of instance.rs:75 and the
\* dropped _host_module of contract_executor.rs:37 are good for the whole call.
RunningGuestsReachLiveObjects ==
  \A k \in 1..Len(levels) : levels[k].phase = "running" =>
    /\ Reached(RunningInstance(k)) \subseteq live
    /\ \E h \in HostModule :
         h \in Reached(RunningInstance(k)) /\ In(h, hostModules[levels[k].runtime])

\* Between two statements the engine has the modules, isolations and instances
\* of the levels under way and no others: whichever `?' ended a call, nothing
\* it created stays (contract_executor.rs:79-100).
NothingOfACallRemains ==
  Idle => \A o \in live \intersect (Module \union Isolation \union Instance) :
            \E k \in 1..Len(levels) : \E p \in Obj :
              In(p, levels[k].locals) /\ (o = p \/ In(o, fields[p]))

-----------------------------------------------------------------------------
(* Liveness. *)

\* A call of the harness comes back to the harness with all its levels unwound,
\* as long as the guests it runs return and make finitely many calls.
LevelsUnwind == levels # <<>> ~> HarnessIdle

=============================================================================
