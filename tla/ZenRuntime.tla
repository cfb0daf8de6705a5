----------------------------- MODULE ZenRuntime -----------------------------
(***************************************************************************)
(* The owners of the engine's objects: ZenRuntime, ZenHostModuleDesc,      *)
(* ZenHostModule, ZenModule, ZenIsolation and ZenInstance (src/src/core).  *)
(* Each wraps a pointer of the engine, lives in an Rc and holds Rcs of     *)
(* others; a runtime also holds the descs and host modules created on it.  *)
(* A wrapper no Rc refers to any more is dropped: it deletes its engine    *)
(* object and gives its own Rcs up one by one, which may drop others in    *)
(* turn.  One thread does all this; a drop runs to its end before the      *)
(* user's next call.                                                       *)
(*                                                                         *)
(* The engine is external: creating and loading may fail.  Wrappers are    *)
(* named by the engine object they wrap.                                   *)
(***************************************************************************)
EXTENDS Integers, Sequences, FiniteSets

CONSTANTS
  Runtime, Desc, HostModule, Module, Isolation, Instance,
  MaxHandles   \* bound on the user's Rcs of one object

Obj == Runtime \union Desc \union HostModule \union Module \union Isolation \union Instance

ASSUME KindAssumption ==
  /\ Runtime \intersect (Desc \union HostModule \union Module \union Isolation \union Instance) = {}
  /\ Desc \intersect (HostModule \union Module \union Isolation \union Instance) = {}
  /\ HostModule \intersect (Module \union Isolation \union Instance) = {}
  /\ Module \intersect (Isolation \union Instance) = {}
  /\ Isolation \intersect Instance = {}
ASSUME HandleAssumption == MaxHandles \in Nat \ {0}

VARIABLES
  made,         \* the wrappers created so far
  user,         \* how many Rcs of each the user holds
  fields,       \* the Rcs each wrapper holds, in the order it gives them up
  descs,        \* ZenRuntime.host_module_descs
  hostModules,  \* ZenRuntime.host_modules
  dropping,     \* the wrappers being dropped, the innermost last
  live,         \* the engine's objects
  needs         \* what the engine uses each of them through

ours == <<made, user, fields, descs, hostModules, dropping>>
vars == <<made, user, fields, descs, hostModules, dropping, live, needs>>

-----------------------------------------------------------------------------
(* Ownership. *)

In(o, s) == \E i \in 1..Len(s) : s[i] = o

\* A runtime keeps its descs and host modules.
Managed(o) == \E r \in Runtime : In(o, descs[r]) \/ In(o, hostModules[r])

\* The strong count of o is not zero, with the user's Rcs u and the fields f.
Owned(o, u, f) == u[o] > 0 \/ Managed(o) \/ \E p \in Obj : In(o, f[p])

\* A variant that looks at the user's Rcs only.
DropUnlessHeld(o, u, f) ==
  dropping' = IF u[o] > 0 THEN dropping ELSE Append(dropping, o)

\* A variant that drops the wrapper in a statement and again at the end of its scope.
DropUnlessOwnedTwice(o, u, f) ==
  dropping' = IF Owned(o, u, f) THEN dropping ELSE dropping \o <<o, o>>

\* After an Rc of o is gone: o's drop starts if it was the last one.
DropUnlessOwned(o, u, f) ==
  dropping' = IF Owned(o, u, f) THEN dropping ELSE Append(dropping, o)

Idle == dropping = <<>>
Top == dropping[Len(dropping)]
Fresh(o) == o \notin made
Holds(o) == user[o] > 0

\* A variant whose wrapper has no Rc of its last field.
MakeShort(o, fs, through) ==
  /\ made' = made \union {o}
  /\ fields' = [fields EXCEPT ![o] = SubSeq(fs, 1, Len(fs) - 1)]
  /\ live' = live \union {o}
  /\ needs' = [needs EXCEPT ![o] = through]

\* A new wrapper of o with these fields; the engine object uses `through'.
Make(o, fs, through) ==
  /\ made' = made \union {o}
  /\ fields' = [fields EXCEPT ![o] = fs]
  /\ live' = live \union {o}
  /\ needs' = [needs EXCEPT ![o] = through]

-----------------------------------------------------------------------------
(* The user's calls. *)

NewRuntime(r) ==
  /\ Idle /\ Fresh(r)
  /\ Make(r, <<>>, {})
  /\ user' = [user EXCEPT ![r] = 1]
  /\ UNCHANGED <<descs, hostModules, dropping>>

CreateHostModuleDesc(r, d) ==
  /\ Idle /\ Fresh(d) /\ Holds(r)
  /\ Make(d, <<r>>, {r})
  /\ descs' = [descs EXCEPT ![r] = Append(@, d)]
  /\ user' = [user EXCEPT ![d] = 1]
  /\ UNCHANGED <<hostModules, dropping>>

\* A failure is an Err without further effect.
LoadHostModule(r, d, h) ==
  /\ Idle /\ Fresh(h) /\ Holds(r) /\ Holds(d)
  /\ Make(h, <<r>>, {r, d})
  /\ hostModules' = [hostModules EXCEPT ![r] = Append(@, h)]
  /\ user' = [user EXCEPT ![h] = 1]
  /\ UNCHANGED <<descs, dropping>>

\* The engine objects of a failed or successful merge of desc d into the first
\* host module of r, whose result create_host_module ignores.
Merged(through, r, d) ==
  {through} \union
  IF hostModules[r] = <<>> THEN {}
  ELSE {[through EXCEPT ![hostModules[r][1]] = @ \union {d}]}

\* create_host_module: the desc, the merge, then the host module.  When the
\* load fails the call is an Err, but the desc stays, and so does the merge.
CreateHostModule(r, d, h) ==
  /\ Idle /\ Fresh(d) /\ Fresh(h) /\ Holds(r)
  /\ descs' = [descs EXCEPT ![r] = Append(@, d)]
  /\ \E through \in Merged([needs EXCEPT ![d] = {r}], r, d) :
       \/ /\ made' = made \union {d, h} /\ live' = live \union {d, h}
          /\ fields' = [fields EXCEPT ![d] = <<r>>, ![h] = <<r>>]
          /\ needs' = [through EXCEPT ![h] = {r, d}]
          /\ hostModules' = [hostModules EXCEPT ![r] = Append(@, h)]
          /\ user' = [user EXCEPT ![h] = 1]
       \/ /\ made' = made \union {d} /\ live' = live \union {d}
          /\ fields' = [fields EXCEPT ![d] = <<r>>]
          /\ needs' = through
          /\ UNCHANGED <<hostModules, user>>
  /\ UNCHANGED dropping

\* merge_host_module by the user: h's table then refers to d's functions.
MergeHostModule(r, h, d) ==
  /\ Idle /\ Holds(r) /\ Holds(h) /\ Holds(d)
  /\ needs' = [needs EXCEPT ![h] = @ \union {d}]
  /\ UNCHANGED <<ours, live>>

\* load_module and load_module_from_bytes: imports are resolved against the
\* host modules of the runtime.
LoadModule(r, m) ==
  /\ Idle /\ Fresh(m) /\ Holds(r)
  /\ Make(m, <<r>>, {r} \union {h \in HostModule : In(h, hostModules[r])})
  /\ user' = [user EXCEPT ![m] = 1]
  /\ UNCHANGED <<descs, hostModules, dropping>>

NewIsolation(r, i) ==
  /\ Idle /\ Fresh(i) /\ Holds(r)
  /\ Make(i, <<r>>, {r})
  /\ user' = [user EXCEPT ![i] = 1]
  /\ UNCHANGED <<descs, hostModules, dropping>>

\* The Rc of the isolation moves into the call: into the instance, or, when the
\* engine refuses, nowhere.
NewInstance(m, i, n) ==
  /\ Idle /\ Fresh(n) /\ Holds(m) /\ Holds(i)
  /\ Make(n, <<i, m, fields[m][1]>>, {i, m, fields[m][1]})
  /\ user' = [user EXCEPT ![i] = @ - 1, ![n] = 1]
  /\ UNCHANGED <<descs, hostModules, dropping>>

\* A variant that takes the isolation and forgets it.
NewInstanceRefusedForgetting(m, i) ==
  /\ Idle /\ Holds(m) /\ Holds(i)
  /\ user' = [user EXCEPT ![i] = @ - 1]
  /\ UNCHANGED <<made, fields, descs, hostModules, dropping, live, needs>>

NewInstanceRefused(m, i) ==
  LET u == [user EXCEPT ![i] = @ - 1] IN
  /\ Idle /\ Holds(m) /\ Holds(i)
  /\ user' = u
  /\ DropUnlessOwned(i, u, fields)
  /\ UNCHANGED <<made, fields, descs, hostModules, live, needs>>

CloneHandle(o) ==
  /\ Idle /\ Holds(o) /\ user[o] < MaxHandles
  /\ user' = [user EXCEPT ![o] = @ + 1]
  /\ UNCHANGED <<made, fields, descs, hostModules, dropping, live, needs>>

\* A variant that drops an Rc the user may no longer have.
DropHandleAgain(o) ==
  LET u == [user EXCEPT ![o] = @ - 1] IN
  /\ Idle /\ o \in live
  /\ user' = u
  /\ DropUnlessOwned(o, u, fields)
  /\ UNCHANGED <<made, fields, descs, hostModules, live, needs>>

DropHandle(o) ==
  LET u == [user EXCEPT ![o] = @ - 1] IN
  /\ Idle /\ Holds(o)
  /\ user' = u
  /\ DropUnlessOwned(o, u, fields)
  /\ UNCHANGED <<made, fields, descs, hostModules, live, needs>>

-----------------------------------------------------------------------------
(* Drop. *)

\* ZenDelete* on the engine object; a runtime clears its two lists first.
DeleteEngineObject ==
  /\ ~Idle /\ Top \in live
  /\ live' = live \ {Top}
  /\ descs' = [r \in Runtime |-> IF r = Top THEN <<>> ELSE descs[r]]
  /\ hostModules' = [r \in Runtime |-> IF r = Top THEN <<>> ELSE hostModules[r]]
  /\ UNCHANGED <<made, user, fields, dropping, needs>>

\* A variant that counts the field it has taken as an Rc still held.
ReleaseFieldKeeping ==
  /\ ~Idle /\ Top \notin live /\ fields[Top] # <<>>
  /\ DropUnlessOwned(Head(fields[Top]), user, fields)
  /\ UNCHANGED <<made, user, fields, descs, hostModules, live, needs>>

\* A variant that drops the Rc of a field and leaves the field as it is.
ReleaseFieldUncleared ==
  /\ ~Idle /\ Top \notin live /\ fields[Top] # <<>>
  /\ DropUnlessOwned(Head(fields[Top]), user, [fields EXCEPT ![Top] = Tail(@)])
  /\ UNCHANGED <<made, user, fields, descs, hostModules, live, needs>>

\* The next field becomes None, or is dropped with the struct.
ReleaseField ==
  /\ ~Idle /\ Top \notin live /\ fields[Top] # <<>>
  /\ LET f == [fields EXCEPT ![Top] = Tail(@)] IN
     /\ fields' = f
     /\ DropUnlessOwned(Head(fields[Top]), user, f)
  /\ UNCHANGED <<made, user, descs, hostModules, live, needs>>

EndDrop ==
  /\ ~Idle /\ Top \notin live /\ fields[Top] = <<>>
  /\ dropping' = SubSeq(dropping, 1, Len(dropping) - 1)
  /\ UNCHANGED <<made, user, fields, descs, hostModules, live, needs>>

DropStep == DeleteEngineObject \/ ReleaseField \/ EndDrop

-----------------------------------------------------------------------------
Init ==
  /\ made = {} /\ live = {} /\ dropping = <<>>
  /\ user = [o \in Obj |-> 0]
  /\ fields = [o \in Obj |-> <<>>]
  /\ descs = [r \in Runtime |-> <<>>]
  /\ hostModules = [r \in Runtime |-> <<>>]
  /\ needs = [o \in Obj |-> {}]

UserCall ==
  \/ \E r \in Runtime :
       \/ NewRuntime(r)
       \/ \E d \in Desc : CreateHostModuleDesc(r, d)
       \/ \E d \in Desc, h \in HostModule :
            LoadHostModule(r, d, h) \/ CreateHostModule(r, d, h) \/ MergeHostModule(r, h, d)
       \/ \E m \in Module : LoadModule(r, m)
       \/ \E i \in Isolation : NewIsolation(r, i)
  \/ \E m \in Module, i \in Isolation :
       NewInstanceRefused(m, i) \/ \E n \in Instance : NewInstance(m, i, n)
  \/ \E o \in Obj : CloneHandle(o) \/ DropHandle(o)

Next == UserCall \/ DropStep

Spec == Init /\ [][Next]_vars

\* A drop that has started goes on by itself.
FairSpec == Spec /\ WF_vars(DropStep)

-----------------------------------------------------------------------------
(* Safety. *)

\* The variables range over what the Rust types allow.
TypeOK ==
  /\ made \subseteq Obj /\ live \subseteq made
  /\ user \in [Obj -> 0..MaxHandles]
  /\ fields \in [Obj -> Seq(Obj)]
  /\ descs \in [Runtime -> Seq(Desc)] /\ hostModules \in [Runtime -> Seq(HostModule)]
  /\ dropping \in Seq(made)
  /\ needs \in [Obj -> SUBSET Obj]

\* A wrapper some Rc refers to, the user's, a field or a runtime's list, still
\* has its engine object, however the handles were cloned, moved into instances
\* and dropped (instance.rs:36-50, runtime.rs:263-273).
OwnedObjectsLive == \A o \in Obj : Owned(o, user, fields) => o \in live

\* Between the user's calls no module, isolation or instance outlives its last
\* Rc, also where creating an instance failed and swallowed the isolation
\* (instance.rs:44, runtime.rs:286-302).
UnownedObjectsDeleted ==
  Idle => \A o \in made : ~Owned(o, user, fields) => o \notin live

\* The engine sees no deletion of an object that others it has still need, and
\* no creation from a deleted one.
Engine == INSTANCE EngineHandles
RespectsEngine == Engine!Spec

-----------------------------------------------------------------------------
(* The inductive invariant behind the safety theorems. *)

\* A wrapper whose drop has started has no Rc left, and gets none.
DropsUnowned == \A o \in Obj : In(o, dropping) => ~Owned(o, user, fields)

\* Whatever lives is kept by an Rc, or its turn in the drop will come.
LiveOwnedOrDropping == \A o \in live : Owned(o, user, fields) \/ In(o, dropping)

\* Only wrappers have fields.
FieldsOfMade == \A p, o \in Obj : In(o, fields[p]) => p \in made

\* What a runtime lists has an Rc of that runtime: the cycle of runtime.rs:141.
ListedHoldRuntime ==
  \A r \in Runtime, o \in Obj :
    In(o, descs[r]) \/ In(o, hostModules[r]) => In(r, fields[o])

\* A module has its runtime for as long as instances can be made of it.
ModulesHoldRuntime == \A m \in Module \intersect live : fields[m] # <<>>

\* What the engine uses an object through is kept by the object's wrapper, or by
\* the list of a runtime.
NeedsKept == \A o \in live : \A x \in needs[o] : In(x, fields[o]) \/ Managed(x)

DescsListed == \A d \in Desc \intersect live : Managed(d)

IInv ==
  /\ TypeOK /\ OwnedObjectsLive
  /\ DropsUnowned /\ LiveOwnedOrDropping
  /\ FieldsOfMade /\ ListedHoldRuntime /\ ModulesHoldRuntime
  /\ NeedsKept /\ DescsListed

-----------------------------------------------------------------------------
(* Action properties. *)

\* The drop of a wrapper starts while its engine object exists, and only once,
\* whichever of its Rcs go in the middle of other drops: no pointer is handed to
\* ZenDelete* a second time (instance.rs:40, runtime.rs:30, isolation.rs:17).
DroppedOnce ==
  [][Len(dropping') > Len(dropping) =>
       \E o \in live : dropping' = Append(dropping, o) /\ ~In(o, dropping)]_vars

\* An instance has Rcs of its isolation, its module and its runtime.
MaxFields == 3

\* What a drop can still do: delete each object, release each field, which may
\* start a drop, and end each drop that has started.
FieldsLeft == {p \in made \X (1..MaxFields) : p[2] <= Len(fields[p[1]])}
DropWork == Cardinality(live) + 2 * Cardinality(FieldsLeft) + Len(dropping)

\* Every step of a drop leaves less to do, whatever other wrappers it takes along:
\* Rcs released by a drop do not start it again in a circle (instance.rs:44).
DropsRunOut == [][~Idle => DropWork' < DropWork]_vars

\* What makes it a number, for any number of names: what was made is finite.
WorkBounded == IsFiniteSet(made) /\ \A o \in Obj : Len(fields[o]) <= MaxFields

-----------------------------------------------------------------------------
(* Liveness. *)

\* The drop of the last Rc comes to an end, however many wrappers it takes
\* along: no chain of Rcs is dropped in a circle.
DropsConclude == ~Idle ~> Idle

-----------------------------------------------------------------------------
(* What the documentation says and the code does not do. *)

\* Descs and host modules "must live until runtime freed" (runtime.rs:20), by
\* the Drop of a runtime whose last handle is gone: with no handle left, nothing
\* is left in the engine.
NothingLeftBehind == (Idle /\ \A o \in Obj : user[o] = 0) => live = {}

=============================================================================
