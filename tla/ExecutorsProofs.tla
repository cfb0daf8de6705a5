-------------------------- MODULE ExecutorsProofs --------------------------
(***************************************************************************)
(* Executors and nested calls use the engine's objects as ZenRuntime says, *)
(* so that what is proved there holds for them, and no guest on the stack  *)
(* loses what it runs with, for any number of executors, calls and levels. *)
(*                                                                         *)
(* A level edits the stack in few ways: it appends, drops or replaces the  *)
(* last local of the innermost level, or it comes or goes with that level. *)
(***************************************************************************)
EXTENDS Executors, ZenRuntimeProofs

-----------------------------------------------------------------------------
(* The inductive invariant. *)

\* The module a level runs, or is about to.
ModuleAt(l) == l.locals[IF l.phase = "loaded" THEN Len(l.locals) ELSE Len(l.locals) - 1]

\* What the locals of level l are, by the statement it has reached.
Shape(l) ==
  LET n == Len(l.locals) IN
  /\ l.phase = "new" => l.locals = <<l.runtime>>
  /\ l.phase = "hosted" => n = 2 /\ l.locals[1] = l.runtime
  /\ l.phase = "loaded" => n > 0 /\ l.locals[n] \in Module
  /\ l.phase = "isolated" =>
       n > 1 /\ l.locals[n - 1] \in Module /\ l.locals[n] \in Isolation
  /\ l.phase = "running" =>
       n > 1 /\ l.locals[n - 1] \in Module /\ l.locals[n] \in Instance

\* Every level has the shape of its phase.
Shapes ==
  /\ \A k \in 1..Len(levels) : Shape(levels[k])
  /\ \A k \in 1..Len(levels) : k < Len(levels) => levels[k].phase = "running"

\* The runtime of a level is kept by the level, or by one of the executors e.
RuntimeKept(l, e) ==
  l.phase \in {"ready", "loaded", "isolated", "running"} =>
    l.runtime \in e \/ In(l.runtime, l.locals)

\* In the lists of host modules hm.
HasHost(r, hm) == \E h \in HostModule : In(h, hm[r])

\* The host module of a level, and how the engine gets at it with needs nd.
HostKept(l, hm, nd) ==
  /\ l.phase \in {"hosted", "ready"} => HasHost(l.runtime, hm)
  /\ l.phase \in {"loaded", "isolated", "running"} =>
       \E h \in HostModule : In(h, hm[l.runtime]) /\ h \in nd[ModuleAt(l)]
  /\ l.phase = "running" => ModuleAt(l) \in nd[l.locals[Len(l.locals)]]

\* Every runtime in use keeps its host module listed.
HostsKept ==
  /\ \A r \in executors : HasHost(r, hostModules)
  /\ \A k \in 1..Len(levels) :
       RuntimeKept(levels[k], executors) /\ HostKept(levels[k], hostModules, needs)

\* The inductive invariant.
EInv == IInv /\ LevelsOK /\ Shapes /\ HostsKept

-----------------------------------------------------------------------------
(* The innermost level. *)

\* The innermost level has a type and a shape.
LEMMA CurrentProperties ==
  ASSUME EInv, levels # <<>>
  PROVE  /\ Len(levels) \in Nat \ {0} /\ Len(levels) \in 1..Len(levels)
         /\ Current \in Level /\ Shape(Current)
         /\ Current.runtime \in Runtime /\ Current.locals \in Seq(Obj)
         /\ Len(Current.locals) \in Nat
<1>1. levels \in Seq(Level)
  BY DEF EInv, LevelsOK
<1>2. Len(levels) \in Nat \ {0} /\ Len(levels) \in 1..Len(levels)
  BY <1>1, EmptySeq, LenProperties
<1>3. Current \in Level
  BY <1>1, <1>2, ElementOfSeq DEF Current
<1>4. Shape(Current)
  BY <1>2 DEF EInv, Shapes, Current
<1> QED
  BY <1>2, <1>3, <1>4, LenProperties DEF Level

\* What is dropped, or used to create an instance, has the right kind.
LEMMA LocalsProperties ==
  ASSUME EInv, levels # <<>>
  PROVE  /\ Current.locals # <<>> =>
              /\ LastLocal \in Obj /\ In(LastLocal, Current.locals)
              /\ ButLast(Current.locals) \in Seq(Obj)
              /\ Len(Current.locals) \in Nat \ {0}
              /\ Len(ButLast(Current.locals)) = Len(Current.locals) - 1
              /\ \A j \in 1..Len(Current.locals) - 1 :
                   ButLast(Current.locals)[j] = Current.locals[j]
         /\ Current.phase \in {"hosted", "loaded", "isolated", "running"} =>
              Current.locals # <<>>
         /\ Current.phase = "isolated" =>
              /\ LastLocal \in Isolation
              /\ ButLast(Current.locals)[Len(ButLast(Current.locals))] \in Module
              /\ ButLast(Current.locals) # <<>>
<1> DEFINE s == Current.locals
<1>1. s \in Seq(Obj) /\ Shape(Current)
  BY CurrentProperties
<1>2. ASSUME s # <<>>
      PROVE  /\ Len(s) \in Nat \ {0} /\ s[Len(s)] \in Obj /\ In(s[Len(s)], s)
             /\ ButLast(s) \in Seq(Obj) /\ Len(ButLast(s)) = Len(s) - 1
             /\ \A j \in 1..Len(s) - 1 : ButLast(s)[j] = s[j]
  <2>1. Len(s) \in Nat \ {0}
    BY <1>1, <1>2, EmptySeq, LenProperties
  <2>2. s[Len(s)] \in Obj /\ In(s[Len(s)], s)
    BY <1>1, <1>2, InFront
  <2>3. /\ SubSeq(s, 1, Len(s) - 1) \in Seq(Obj) /\ Len(SubSeq(s, 1, Len(s) - 1)) = Len(s) - 1
        /\ \A j \in 1..Len(s) - 1 : SubSeq(s, 1, Len(s) - 1)[j] = s[j]
    <3> DEFINE n == Len(s) - 1
    <3>1. n \in Nat /\ n <= Len(s)
      BY <2>1
    <3> HIDE DEF n
    <3>2. /\ SubSeq(s, 1, n) \in Seq(Obj) /\ Len(SubSeq(s, 1, n)) = n
          /\ \A j \in 1..n : SubSeq(s, 1, n)[j] = s[j]
      BY <1>1, <3>1, PrefixProperties
    <3> QED
      BY <3>2 DEF n
  <2> QED
    BY <2>1, <2>2, <2>3 DEF ButLast
<1>3. Current.phase \in {"hosted", "loaded", "isolated", "running"} => Len(s) > 0
  <2>1. Current.phase = "hosted" => Len(s) > 0
    BY <1>1 DEF Shape
  <2>2. Len(s) > 1 => Len(s) > 0
    BY <1>1, LenProperties
  <2> QED
    BY <1>1, <2>1, <2>2 DEF Shape
<1>4. Current.phase \in {"hosted", "loaded", "isolated", "running"} => s # <<>>
  BY <1>3, EmptySeq
<1>5. Current.phase = "isolated" =>
        /\ Len(s) > 1 /\ s[Len(s) - 1] \in Module /\ s[Len(s)] \in Isolation
  BY <1>1 DEF Shape
<1>6. Current.phase = "isolated" =>
        /\ ButLast(s)[Len(ButLast(s))] \in Module
        /\ ButLast(s) # <<>>
  BY <1>2, <1>4, <1>5, EmptySeq
<1> QED
  BY <1>2, <1>4, <1>5, <1>6 DEF LastLocal

-----------------------------------------------------------------------------
(* The steps are steps of ZenRuntime. *)

\* Whatever the levels do, they use the engine's wrappers by the user's calls of
\* ZenRuntime, with arguments of the right kind.
LEMMA StepIsRuntimeStep == EInv /\ [ExecNext]_execVars => [Next]_vars
<1> SUFFICES ASSUME EInv, [ExecNext]_execVars
             PROVE  Next \/ UNCHANGED vars
  OBVIOUS
<1>1. ASSUME levels # <<>>
      PROVE  Current.runtime \in Runtime
  BY <1>1, CurrentProperties
<1>2. CASE BuildExecutor \/ GuestCalls
  BY <1>2 DEF BuildExecutor, GuestCalls, Next, UserCall
<1>3. CASE \E r \in Runtime : CallOnExecutor(r)
  BY <1>3 DEF CallOnExecutor
<1>4. CASE \E r \in Runtime : DropExecutor(r)
  BY <1>4 DEF DropExecutor, Next, UserCall, Obj
<1>5. CASE RegisterHostModule
  BY <1>1, <1>5 DEF RegisterHostModule, At, Next, UserCall
<1>6. CASE FinishNew \/ Unwind
  <2>1. LastLocal \in Obj /\ DropHandle(LastLocal)
    BY <1>6, LocalsProperties DEF FinishNew, Unwind, At
  <2> QED
    BY <2>1 DEF Next, UserCall
<1>7. CASE Load
  BY <1>1, <1>7 DEF Load, At, Next, UserCall
<1>8. CASE LoadRefused \/ GuestEnds \/ Leave
  BY <1>8 DEF LoadRefused, GuestEnds, Leave
<1>9. CASE Isolate
  BY <1>1, <1>9 DEF Isolate, At, Next, UserCall
<1>10. CASE Instantiate \/ InstantiateRefused
  <2> DEFINE kept == ButLast(Current.locals)
             m == kept[Len(kept)]
  <2>1. At("isolated")
    BY <1>10 DEF Instantiate, InstantiateRefused
  <2>2. m \in Module /\ LastLocal \in Isolation
    BY <2>1, LocalsProperties DEF At
  <2>3. NewInstanceRefused(m, LastLocal) \/ \E n \in Instance : NewInstance(m, LastLocal, n)
    BY <1>10 DEF Instantiate, InstantiateRefused
  <2> HIDE DEF m
  <2> QED
    BY <2>2, <2>3 DEF Next, UserCall
<1>11. CASE ContinueDrop
  BY <1>11 DEF ContinueDrop, Next
<1>12. CASE UNCHANGED execVars
  BY <1>12 DEF execVars, vars
<1> QED
  BY <1>2, <1>3, <1>4, <1>5, <1>6, <1>7, <1>8, <1>9, <1>10, <1>11, <1>12
     DEF ExecNext, HarnessStep, LevelStep, Proceed

\* What the engine uses a living object through stays, and so do the host
\* modules a runtime lists, for as long as an Rc of the runtime is left.
LEMMA StepKeepsUses ==
  ASSUME IInv, [Next]_vars
  PROVE  /\ \A o \in live : needs[o] \subseteq needs'[o]
         /\ \A r \in Runtime : Owned(r, user, fields) =>
              \A h \in HostModule : In(h, hostModules[r]) => In(h, hostModules'[r])
<1>1. CASE UserCall
  <2>1. CASE \E new : Grows(new)
    <3>1. HostModule \subseteq Obj
      BY DEF Obj
    <3> QED
      BY <2>1, <3>1 DEF Grows
  <2>2. CASE \E o : Loses(o)
    BY <2>2 DEF Loses
  <2> QED
    BY <1>1, <2>1, <2>2, UserCallGrowsOrLoses
<1>2. CASE DeleteEngineObject
  <2>1. ~Owned(Top, user, fields)
    BY <1>2, TopProperties DEF DeleteEngineObject
  <2> QED
    BY <1>2, <2>1 DEF DeleteEngineObject
<1>3. CASE ReleaseField \/ EndDrop \/ UNCHANGED vars
  BY <1>3 DEF ReleaseField, EndDrop, vars
<1> QED
  BY <1>1, <1>2, <1>3 DEF Next, DropStep

\* What a level or an executor has a handle of is owned, and lives.
LEMMA PlacedProperties ==
  ASSUME EInv
  PROVE  \A o \in Obj : Placed(o) => Owned(o, user, fields) /\ o \in live
BY HeldLive DEF EInv, LevelsOK, Holds, Owned

\* The runtimes of executors keep their host modules.
LEMMA ExecutorsKeepHosts ==
  ASSUME EInv, [Next]_vars
  PROVE  \A r \in executors : HasHost(r, hostModules')
<1> SUFFICES ASSUME NEW r \in executors
             PROVE  HasHost(r, hostModules')
  OBVIOUS
<1>1. r \in Runtime /\ r \in Obj
  BY DEF EInv, LevelsOK, Obj
<1>2. Owned(r, user, fields)
  BY <1>1, PlacedProperties DEF Placed
<1>3. IInv /\ HasHost(r, hostModules)
  BY DEF EInv, HostsKept
<1> QED
  BY <1>1, <1>2, <1>3, StepKeepsUses DEF HasHost

\* So do the levels that a step leaves as they are.
LEMMA LevelsKeepHosts ==
  ASSUME EInv, [Next]_vars
  PROVE  \A k \in 1..Len(levels) : HostKept(levels[k], hostModules', needs')
<1> SUFFICES ASSUME NEW k \in 1..Len(levels)
             PROVE  HostKept(levels[k], hostModules', needs')
  OBVIOUS
<1> DEFINE l == levels[k]
<1>1. l \in Level /\ l.runtime \in Runtime /\ l.runtime \in Obj /\ l.locals \in Seq(Obj)
  <2>1. l \in Level
    BY ElementOfSeq DEF EInv, LevelsOK
  <2> QED
    BY <2>1 DEF Level, Obj
<1>2. IInv /\ Shape(l) /\ RuntimeKept(l, executors) /\ HostKept(l, hostModules, needs)
  BY DEF EInv, Shapes, HostsKept
<1>3. \A x \in Obj : In(x, l.locals) => x \in live /\ Owned(x, user, fields)
  BY PlacedProperties DEF Placed
<1> HIDE DEF l
<1>4. l.phase \in {"ready", "loaded", "isolated", "running"} => Owned(l.runtime, user, fields)
  <2>1. l.runtime \in executors => Owned(l.runtime, user, fields)
    BY <1>1, PlacedProperties DEF Placed
  <2> QED
    BY <1>1, <1>2, <1>3, <2>1 DEF RuntimeKept
<1>5. l.phase = "hosted" => Owned(l.runtime, user, fields)
  <2>1. l.phase = "hosted" => In(l.runtime, l.locals)
    BY <1>2 DEF Shape, In
  <2> QED
    BY <1>1, <1>3, <2>1
<1>6. l.phase \in {"loaded", "isolated", "running"} => ModuleAt(l) \in live
  <2>1. Len(l.locals) \in Nat
    BY <1>1, LenProperties
  <2>2. \A j \in 1..Len(l.locals) : l.locals[j] \in live
    BY <1>1, <1>3, ElementOfSeq DEF In
  <2> QED
    BY <1>2, <2>1, <2>2 DEF Shape, ModuleAt
<1>7. l.phase = "running" => l.locals[Len(l.locals)] \in live
  <2>1. Len(l.locals) \in Nat
    BY <1>1, LenProperties
  <2>2. \A j \in 1..Len(l.locals) : l.locals[j] \in live
    BY <1>1, <1>3, ElementOfSeq DEF In
  <2> QED
    BY <1>2, <2>1, <2>2 DEF Shape
<1>8. /\ l.phase \in {"hosted", "ready"} => HasHost(l.runtime, hostModules')
      /\ l.phase \in {"loaded", "isolated", "running"} =>
           \E h \in HostModule : In(h, hostModules'[l.runtime]) /\ h \in needs'[ModuleAt(l)]
      /\ l.phase = "running" => ModuleAt(l) \in needs'[l.locals[Len(l.locals)]]
  BY <1>1, <1>2, <1>4, <1>5, <1>6, <1>7, StepKeepsUses DEF HostKept, HasHost
<1>9. HostKept(l, hostModules', needs')
  BY <1>8 DEF HostKept
<1> QED
  BY <1>9 DEF l

-----------------------------------------------------------------------------
(* A step of the innermost level. *)

\* What is held outside the locals of the innermost level.
Elsewhere(o) ==
  o \in executors \/ \E k \in 1..Len(levels) : k < Len(levels) /\ In(o, levels[k].locals)

\* With locals s in the innermost level each handle is held once.
Edited(s) ==
  /\ s \in Seq(Obj)
  /\ \A j \in 1..Len(s) :
       \/ j \in 1..Len(Current.locals) /\ s[j] = Current.locals[j]
       \/ j = Len(s) /\ ~Placed(s[j])
  /\ \A o \in Obj : (user'[o] > 0 <=> Elsewhere(o) \/ In(o, s)) /\ user'[o] <= 1

\* The stack after the innermost level went on.
LEMMA ContinueProperties ==
  ASSUME EInv, levels # <<>>, NEW s \in Seq(Obj), NEW ph \in Phases, Continue(s, ph)
  PROVE  /\ levels' \in Seq(Level) /\ Len(levels') = Len(levels) /\ executors' = executors
         /\ \A k \in 1..Len(levels) : k # Len(levels) => levels'[k] = levels[k]
         /\ levels'[Len(levels)] = LevelOf(Current.kind, Current.runtime, s, ph)
<1> DEFINE N == Len(levels)
           l == LevelOf(Current.kind, Current.runtime, s, ph)
<1>1. levels \in Seq(Level) /\ N \in Nat \ {0} /\ N \in 1..N /\ Current \in Level
  BY CurrentProperties DEF EInv, LevelsOK
<1>2. l \in Level
  BY <1>1 DEF Level, LevelOf
<1>3. levels' = [levels EXCEPT ![N] = l]
  BY DEF Continue
<1> HIDE DEF l
<1>4. /\ levels' \in Seq(Level) /\ Len(levels') = N
      /\ \A k \in 1..N : levels'[k] = IF k = N THEN l ELSE levels[k]
  BY <1>1, <1>2, <1>3, ExceptSeq
<1> QED
  BY <1>1, <1>4 DEF l, Continue

\* The handles stay in one place each.
LEMMA ContinueKeepsLevelsOK ==
  ASSUME EInv, levels # <<>>, NEW s, NEW ph \in Phases, Edited(s), Continue(s, ph)
  PROVE  LevelsOK'
<1> DEFINE N == Len(levels)
<1>1. s \in Seq(Obj)
  BY DEF Edited
<1>2. /\ levels' \in Seq(Level) /\ Len(levels') = N /\ executors' = executors
      /\ \A k \in 1..N : k # N => levels'[k] = levels[k]
      /\ levels'[N] = LevelOf(Current.kind, Current.runtime, s, ph)
  BY <1>1, ContinueProperties
<1>3. /\ N \in Nat \ {0} /\ N \in 1..N /\ N <= MaxLevels /\ levels[N] = Current
      /\ levels'[N].locals = s
  BY <1>2, CurrentProperties DEF EInv, LevelsOK, Current, LevelOf
<1>4. \A o \in Obj : Placed(o)' <=> Elsewhere(o) \/ In(o, s)
  <2>1. \A o : (\E k \in 1..N : In(o, levels'[k].locals))
               <=> In(o, s) \/ \E k \in 1..N : k < N /\ In(o, levels[k].locals)
    <3>1. \A k \in 1..N : k < N <=> k # N
      BY <1>3
    <3> QED
      BY <1>2, <1>3, <3>1
  <2> QED
    BY <1>2, <2>1 DEF Placed, Elsewhere
<1>5. \A o \in Obj : (Holds(o)' <=> Placed(o)') /\ user'[o] <= 1
  BY <1>4 DEF Edited, Holds
<1>6. Apart(levels')
  <2> SUFFICES ASSUME NEW k \in 1..N, NEW l \in 1..N,
                      NEW i \in 1..Len(levels'[k].locals), NEW j \in 1..Len(levels'[l].locals),
                      levels'[k].locals[i] = levels'[l].locals[j]
               PROVE  k = l /\ i = j
    BY <1>2 DEF Apart
  <2>1. Apart(levels)
    BY DEF EInv, LevelsOK
  <2>2. \A n \in 1..N : \A m \in 1..Len(levels[n].locals) : Placed(levels[n].locals[m])
    BY DEF Placed, In
  <2>3. ASSUME NEW n \in 1..N, NEW m \in 1..Len(levels'[n].locals)
        PROVE  \/ /\ m \in 1..Len(levels[n].locals)
                  /\ levels'[n].locals[m] = levels[n].locals[m]
               \/ n = N /\ m = Len(s) /\ ~Placed(levels'[n].locals[m])
    <3>1. CASE n # N
      BY <1>2, <3>1
    <3>2. CASE n = N
      BY <1>2, <1>3, <3>2 DEF Edited
    <3> QED
      BY <3>1, <3>2
  <2>4. CASE Placed(levels'[k].locals[i])
    <3>1. /\ i \in 1..Len(levels[k].locals) /\ levels'[k].locals[i] = levels[k].locals[i]
          /\ j \in 1..Len(levels[l].locals) /\ levels'[l].locals[j] = levels[l].locals[j]
      BY <2>3, <2>4
    <3>2. levels[k].locals[i] = levels[l].locals[j]
      BY <3>1
    <3> QED
      BY <2>1, <3>1, <3>2 DEF Apart
  <2>5. CASE ~Placed(levels'[k].locals[i])
    <3>1. k = N /\ i = Len(s)
      BY <2>2, <2>3, <2>5
    <3>2. l = N /\ j = Len(s)
      BY <2>2, <2>3, <2>5
    <3> QED
      BY <3>1, <3>2
  <2> QED
    BY <2>4, <2>5
<1>7. \A k \in 1..N : \A o \in executors : ~In(o, levels'[k].locals)
  <2> SUFFICES ASSUME NEW k \in 1..N, NEW o \in executors, In(o, levels'[k].locals)
               PROVE  FALSE
    OBVIOUS
  <2>1. \A n \in 1..N : ~In(o, levels[n].locals)
    BY DEF EInv, LevelsOK
  <2>2. CASE k # N
    BY <1>2, <2>1, <2>2
  <2>3. CASE k = N
    <3>1. PICK j \in 1..Len(s) : s[j] = o
      BY <1>3, <2>3 DEF In
    <3>2. Placed(o)
      BY DEF Placed
    <3> QED
      BY <1>3, <2>1, <3>1, <3>2 DEF Edited, In
  <2> QED
    BY <2>2, <2>3
<1> QED
  BY <1>2, <1>3, <1>5, <1>6, <1>7 DEF EInv, LevelsOK

\* A step of the innermost level preserves the invariant when the handles add up
\* and the level arrives in the right shape with its runtime and host module.
LEMMA ContinueKeepsEInv ==
  ASSUME EInv, levels # <<>>, [Next]_vars, NEW s, NEW ph \in Phases, Edited(s), Continue(s, ph),
         NEW l, l = LevelOf(Current.kind, Current.runtime, s, ph),
         Shape(l), RuntimeKept(l, executors), HostKept(l, hostModules', needs')
  PROVE  EInv'
<1> DEFINE N == Len(levels)
<1>1. /\ Len(levels') = N /\ executors' = executors
      /\ \A k \in 1..N : k # N => levels'[k] = levels[k]
      /\ levels'[N] = l
  BY ContinueProperties DEF Edited
<1>2. N \in Nat \ {0} /\ N \in 1..N
  BY CurrentProperties
<1>3. IInv'
  BY NextPreservesIInv DEF EInv
<1>4. LevelsOK'
  BY ContinueKeepsLevelsOK
<1>5. \A k \in 1..N : k # N => levels'[k] = levels[k] /\ k < N
  BY <1>1, <1>2
<1>6. Shapes'
  <2>1. \A k \in 1..N : Shape(levels'[k])
    <3> SUFFICES ASSUME NEW k \in 1..N
                 PROVE  Shape(levels'[k])
      OBVIOUS
    <3>1. CASE k = N
      BY <1>1, <3>1
    <3>2. CASE k # N
      BY <1>1, <3>2 DEF EInv, Shapes
    <3> QED
      BY <3>1, <3>2
  <2>2. \A k \in 1..N : k < N => levels'[k].phase = "running"
    BY <1>1, <1>2 DEF EInv, Shapes
  <2> QED
    BY <1>1, <2>1, <2>2 DEF Shapes, Shape
<1>7. HostsKept'
  <2>1. \A r \in executors : HasHost(r, hostModules')
    BY ExecutorsKeepHosts
  <2>2. \A k \in 1..N : RuntimeKept(levels'[k], executors)
                        /\ HostKept(levels'[k], hostModules', needs')
    <3> SUFFICES ASSUME NEW k \in 1..N
                 PROVE  RuntimeKept(levels'[k], executors)
                        /\ HostKept(levels'[k], hostModules', needs')
      OBVIOUS
    <3>1. CASE k = N
      BY <1>1, <3>1
    <3>2. CASE k # N
      <4>1. levels'[k] = levels[k]
        BY <1>1, <3>2
      <4>2. RuntimeKept(levels[k], executors)
        BY DEF EInv, HostsKept
      <4>3. HostKept(levels[k], hostModules', needs')
        BY LevelsKeepHosts
      <4> QED
        BY <4>1, <4>2, <4>3
    <3> QED
      BY <3>1, <3>2
  <2> QED
    BY <1>1, <2>1, <2>2 DEF HostsKept, HasHost, RuntimeKept, HostKept, ModuleAt
<1> QED
  BY <1>3, <1>4, <1>6, <1>7 DEF EInv

-----------------------------------------------------------------------------
(* The ways a level edits its locals. *)

\* A handle is in the innermost level or elsewhere.
LEMMA PlacedParts ==
  ASSUME EInv, levels # <<>>
  PROVE  \A o : Placed(o) <=> Elsewhere(o) \/ In(o, Current.locals)
<1>1. Len(levels) \in Nat \ {0} /\ \A k \in 1..Len(levels) : k < Len(levels) \/ k = Len(levels)
  BY CurrentProperties
<1>2. Len(levels) \in 1..Len(levels)
  BY <1>1
<1>3. \A o : (\E k \in 1..Len(levels) : In(o, levels[k].locals))
               <=> In(o, Current.locals)
                   \/ \E k \in 1..Len(levels) : k < Len(levels) /\ In(o, levels[k].locals)
  BY <1>1, <1>2 DEF Current
<1> QED
  BY <1>3 DEF Placed, Elsewhere

\* The last local is nowhere else.
LEMMA LastLocalOnce ==
  ASSUME EInv, levels # <<>>, Current.locals # <<>>
  PROVE  /\ ~Elsewhere(LastLocal)
         /\ \A o : In(o, ButLast(Current.locals)) <=> In(o, Current.locals) /\ o # LastLocal
<1> DEFINE N == Len(levels)
           s == Current.locals
           n == Len(s)
<1>1. /\ N \in Nat \ {0} /\ N \in 1..N /\ levels[N] = Current
      /\ s \in Seq(Obj) /\ n \in Nat \ {0} /\ n \in 1..n
      /\ Len(ButLast(s)) = n - 1
      /\ \A j \in 1..n - 1 : ButLast(s)[j] = s[j]
      /\ LastLocal = s[n]
  BY CurrentProperties, LocalsProperties DEF Current, LastLocal
<1>2. Apart(levels) /\ \A o \in executors : ~In(o, s)
  BY <1>1 DEF EInv, LevelsOK
<1>3. \A k \in 1..N : \A i \in 1..Len(levels[k].locals) : \A j \in 1..n :
        levels[k].locals[i] = s[j] => k = N /\ i = j
  BY <1>1, <1>2 DEF Apart
<1>4. ~Elsewhere(s[n])
  <2>1. s[n] \notin executors
    BY <1>1, <1>2 DEF In
  <2>2. ASSUME NEW k \in 1..N, k < N, NEW i \in 1..Len(levels[k].locals), levels[k].locals[i] = s[n]
        PROVE  FALSE
    BY <1>1, <1>3, <2>2
  <2> QED
    BY <2>1, <2>2 DEF Elsewhere, In
<1>5. \A i, j \in 1..n : s[i] = s[j] => i = j
  BY <1>1, <1>3
<1>6. \A o : In(o, ButLast(s)) <=> In(o, s) /\ o # s[n]
  <2>1. ASSUME NEW o, In(o, ButLast(s))
        PROVE  In(o, s) /\ o # s[n]
    <3>1. PICK j \in 1..n - 1 : s[j] = o
      BY <1>1, <2>1 DEF In
    <3>2. j \in 1..n /\ j # n
      BY <1>1, <3>1
    <3> QED
      BY <1>1, <1>5, <3>1, <3>2 DEF In
  <2>2. ASSUME NEW o, In(o, s), o # s[n]
        PROVE  In(o, ButLast(s))
    <3>1. PICK j \in 1..n : s[j] = o
      BY <2>2 DEF In
    <3>2. j \in 1..n - 1
      BY <1>1, <2>2, <3>1
    <3> QED
      BY <1>1, <3>1, <3>2 DEF In
  <2> QED
    BY <2>1, <2>2
<1> QED
  BY <1>1, <1>4, <1>6

\* A name no object has yet is held nowhere.
LEMMA FreshProperties ==
  ASSUME EInv
  PROVE  \A o \in Obj : Fresh(o) => ~Placed(o) /\ user[o] = 0
BY HeldLive DEF EInv, LevelsOK, IInv, TypeOK, Fresh, Holds

\* Nothing is appended, dropped or replaced.
LEMMA KeepsLocals ==
  ASSUME EInv, levels # <<>>, user' = user
  PROVE  Edited(Current.locals)
<1>1. Current.locals \in Seq(Obj)
  BY CurrentProperties
<1>2. \A o \in Obj : (user[o] > 0 <=> Placed(o)) /\ user[o] <= 1
  BY DEF EInv, LevelsOK, Holds
<1> QED
  BY <1>1, <1>2, PlacedParts DEF Edited

\* The handle of a new object is appended.
LEMMA AppendsLocal ==
  ASSUME EInv, levels # <<>>, NEW x \in Obj, Fresh(x), user' = [user EXCEPT ![x] = 1]
  PROVE  Edited(Append(Current.locals, x))
<1> DEFINE s == Current.locals
           t == Append(s, x)
<1>1. s \in Seq(Obj) /\ ~Placed(x) /\ user \in [Obj -> 0..MaxHandles]
  BY CurrentProperties, FreshProperties DEF EInv, IInv, TypeOK
<1>2. /\ t \in Seq(Obj) /\ Len(t) = Len(s) + 1 /\ t[Len(t)] = x
      /\ \A j \in 1..Len(s) : t[j] = s[j]
      /\ Len(s) \in Nat
      /\ \A o : In(o, t) <=> In(o, s) \/ o = x
  BY <1>1, AppendProperties, LenProperties, InAppend
<1> HIDE DEF t
<1>3. \A j \in 1..Len(t) :
        \/ j \in 1..Len(s) /\ t[j] = s[j]
        \/ j = Len(t) /\ ~Placed(t[j])
  <2> SUFFICES ASSUME NEW j \in 1..Len(t)
               PROVE  \/ j \in 1..Len(s) /\ t[j] = s[j]
                      \/ j = Len(t) /\ ~Placed(t[j])
    OBVIOUS
  <2>1. CASE j = Len(t)
    <3>1. t[j] = x
      BY <1>1, <1>2, <2>1
    <3> QED
      BY <1>1, <1>2, <2>1, <3>1
  <2>2. CASE j # Len(t)
    <3>1. Len(t) = Len(s) + 1 /\ Len(s) \in Nat
      BY <1>2
    <3>2. j \in 1..Len(s)
      BY <2>2, <3>1
    <3> QED
      BY <1>2, <3>2
  <2> QED
    BY <2>1, <2>2
<1>4. \A o \in Obj : (user[o] > 0 <=> Elsewhere(o) \/ In(o, s)) /\ user[o] <= 1
  BY PlacedParts DEF EInv, LevelsOK, Holds
<1>5. \A o \in Obj : (user'[o] > 0 <=> Elsewhere(o) \/ In(o, t)) /\ user'[o] <= 1
  BY <1>1, <1>2, <1>4
<1> QED
  BY <1>2, <1>3, <1>5 DEF Edited, t

\* The handle of the last local is dropped, or moved away.
LEMMA DropsLocal ==
  ASSUME EInv, levels # <<>>, Current.locals # <<>>, user' = [user EXCEPT ![LastLocal] = @ - 1]
  PROVE  Edited(ButLast(Current.locals))
<1> DEFINE s == Current.locals
           t == ButLast(s)
           y == LastLocal
<1>1. /\ y \in Obj /\ In(y, s) /\ t \in Seq(Obj) /\ Len(s) \in Nat \ {0}
      /\ Len(t) = Len(s) - 1 /\ \A j \in 1..Len(s) - 1 : t[j] = s[j]
  BY LocalsProperties
<1>2. ~Elsewhere(y) /\ \A o : In(o, t) <=> In(o, s) /\ o # y
  BY LastLocalOnce
<1>3. \A o \in Obj : (user[o] > 0 <=> Elsewhere(o) \/ In(o, s)) /\ user[o] <= 1
  BY PlacedParts DEF EInv, LevelsOK, Holds
<1>4. user \in [Obj -> 0..MaxHandles] /\ \A o \in Obj : user[o] \in Nat
  BY HandleAssumption DEF EInv, IInv, TypeOK
<1> HIDE DEF y
<1>5. /\ user'[y] = 0
      /\ \A o \in Obj : o # y => user'[o] = user[o]
  BY <1>1, <1>3, <1>4 DEF y
<1>6. \A o \in Obj : (user'[o] > 0 <=> Elsewhere(o) \/ In(o, t)) /\ user'[o] <= 1
  BY <1>1, <1>2, <1>3, <1>5
<1> QED
  BY <1>1, <1>6 DEF Edited

\* The handle of a new object takes the place of the last local's.
LEMMA ReplacesLocal ==
  ASSUME EInv, levels # <<>>, Current.locals # <<>>, NEW x \in Obj, Fresh(x),
         user' = [user EXCEPT ![LastLocal] = @ - 1, ![x] = 1]
  PROVE  Edited(Append(ButLast(Current.locals), x))
<1> DEFINE s == Current.locals
           b == ButLast(s)
           t == Append(b, x)
           y == LastLocal
<1>1. /\ y \in Obj /\ In(y, s) /\ b \in Seq(Obj) /\ Len(s) \in Nat \ {0}
      /\ Len(b) = Len(s) - 1 /\ \A j \in 1..Len(s) - 1 : b[j] = s[j]
  BY LocalsProperties
<1>2. ~Elsewhere(y) /\ \A o : In(o, b) <=> In(o, s) /\ o # y
  BY LastLocalOnce
<1>3. \A o \in Obj : (user[o] > 0 <=> Elsewhere(o) \/ In(o, s)) /\ user[o] <= 1
  BY PlacedParts DEF EInv, LevelsOK, Holds
<1>4. user \in [Obj -> 0..MaxHandles] /\ \A o \in Obj : user[o] \in Nat
  BY HandleAssumption DEF EInv, IInv, TypeOK
<1>5. ~Placed(x) /\ user[x] = 0 /\ x # y
  BY <1>1, <1>3, FreshProperties
<1>6. /\ t \in Seq(Obj) /\ Len(t) = Len(s) /\ t[Len(t)] = x
      /\ \A j \in 1..Len(s) - 1 : t[j] = s[j]
      /\ \A o : In(o, t) <=> In(o, b) \/ o = x
  BY <1>1, AppendProperties, InAppend
<1> HIDE DEF t, y
<1>7. \A j \in 1..Len(t) :
        \/ j \in 1..Len(s) /\ t[j] = s[j]
        \/ j = Len(t) /\ ~Placed(t[j])
  <2> SUFFICES ASSUME NEW j \in 1..Len(t)
               PROVE  \/ j \in 1..Len(s) /\ t[j] = s[j]
                      \/ j = Len(t) /\ ~Placed(t[j])
    OBVIOUS
  <2>1. CASE j = Len(t)
    <3>1. t[j] = x
      BY <1>1, <1>5, <1>6, <2>1
    <3> QED
      BY <1>1, <1>5, <1>6, <2>1, <3>1
  <2>2. CASE j # Len(t)
    BY <1>1, <1>5, <1>6, <2>2
  <2> QED
    BY <2>1, <2>2
<1>8. /\ user'[y] = 0 /\ user'[x] = 1
      /\ \A o \in Obj : o # y /\ o # x => user'[o] = user[o]
  BY <1>1, <1>3, <1>4, <1>5 DEF y
<1>9. \A o \in Obj : (user'[o] > 0 <=> Elsewhere(o) \/ In(o, t)) /\ user'[o] <= 1
  <2> SUFFICES ASSUME NEW o \in Obj
               PROVE  (user'[o] > 0 <=> Elsewhere(o) \/ In(o, t)) /\ user'[o] <= 1
    OBVIOUS
  <2>1. CASE o = x
    BY <1>6, <1>8, <2>1
  <2>2. CASE o = y
    BY <1>2, <1>5, <1>6, <1>8, <2>2
  <2>3. CASE o # x /\ o # y
    BY <1>2, <1>3, <1>6, <1>8, <2>3
  <2> QED
    BY <2>1, <2>2, <2>3
<1> QED
  BY <1>6, <1>7, <1>9 DEF Edited, t

-----------------------------------------------------------------------------
(* The steps of the innermost level, one by one. *)

\* A level that is given up needs neither runtime nor host module.
LEMMA UnwindingNeedsNothing ==
  ASSUME NEW l, l.phase = "unwinding", NEW e, NEW hm, NEW nd
  PROVE  Shape(l) /\ RuntimeKept(l, e) /\ HostKept(l, hm, nd)
BY DEF Shape, RuntimeKept, HostKept

\* The registration, successful or not, preserves the invariant.
LEMMA RegisterHostModuleKeepsEInv ==
  ASSUME EInv, RegisterHostModule, [Next]_vars
  PROVE  EInv'
<1> DEFINE r == Current.runtime
           s == Current.locals
<1>1. PICK d \in Desc, h \in HostModule :
        /\ CreateHostModule(r, d, h)
        /\ \/ h \in made' /\ Continue(Append(s, h), "hosted")
           \/ h \notin made' /\ Continue(s, "unwinding")
  BY DEF RegisterHostModule
<1>2. levels # <<>> /\ Current.phase = "new"
  BY DEF RegisterHostModule, At
<1>3. /\ r \in Runtime /\ s \in Seq(Obj) /\ s = <<r>> /\ h \in Obj /\ Fresh(h) /\ d # h
  BY <1>1, <1>2, CurrentProperties, KindAssumption DEF Shape, CreateHostModule, Obj
<1> HIDE DEF r, s
<1>4. CASE h \notin made' /\ Continue(s, "unwinding")
  <2> DEFINE l == LevelOf(Current.kind, r, s, "unwinding")
  <2>1. user' = user
    BY <1>1, <1>4 DEF CreateHostModule
  <2>2. l.phase = "unwinding"
    BY DEF LevelOf
  <2> HIDE DEF l
  <2>3. Edited(s)
    BY <1>2, <2>1, KeepsLocals DEF s
  <2>4. Shape(l) /\ RuntimeKept(l, executors) /\ HostKept(l, hostModules', needs')
    BY <2>2, UnwindingNeedsNothing
  <2> QED
    BY <1>2, <1>4, <2>3, <2>4, ContinueKeepsEInv DEF l, r, Phases
<1>5. CASE h \in made' /\ Continue(Append(s, h), "hosted")
  <2> DEFINE l == LevelOf(Current.kind, r, Append(s, h), "hosted")
  <2>1. /\ user' = [user EXCEPT ![h] = 1]
        /\ hostModules' = [hostModules EXCEPT ![r] = Append(@, h)]
    BY <1>1, <1>3, <1>5 DEF CreateHostModule, Fresh
  <2>2. Edited(Append(s, h))
    BY <1>2, <1>3, <2>1, AppendsLocal DEF s
  <2>3. hostModules'[r] = Append(hostModules[r], h) /\ hostModules[r] \in Seq(HostModule)
    BY <1>3, <2>1 DEF EInv, IInv, TypeOK
  <2>4. HasHost(r, hostModules')
    BY <2>3, InAppend DEF HasHost
  <2>5. Len(Append(s, h)) = 2 /\ Append(s, h)[1] = r
    <3>1. Len(s) = 1 /\ s[1] = r
      BY <1>3
    <3> QED
      BY <1>3, <3>1, AppendProperties
  <2>6. Shape(l) /\ RuntimeKept(l, executors) /\ HostKept(l, hostModules', needs')
    BY <2>4, <2>5 DEF Shape, RuntimeKept, HostKept, LevelOf
  <2> HIDE DEF l
  <2> QED
    BY <1>2, <1>5, <2>2, <2>6, ContinueKeepsEInv DEF l, r, Phases
<1> QED
  BY <1>1, <1>4, <1>5 DEF s

\* The module is loaded against the host modules of the runtime.
LEMMA LoadKeepsEInv ==
  ASSUME EInv, Load, [Next]_vars
  PROVE  EInv'
<1> DEFINE r == Current.runtime
           s == Current.locals
<1>1. PICK m \in Module : LoadModule(r, m) /\ Continue(Append(s, m), "loaded")
  BY DEF Load
<1> DEFINE t == Append(s, m)
           l == LevelOf(Current.kind, r, t, "loaded")
<1>2. levels # <<>> /\ Current.phase = "ready"
  BY DEF Load, At
<1>3. r \in Runtime /\ r \in Obj /\ s \in Seq(Obj) /\ m \in Obj /\ Fresh(m)
  BY <1>1, <1>2, CurrentProperties DEF LoadModule, Obj
<1>4. /\ t \in Seq(Obj) /\ Len(t) = Len(s) + 1 /\ t[Len(t)] = m /\ Len(s) \in Nat
      /\ \A o : In(o, t) <=> In(o, s) \/ o = m
  BY <1>3, AppendProperties, LenProperties, InAppend
<1>5. Edited(t)
  BY <1>1, <1>2, <1>3, AppendsLocal DEF LoadModule
<1>6. /\ needs'[m] = {r} \union {h \in HostModule : In(h, hostModules[r])}
      /\ hostModules' = hostModules
  BY <1>1, <1>3 DEF LoadModule, Make, EInv, IInv, TypeOK
<1>7. HasHost(r, hostModules) /\ (r \in executors \/ In(r, s))
  <2>1. HostKept(Current, hostModules, needs) /\ RuntimeKept(Current, executors)
    BY <1>2, CurrentProperties DEF EInv, HostsKept, Current
  <2> QED
    BY <1>2, <2>1 DEF HostKept, RuntimeKept
<1> HIDE DEF r, s, t
<1>8. Shape(l)
  BY <1>4 DEF Shape, LevelOf
<1>9. RuntimeKept(l, executors)
  BY <1>4, <1>7 DEF RuntimeKept, LevelOf
<1>10. HostKept(l, hostModules', needs')
  <2>1. ModuleAt(l) = m
    BY <1>4 DEF ModuleAt, LevelOf
  <2> QED
    BY <1>6, <1>7, <2>1 DEF HostKept, HasHost, LevelOf
<1> HIDE DEF l
<1> QED
  BY <1>1, <1>2, <1>5, <1>8, <1>9, <1>10, ContinueKeepsEInv DEF l, r, s, t, Phases

\* The isolation is created; the module stays where it is.
LEMMA IsolateKeepsEInv ==
  ASSUME EInv, Isolate, [Next]_vars
  PROVE  EInv'
<1> DEFINE r == Current.runtime
           s == Current.locals
<1>1. PICK i \in Isolation : NewIsolation(r, i) /\ Continue(Append(s, i), "isolated")
  BY DEF Isolate
<1> DEFINE t == Append(s, i)
           l == LevelOf(Current.kind, r, t, "isolated")
<1>2. levels # <<>> /\ Current.phase = "loaded"
  BY DEF Isolate, At
<1>3. /\ r \in Runtime /\ r \in Obj /\ s \in Seq(Obj) /\ i \in Obj /\ Fresh(i)
      /\ Len(s) > 0 /\ s[Len(s)] \in Module
  BY <1>1, <1>2, CurrentProperties DEF NewIsolation, Obj, Shape
<1>4. /\ t \in Seq(Obj) /\ Len(t) = Len(s) + 1 /\ t[Len(t)] = i /\ Len(s) \in Nat
      /\ t[Len(s)] = s[Len(s)]
      /\ \A o : In(o, t) <=> In(o, s) \/ o = i
  BY <1>3, AppendProperties, LenProperties, InAppend
<1>5. Edited(t)
  BY <1>1, <1>2, <1>3, AppendsLocal DEF NewIsolation
<1>6. HostKept(Current, hostModules', needs') /\ RuntimeKept(Current, executors)
  BY <1>2, CurrentProperties, LevelsKeepHosts DEF EInv, HostsKept, Current
<1>7. /\ \E h \in HostModule : In(h, hostModules'[r]) /\ h \in needs'[s[Len(s)]]
      /\ r \in executors \/ In(r, s)
  BY <1>2, <1>6 DEF HostKept, RuntimeKept, ModuleAt
<1> HIDE DEF r, s, t
<1>8. Shape(l)
  <2>1. Len(t) > 1 /\ Len(t) - 1 = Len(s)
    BY <1>3, <1>4
  <2> QED
    BY <1>3, <1>4, <2>1 DEF Shape, LevelOf
<1>9. RuntimeKept(l, executors)
  BY <1>4, <1>7 DEF RuntimeKept, LevelOf
<1>10. HostKept(l, hostModules', needs')
  <2>1. ModuleAt(l) = s[Len(s)]
    BY <1>4 DEF ModuleAt, LevelOf
  <2> QED
    BY <1>7, <2>1 DEF HostKept, LevelOf
<1> HIDE DEF l
<1> QED
  BY <1>1, <1>2, <1>5, <1>8, <1>9, <1>10, ContinueKeepsEInv DEF l, r, s, t, Phases

\* The instance takes the place of the isolation; it runs the module.
LEMMA InstantiateKeepsEInv ==
  ASSUME EInv, Instantiate, [Next]_vars
  PROVE  EInv'
<1> DEFINE r == Current.runtime
           s == Current.locals
           b == ButLast(s)
           m == b[Len(b)]
<1>1. PICK n \in Instance : NewInstance(m, LastLocal, n) /\ Continue(Append(b, n), "running")
  BY DEF Instantiate
<1> DEFINE t == Append(b, n)
           l == LevelOf(Current.kind, r, t, "running")
<1>2. levels # <<>> /\ Current.phase = "isolated"
  BY DEF Instantiate, At
<1>3. /\ r \in Runtime /\ r \in Obj /\ s # <<>> /\ Len(s) > 1
      /\ b \in Seq(Obj) /\ b # <<>> /\ Len(b) = Len(s) - 1 /\ b[Len(b)] = s[Len(s) - 1]
      /\ m \in Module /\ n \in Obj /\ Fresh(n) /\ LastLocal \in Isolation /\ LastLocal \in Obj
      /\ Len(s) \in Nat
  <2>1. /\ s # <<>> /\ LastLocal \in Isolation /\ m \in Module /\ b # <<>> /\ r \in Runtime
        /\ b \in Seq(Obj) /\ Len(b) = Len(s) - 1 /\ Len(s) \in Nat
        /\ \A j \in 1..Len(s) - 1 : b[j] = s[j]
    BY <1>2, CurrentProperties, LocalsProperties
  <2>2. Len(s) > 1
    BY <1>2, CurrentProperties DEF Shape
  <2>3. b[Len(b)] = s[Len(s) - 1]
    BY <2>1, <2>2
  <2> QED
    BY <1>1, <2>1, <2>2, <2>3 DEF NewInstance, Obj
<1>4. /\ t \in Seq(Obj) /\ Len(t) = Len(s) /\ t[Len(t)] = n /\ t[Len(t) - 1] = m
      /\ \A o : In(o, t) <=> In(o, b) \/ o = n
  BY <1>3, AppendProperties, InAppend
<1>5. Edited(t)
  BY <1>1, <1>2, <1>3, ReplacesLocal DEF NewInstance
<1>6. HostKept(Current, hostModules', needs') /\ RuntimeKept(Current, executors)
  BY <1>2, CurrentProperties, LevelsKeepHosts DEF EInv, HostsKept, Current
<1>7. \E h \in HostModule : In(h, hostModules'[r]) /\ h \in needs'[m]
  BY <1>2, <1>3, <1>6 DEF HostKept, ModuleAt
<1>8. r \in executors \/ In(r, b)
  <2>1. r \in executors \/ In(r, s)
    BY <1>2, <1>6 DEF RuntimeKept
  <2>2. r # LastLocal
    BY <1>3, KindAssumption
  <2> QED
    BY <1>2, <1>3, <2>1, <2>2, LastLocalOnce
<1>9. m \in needs'[n]
  BY <1>1, <1>3 DEF NewInstance, Make, EInv, IInv, TypeOK
<1>10. n \in Instance
  OBVIOUS
<1> HIDE DEF r, s, b, m, t
<1>11. Shape(l)
  BY <1>3, <1>4 DEF Shape, LevelOf
<1>12. RuntimeKept(l, executors)
  BY <1>4, <1>8 DEF RuntimeKept, LevelOf
<1>13. HostKept(l, hostModules', needs')
  <2>1. ModuleAt(l) = m /\ l.locals[Len(l.locals)] = n /\ l.runtime = r /\ l.phase = "running"
    BY <1>4 DEF ModuleAt, LevelOf
  <2> HIDE DEF l
  <2> QED
    BY <1>7, <1>9, <2>1 DEF HostKept
<1> HIDE DEF l
<1> QED
  BY <1>1, <1>2, <1>5, <1>11, <1>12, <1>13, ContinueKeepsEInv DEF l, r, s, b, t, Phases

\* Giving up, unwinding and the end of the guest preserve the invariant.
LEMMA UnwindingKeepsEInv ==
  ASSUME EInv, [Next]_vars, LoadRefused \/ GuestEnds \/ InstantiateRefused \/ Unwind
  PROVE  EInv'
<1> DEFINE b == ButLast(Current.locals)
<1>1. levels # <<>>
  BY DEF LoadRefused, GuestEnds, InstantiateRefused, Unwind, At
<1>2. PICK s : Edited(s) /\ Continue(s, "unwinding")
  <2>1. CASE LoadRefused \/ GuestEnds
    <3>1. user' = user /\ Continue(Current.locals, "unwinding")
      BY <2>1 DEF LoadRefused, GuestEnds, vars
    <3> QED
      BY <1>1, <3>1, KeepsLocals
  <2>2. CASE InstantiateRefused \/ Unwind
    <3>1. Current.locals # <<>> /\ Continue(b, "unwinding")
      BY <2>2, LocalsProperties DEF InstantiateRefused, Unwind, At
    <3>2. user' = [user EXCEPT ![LastLocal] = @ - 1]
      BY <2>2 DEF InstantiateRefused, Unwind, NewInstanceRefused, DropHandle
    <3> QED
      BY <1>1, <3>1, <3>2, DropsLocal
  <2> QED
    BY <2>1, <2>2
<1> DEFINE l == LevelOf(Current.kind, Current.runtime, s, "unwinding")
<1>3. l.phase = "unwinding"
  BY DEF LevelOf
<1> HIDE DEF l
<1>4. Shape(l) /\ RuntimeKept(l, executors) /\ HostKept(l, hostModules', needs')
  BY <1>3, UnwindingNeedsNothing
<1> QED
  BY <1>1, <1>2, <1>4, ContinueKeepsEInv DEF l, Phases

\* A nested executor is ready once new has dropped its handle of the host module.
LEMMA FinishNestedKeepsEInv ==
  ASSUME EInv, [Next]_vars, At("hosted"), DropHandle(LastLocal),
         Continue(ButLast(Current.locals), "ready")
  PROVE  EInv'
<1> DEFINE r == Current.runtime
           s == Current.locals
           b == ButLast(s)
           l == LevelOf(Current.kind, r, b, "ready")
<1>1. levels # <<>> /\ Current.phase = "hosted"
  BY DEF At
<1>2. s # <<>> /\ Len(b) = Len(s) - 1 /\ \A j \in 1..Len(s) - 1 : b[j] = s[j]
  BY <1>1, LocalsProperties
<1>3. Len(s) = 2 /\ s[1] = r
  BY <1>1, CurrentProperties DEF Shape
<1>4. Edited(b)
  BY <1>1, <1>2, DropsLocal DEF DropHandle
<1>5. HostKept(Current, hostModules', needs')
  BY <1>1, CurrentProperties, LevelsKeepHosts DEF Current
<1>6. HasHost(r, hostModules')
  BY <1>1, <1>5 DEF HostKept
<1>7. In(r, b)
  BY <1>2, <1>3 DEF In
<1> HIDE DEF r, s, b
<1>8. Shape(l) /\ RuntimeKept(l, executors) /\ HostKept(l, hostModules', needs')
  BY <1>6, <1>7 DEF Shape, RuntimeKept, HostKept, LevelOf
<1> HIDE DEF l
<1> QED
  BY <1>1, <1>4, <1>8, ContinueKeepsEInv DEF l, r, s, b, Phases

-----------------------------------------------------------------------------
(* Levels begin and end. *)

\* A level begins on top of a guest that runs, with at most one new local.
LEMMA BeginKeepsEInv ==
  ASSUME EInv, [Next]_vars, Len(levels) < MaxLevels,
         levels = <<>> \/ Current.phase = "running",
         NEW kind \in Kinds, NEW r \in Runtime, NEW s \in Seq(Obj), NEW ph \in Phases,
         Begin(kind, r, s, ph),
         Len(s) <= 1, \A j \in 1..Len(s) : ~Placed(s[j]),
         \A o \in Obj : (user'[o] > 0 <=> Placed(o) \/ In(o, s)) /\ user'[o] <= 1,
         NEW l, l = LevelOf(kind, r, s, ph),
         Shape(l), RuntimeKept(l, executors), HostKept(l, hostModules', needs')
  PROVE  EInv'
<1> DEFINE N == Len(levels)
<1>1. levels \in Seq(Level) /\ N \in Nat /\ MaxLevels \in Nat /\ Len(s) \in Nat
  BY LenProperties, LevelAssumption DEF EInv, LevelsOK
<1>2. l \in Level /\ l.locals = s
  BY DEF Level, LevelOf
<1>3. /\ levels' \in Seq(Level) /\ Len(levels') = N + 1 /\ levels'[N + 1] = l
      /\ \A k \in 1..N : levels'[k] = levels[k]
      /\ executors' = executors
  BY <1>1, <1>2, AppendProperties DEF Begin
<1>4. \A k \in 1..N + 1 : k \in 1..N \/ k = N + 1
  BY <1>1
<1>5. N + 1 \in 1..N + 1 /\ N + 1 <= MaxLevels /\ \A k \in 1..N : k \in 1..N + 1 /\ k < N + 1
  BY <1>1
<1>6. IInv'
  BY NextPreservesIInv DEF EInv
<1>7. LevelsOK'
  <2>1. \A o : Placed(o)' <=> Placed(o) \/ In(o, s)
    <3>1. \A o : (\E k \in 1..N + 1 : In(o, levels'[k].locals))
                   <=> In(o, s) \/ \E k \in 1..N : In(o, levels[k].locals)
      BY <1>2, <1>3, <1>4, <1>5
    <3> QED
      BY <1>3, <3>1 DEF Placed
  <2>2. \A o \in Obj : (Holds(o)' <=> Placed(o)') /\ user'[o] <= 1
    BY <2>1 DEF Holds
  <2>3. Apart(levels')
    <3> SUFFICES ASSUME NEW k \in 1..N + 1, NEW n \in 1..N + 1,
                        NEW i \in 1..Len(levels'[k].locals), NEW j \in 1..Len(levels'[n].locals),
                        levels'[k].locals[i] = levels'[n].locals[j]
                 PROVE  k = n /\ i = j
      BY <1>3 DEF Apart
    <3>1. ASSUME NEW p \in 1..N + 1, NEW q \in 1..Len(levels'[p].locals)
          PROVE  \/ /\ p \in 1..N /\ levels'[p] = levels[p]
                    /\ Placed(levels'[p].locals[q])
                 \/ p = N + 1 /\ q = 1 /\ ~Placed(levels'[p].locals[q])
      <4>1. CASE p \in 1..N
        BY <1>3, <4>1 DEF Placed, In
      <4>2. CASE p = N + 1
        <5>1. levels'[p].locals = s
          BY <1>2, <1>3, <4>2
        <5>2. q \in 1..Len(s)
          BY <5>1
        <5>3. q = 1
          BY <1>1, <5>2
        <5> QED
          BY <4>2, <5>1, <5>2, <5>3
      <4> QED
        BY <1>4, <4>1, <4>2
    <3>2. Apart(levels)
      BY DEF EInv, LevelsOK
    <3>3. CASE Placed(levels'[k].locals[i])
      <4>1. k \in 1..N /\ levels'[k] = levels[k] /\ n \in 1..N /\ levels'[n] = levels[n]
        BY <3>1, <3>3
      <4>2. levels[k].locals[i] = levels[n].locals[j]
        BY <4>1
      <4> QED
        BY <3>2, <4>1, <4>2 DEF Apart
    <3>4. CASE ~Placed(levels'[k].locals[i])
      <4>1. k = N + 1 /\ i = 1
        BY <3>1, <3>4
      <4>2. n = N + 1 /\ j = 1
        BY <3>1, <3>4
      <4> QED
        BY <4>1, <4>2
    <3> QED
      BY <3>3, <3>4
  <2>4. \A k \in 1..N + 1 : \A o \in executors : ~In(o, levels'[k].locals)
    <3> SUFFICES ASSUME NEW k \in 1..N + 1, NEW o \in executors, In(o, levels'[k].locals)
                 PROVE  FALSE
      OBVIOUS
    <3>1. CASE k \in 1..N
      BY <1>3, <3>1 DEF EInv, LevelsOK
    <3>2. CASE k = N + 1
      <4>1. PICK j \in 1..Len(s) : s[j] = o
        BY <1>2, <1>3, <3>2 DEF In
      <4>2. Placed(o)
        BY DEF Placed
      <4> QED
        BY <4>1, <4>2
    <3> QED
      BY <1>4, <3>1, <3>2
  <2> QED
    BY <1>3, <1>5, <2>2, <2>3, <2>4 DEF EInv, LevelsOK
<1>8. Shapes'
  <2>1. \A k \in 1..N + 1 : Shape(levels'[k])
    <3> SUFFICES ASSUME NEW k \in 1..N + 1
                 PROVE  Shape(levels'[k])
      OBVIOUS
    <3>1. CASE k \in 1..N
      BY <1>3, <3>1 DEF EInv, Shapes
    <3>2. CASE k = N + 1
      BY <1>3, <3>2
    <3> QED
      BY <1>4, <3>1, <3>2
  <2>2. \A k \in 1..N : levels[k].phase = "running"
    <3> SUFFICES ASSUME NEW k \in 1..N
                 PROVE  levels[k].phase = "running"
      OBVIOUS
    <3>1. CASE k < N
      BY <3>1 DEF EInv, Shapes
    <3>2. CASE k = N
      <4>1. levels # <<>>
        BY <1>1, <3>2, EmptySeq
      <4> QED
        BY <3>2, <4>1 DEF Current
    <3> QED
      BY <1>1, <3>1, <3>2
  <2>3. \A k \in 1..N + 1 : k < N + 1 => levels'[k].phase = "running"
    BY <1>1, <1>3, <1>4, <2>2
  <2> QED
    BY <1>3, <2>1, <2>3 DEF Shapes, Shape
<1>9. HostsKept'
  <2>1. \A k \in 1..N + 1 : RuntimeKept(levels'[k], executors)
                            /\ HostKept(levels'[k], hostModules', needs')
    <3> SUFFICES ASSUME NEW k \in 1..N + 1
                 PROVE  RuntimeKept(levels'[k], executors)
                        /\ HostKept(levels'[k], hostModules', needs')
      OBVIOUS
    <3>1. CASE k \in 1..N
      <4>1. levels'[k] = levels[k] /\ RuntimeKept(levels[k], executors)
        BY <1>3, <3>1 DEF EInv, HostsKept
      <4>2. HostKept(levels[k], hostModules', needs')
        BY <3>1, LevelsKeepHosts
      <4> QED
        BY <4>1, <4>2
    <3>2. CASE k = N + 1
      BY <1>3, <3>2
    <3> QED
      BY <1>4, <3>1, <3>2
  <2>2. \A q \in executors : HasHost(q, hostModules')
    BY ExecutorsKeepHosts
  <2> QED
    BY <1>3, <2>1, <2>2 DEF HostsKept, HasHost, RuntimeKept, HostKept, ModuleAt
<1> QED
  BY <1>6, <1>7, <1>8, <1>9 DEF EInv

\* The innermost level ends; its handles are gone or belong to an executor.
LEMMA EndKeepsEInv ==
  ASSUME EInv, [Next]_vars, levels # <<>>, levels' = ButLast(levels),
         NEW e \in SUBSET Runtime, executors' = e, executors \subseteq e,
         \A r \in e : HasHost(r, hostModules') /\ (r \in executors \/ ~Elsewhere(r)),
         \A o \in Obj : (user'[o] > 0 <=> o \in e \/ Elsewhere(o)) /\ user'[o] <= 1
  PROVE  EInv'
<1> DEFINE N == Len(levels)
           n == N - 1
<1>1. levels \in Seq(Level) /\ N \in Nat \ {0} /\ n \in Nat /\ n <= N /\ N <= MaxLevels
  BY CurrentProperties DEF EInv, LevelsOK
<1>2. MaxLevels \in Nat /\ n <= MaxLevels /\ \A k \in 1..n : k \in 1..N /\ k < N
  BY <1>1, LevelAssumption
<1>3. \A k \in 1..N : k < N => k \in 1..n
  BY <1>1
<1>4. levels' = SubSeq(levels, 1, n)
  BY DEF ButLast
<1> HIDE DEF n
<1>5. levels' \in Seq(Level) /\ Len(levels') = n /\ \A k \in 1..n : levels'[k] = levels[k]
  BY <1>1, <1>4, PrefixProperties
<1>6. IInv'
  BY NextPreservesIInv DEF EInv
<1>7. LevelsOK'
  <2>1. \A o \in Obj : Placed(o)' <=> o \in e \/ Elsewhere(o)
    <3>1. \A o : (\E k \in 1..n : In(o, levels'[k].locals))
                   <=> \E k \in 1..N : k < N /\ In(o, levels[k].locals)
      BY <1>2, <1>3, <1>5
    <3> QED
      BY <1>5, <3>1 DEF Placed, Elsewhere
  <2>2. \A o \in Obj : (Holds(o)' <=> Placed(o)') /\ user'[o] <= 1
    BY <2>1 DEF Holds
  <2>3. Apart(levels')
    <3>1. Apart(levels)
      BY DEF EInv, LevelsOK
    <3> SUFFICES ASSUME NEW k \in 1..n, NEW l \in 1..n,
                        NEW i \in 1..Len(levels[k].locals), NEW j \in 1..Len(levels[l].locals),
                        levels[k].locals[i] = levels[l].locals[j]
                 PROVE  k = l /\ i = j
      BY <1>5 DEF Apart
    <3>2. k \in 1..Len(levels) /\ l \in 1..Len(levels)
      BY <1>2
    <3> QED
      BY <3>1, <3>2 DEF Apart
  <2>4. \A k \in 1..n : \A o \in e : ~In(o, levels'[k].locals)
    BY <1>2, <1>5 DEF EInv, LevelsOK, Elsewhere
  <2> QED
    BY <1>2, <1>5, <2>2, <2>3, <2>4 DEF LevelsOK
<1>8. Shapes'
  <2>1. \A k \in 1..n : Shape(levels'[k]) /\ levels'[k].phase = "running"
    BY <1>2, <1>5 DEF EInv, Shapes
  <2> QED
    BY <1>5, <2>1 DEF Shapes, Shape
<1>9. HostsKept'
  <2>1. ASSUME NEW k \in 1..n
        PROVE  RuntimeKept(levels'[k], e) /\ HostKept(levels'[k], hostModules', needs')
    <3>1. levels'[k] = levels[k] /\ k \in 1..N
      BY <1>2, <1>5
    <3>2. RuntimeKept(levels[k], executors) /\ HostKept(levels[k], hostModules', needs')
      BY <3>1, LevelsKeepHosts DEF EInv, HostsKept
    <3>3. RuntimeKept(levels[k], e)
      BY <3>2 DEF RuntimeKept
    <3> QED
      BY <3>1, <3>2, <3>3
  <2> QED
    BY <1>5, <2>1 DEF HostsKept, HasHost, RuntimeKept, HostKept, ModuleAt
<1> QED
  BY <1>6, <1>7, <1>8, <1>9 DEF EInv

\* A step that leaves the handles and the levels alone preserves the invariant.
LEMMA StillKeepsEInv ==
  ASSUME EInv, [Next]_vars, UNCHANGED <<user, executors, levels>>
  PROVE  EInv'
<1>1. IInv'
  BY NextPreservesIInv DEF EInv
<1>2. LevelsOK'
  BY DEF EInv, LevelsOK, Placed, Holds
<1>3. Shapes'
  BY DEF EInv, Shapes, Shape
<1>4. HostsKept'
  <2>1. \A k \in 1..Len(levels) :
          RuntimeKept(levels[k], executors) /\ HostKept(levels[k], hostModules', needs')
    BY LevelsKeepHosts DEF EInv, HostsKept
  <2>2. \A r \in executors : HasHost(r, hostModules')
    BY ExecutorsKeepHosts
  <2> QED
    BY <2>1, <2>2 DEF HostsKept, HasHost, RuntimeKept, HostKept, ModuleAt
<1> QED
  BY <1>1, <1>2, <1>3, <1>4 DEF EInv

\* An executor, of the harness or for a nested call, begins with its runtime.
LEMMA NewLevelKeepsEInv ==
  ASSUME EInv, [Next]_vars, NEW kind \in Kinds, Len(levels) < MaxLevels,
         levels = <<>> \/ Current.phase = "running",
         NEW r \in Runtime, NewRuntime(r), Begin(kind, r, <<r>>, "new")
  PROVE  EInv'
<1> DEFINE l == LevelOf(kind, r, <<r>>, "new")
<1>1. r \in Obj /\ Fresh(r) /\ user' = [user EXCEPT ![r] = 1]
  BY DEF NewRuntime, Obj
<1>2. ~Placed(r) /\ user \in [Obj -> 0..MaxHandles]
  BY <1>1, FreshProperties DEF EInv, IInv, TypeOK
<1>3. <<r>> \in Seq(Obj) /\ Len(<<r>>) = 1 /\ \A j \in 1..1 : <<r>>[j] = r
  BY <1>1
<1>4. \A o : In(o, <<r>>) <=> o = r
  BY InOne
<1>5. \A o \in Obj : (user[o] > 0 <=> Placed(o)) /\ user[o] <= 1
  BY DEF EInv, LevelsOK, Holds
<1>6. \A o \in Obj : (user'[o] > 0 <=> Placed(o) \/ In(o, <<r>>)) /\ user'[o] <= 1
  BY <1>1, <1>2, <1>4, <1>5
<1>7. Shape(l) /\ RuntimeKept(l, executors) /\ HostKept(l, hostModules', needs')
  BY DEF Shape, RuntimeKept, HostKept, LevelOf
<1>8. Len(<<r>>) <= 1 /\ \A j \in 1..Len(<<r>>) : ~Placed(<<r>>[j])
  BY <1>2, <1>3
<1>9. "new" \in Phases
  BY DEF Phases
<1> HIDE DEF l
<1> QED
  BY <1>3, <1>6, <1>7, <1>8, <1>9, BeginKeepsEInv DEF l

\* A call of the harness begins on an executor that has its host module.
LEMMA CallKeepsEInv ==
  ASSUME EInv, [Next]_vars, NEW r \in Runtime, CallOnExecutor(r)
  PROVE  EInv'
<1> DEFINE l == LevelOf("call", r, <<>>, "ready")
<1>1. /\ levels = <<>> /\ r \in executors /\ Begin("call", r, <<>>, "ready")
      /\ user' = user
  BY DEF CallOnExecutor, HarnessIdle, vars
<1>2. Len(levels) < MaxLevels
  BY <1>1, EmptySeq, LevelAssumption
<1>3. <<>> \in Seq(Obj) /\ Len(<<>>) = 0 /\ \A o : ~In(o, <<>>)
  BY EmptySeq, InEmpty
<1>4. \A o \in Obj : (user'[o] > 0 <=> Placed(o) \/ In(o, <<>>)) /\ user'[o] <= 1
  BY <1>1, <1>3 DEF EInv, LevelsOK, Holds
<1>5. HasHost(r, hostModules')
  BY <1>1, ExecutorsKeepHosts
<1>6. Shape(l) /\ RuntimeKept(l, executors) /\ HostKept(l, hostModules', needs')
  BY <1>1, <1>5 DEF Shape, RuntimeKept, HostKept, LevelOf
<1>7. "ready" \in Phases /\ "call" \in Kinds
  BY DEF Phases, Kinds
<1>8. Len(<<>>) <= 1 /\ \A j \in 1..Len(<<>>) : ~Placed(<<>>[j])
  BY <1>3
<1> HIDE DEF l
<1> QED
  BY <1>1, <1>2, <1>3, <1>4, <1>6, <1>7, <1>8, BeginKeepsEInv DEF l

\* The executor of the harness is built: the runtime's handle moves into it.
LEMMA FinishBuildKeepsEInv ==
  ASSUME EInv, [Next]_vars, At("hosted"), DropHandle(LastLocal),
         executors' = executors \union {Current.runtime}, levels' = ButLast(levels)
  PROVE  EInv'
<1> DEFINE r == Current.runtime
           s == Current.locals
           y == LastLocal
           e == executors \union {r}
           N == Len(levels)
<1>1. levels # <<>> /\ Current.phase = "hosted"
  BY DEF At
<1>2. /\ Len(s) = 2 /\ s[1] = r /\ y = s[2] /\ y \in Obj /\ r \in Runtime /\ r \in Obj
      /\ s # <<>>
  BY <1>1, CurrentProperties, LocalsProperties DEF Shape, LastLocal, Obj
<1>3. \A o : In(o, s) <=> o = r \/ o = y
  <2>1. \A j \in 1..Len(s) : j = 1 \/ j = 2
    BY <1>2
  <2>2. 1 \in 1..Len(s) /\ 2 \in 1..Len(s)
    BY <1>2
  <2> QED
    BY <1>2, <2>1, <2>2 DEF In
<1>4. r # y /\ ~Elsewhere(r) /\ ~Elsewhere(y)
  <2>1. N \in Nat \ {0} /\ N \in 1..N /\ levels[N] = Current
    BY <1>1, CurrentProperties DEF Current
  <2>2. Apart(levels) /\ \A o \in executors : ~In(o, s)
    BY <2>1 DEF EInv, LevelsOK
  <2>3. 1 \in 1..Len(s) /\ 2 \in 1..Len(s)
    BY <1>2
  <2>4. \A k \in 1..N : \A i \in 1..Len(levels[k].locals) :
          levels[k].locals[i] = s[1] => k = N /\ i = 1
    BY <2>1, <2>2, <2>3 DEF Apart
  <2>5. r # y
    BY <1>2, <2>1, <2>3, <2>4
  <2>6. ~Elsewhere(r)
    BY <1>2, <1>3, <2>1, <2>2, <2>4 DEF Elsewhere, In
  <2>7. ~Elsewhere(y)
    BY <1>1, <1>2, LastLocalOnce
  <2> QED
    BY <2>5, <2>6, <2>7
<1>5. \A o \in Obj : (user[o] > 0 <=> Elsewhere(o) \/ In(o, s)) /\ user[o] <= 1
  BY <1>1, PlacedParts DEF EInv, LevelsOK, Holds
<1>6. user \in [Obj -> 0..MaxHandles] /\ \A o \in Obj : user[o] \in Nat
  BY HandleAssumption DEF EInv, IInv, TypeOK
<1>7. user' = [user EXCEPT ![y] = @ - 1]
  BY DEF DropHandle
<1> HIDE DEF r, s, y
<1>8. user'[y] = 0 /\ \A o \in Obj : o # y => user'[o] = user[o]
  BY <1>2, <1>3, <1>5, <1>6, <1>7
<1>9. \A o \in Obj : (user'[o] > 0 <=> o \in e \/ Elsewhere(o)) /\ user'[o] <= 1
  <2> SUFFICES ASSUME NEW o \in Obj
               PROVE  (user'[o] > 0 <=> o = r \/ Elsewhere(o)) /\ user'[o] <= 1
    BY DEF Elsewhere
  <2>1. CASE o = y
    BY <1>4, <1>8, <2>1
  <2>2. CASE o # y
    BY <1>3, <1>5, <1>8, <2>2
  <2> QED
    BY <2>1, <2>2
<1>10. HasHost(r, hostModules')
  <2>1. HostKept(Current, hostModules', needs')
    BY <1>1, CurrentProperties, LevelsKeepHosts DEF Current
  <2> QED
    BY <1>1, <2>1 DEF HostKept, r
<1>11. \A q \in e : HasHost(q, hostModules') /\ (q \in executors \/ ~Elsewhere(q))
  BY <1>4, <1>10, ExecutorsKeepHosts
<1>12. e \in SUBSET Runtime /\ executors \subseteq e /\ executors' = e
  BY <1>2 DEF EInv, LevelsOK, r
<1> HIDE DEF e
<1> QED
  BY <1>1, <1>9, <1>11, <1>12, EndKeepsEInv

\* A level without locals leaves nothing behind.
LEMMA LeaveKeepsEInv ==
  ASSUME EInv, [Next]_vars, Leave
  PROVE  EInv'
<1>1. /\ levels # <<>> /\ Current.locals = <<>> /\ levels' = ButLast(levels)
      /\ executors' = executors /\ user' = user
  BY DEF Leave, At, vars
<1>2. \A o \in Obj : (user'[o] > 0 <=> Elsewhere(o)) /\ user'[o] <= 1
  BY <1>1, InEmpty, PlacedParts DEF EInv, LevelsOK, Holds
<1>3. \A o \in Obj : (user'[o] > 0 <=> o \in executors \/ Elsewhere(o)) /\ user'[o] <= 1
  BY <1>2 DEF Elsewhere
<1>4. executors \in SUBSET Runtime /\ \A r \in executors : HasHost(r, hostModules')
  BY ExecutorsKeepHosts DEF EInv, LevelsOK
<1> QED
  BY <1>1, <1>3, <1>4, EndKeepsEInv

\* The harness gives an executor up.
LEMMA DropExecutorKeepsEInv ==
  ASSUME EInv, [Next]_vars, NEW r \in Runtime, DropExecutor(r)
  PROVE  EInv'
<1>1. /\ levels = <<>> /\ levels' = levels /\ Len(levels) = 0
      /\ executors' = executors \ {r} /\ r \in executors
      /\ user' = [user EXCEPT ![r] = @ - 1]
  BY EmptySeq DEF DropExecutor, DropHandle, HarnessIdle
<1>2. r \in Obj /\ user \in [Obj -> 0..MaxHandles] /\ \A o \in Obj : user[o] \in Nat
  BY HandleAssumption DEF Obj, EInv, IInv, TypeOK
<1>3. \A o \in Obj : (user[o] > 0 <=> o \in executors) /\ user[o] <= 1
  BY <1>1 DEF EInv, LevelsOK, Placed, Holds
<1>4. \A o \in Obj : (user'[o] > 0 <=> o \in executors') /\ user'[o] <= 1
  BY <1>1, <1>2, <1>3
<1>5. \A o \in Obj : (Holds(o)' <=> Placed(o)') /\ user'[o] <= 1
  BY <1>1, <1>4 DEF Holds, Placed
<1>6. LevelsOK'
  BY <1>1, <1>5 DEF EInv, LevelsOK, Apart
<1>7. IInv'
  BY NextPreservesIInv DEF EInv
<1>8. Shapes'
  BY <1>1 DEF Shapes
<1>9. HostsKept'
  BY <1>1, ExecutorsKeepHosts DEF HostsKept, HasHost
<1> QED
  BY <1>6, <1>7, <1>8, <1>9 DEF EInv

-----------------------------------------------------------------------------
(* All steps, and the theorems. *)

\* Before the first executor nothing is held.
LEMMA ExecInitEstablishesEInv == ExecInit => EInv
<1> SUFFICES ASSUME ExecInit
             PROVE  EInv
  OBVIOUS
<1>1. executors = {} /\ levels = <<>> /\ Len(levels) = 0 /\ \A o \in Obj : user[o] = 0
  BY EmptySeq DEF ExecInit, Init
<1>2. IInv
  BY InitEstablishesIInv DEF ExecInit
<1>3. LevelsOK
  BY <1>1, EmptySeq, LevelAssumption DEF LevelsOK, Placed, Holds, Apart
<1> QED
  BY <1>1, <1>2, <1>3 DEF EInv, Shapes, HostsKept

\* Each step preserves the invariant.
LEMMA ExecNextPreservesEInv == EInv /\ [ExecNext]_execVars => EInv'
<1> SUFFICES ASSUME EInv, [ExecNext]_execVars
             PROVE  EInv'
  OBVIOUS
<1>1. [Next]_vars
  BY StepIsRuntimeStep
<1>2. CASE BuildExecutor
  <2>1. levels = <<>> /\ Len(levels) < MaxLevels /\ "build" \in Kinds
    BY <1>2, EmptySeq, LevelAssumption DEF BuildExecutor, HarnessIdle, Kinds
  <2> QED
    BY <1>1, <1>2, <2>1, NewLevelKeepsEInv DEF BuildExecutor
<1>3. CASE GuestCalls
  <2>1. Current.phase = "running" /\ Len(levels) < MaxLevels /\ "nested" \in Kinds
    BY <1>3 DEF GuestCalls, At, Kinds
  <2> QED
    BY <1>1, <1>3, <2>1, NewLevelKeepsEInv DEF GuestCalls
<1>4. CASE \E r \in Runtime : CallOnExecutor(r)
  BY <1>1, <1>4, CallKeepsEInv
<1>5. CASE \E r \in Runtime : DropExecutor(r)
  BY <1>1, <1>5, DropExecutorKeepsEInv
<1>6. CASE RegisterHostModule
  BY <1>1, <1>6, RegisterHostModuleKeepsEInv
<1>7. CASE FinishNew
  BY <1>1, <1>7, FinishBuildKeepsEInv, FinishNestedKeepsEInv DEF FinishNew
<1>8. CASE Load
  BY <1>1, <1>8, LoadKeepsEInv
<1>9. CASE Isolate
  BY <1>1, <1>9, IsolateKeepsEInv
<1>10. CASE Instantiate
  BY <1>1, <1>10, InstantiateKeepsEInv
<1>11. CASE LoadRefused \/ GuestEnds \/ InstantiateRefused \/ Unwind
  BY <1>1, <1>11, UnwindingKeepsEInv
<1>12. CASE Leave
  BY <1>1, <1>12, LeaveKeepsEInv
<1>13. CASE ContinueDrop \/ UNCHANGED execVars
  <2>1. UNCHANGED <<user, executors, levels>>
    BY <1>13 DEF ContinueDrop, DropStep, DeleteEngineObject, ReleaseField, EndDrop, execVars
  <2> QED
    BY <1>1, <2>1, StillKeepsEInv
<1> QED
  BY <1>2, <1>3, <1>4, <1>5, <1>6, <1>7, <1>8, <1>9, <1>10, <1>11, <1>12, <1>13
     DEF ExecNext, HarnessStep, LevelStep, Proceed

\* The levels keep their shape, their handles and their host modules.
THEOREM ExecutorsInvariant == ExecSpec => []EInv
BY ExecInitEstablishesEInv, ExecNextPreservesEInv, PTL DEF ExecSpec

\* Executors and nested calls are one user of the wrappers among those ZenRuntime
\* describes: what is proved of all its behaviours holds of theirs.
THEOREM ExecutorsUseRuntime == ExecSpec => Spec
<1>1. ExecInit => Init
  BY DEF ExecInit
<1> QED
  BY <1>1, StepIsRuntimeStep, ExecutorsInvariant, PTL DEF ExecSpec, Spec

\* Each handle is held in one place, by a local or by an executor, with any
\* number of levels (contract_executor.rs:30-100).
THEOREM HandlesInOnePlace == ExecSpec => []LevelsOK
<1>1. EInv => LevelsOK
  BY DEF EInv
<1> QED
  BY <1>1, ExecutorsInvariant, PTL

\* The invariant keeps what the running guests reach.
LEMMA EInvKeepsRunningGuests == EInv => RunningGuestsReachLiveObjects
<1> SUFFICES ASSUME EInv, NEW k \in 1..Len(levels), levels[k].phase = "running"
             PROVE  /\ Reached(RunningInstance(k)) \subseteq live
                    /\ \E h \in HostModule :
                         /\ h \in Reached(RunningInstance(k))
                         /\ In(h, hostModules[levels[k].runtime])
  BY DEF RunningGuestsReachLiveObjects
<1> DEFINE l == levels[k]
           n == RunningInstance(k)
<1>1. Shape(l) /\ HostKept(l, hostModules, needs) /\ l.locals \in Seq(Obj)
  <2>1. l \in Level
    BY ElementOfSeq DEF EInv, LevelsOK
  <2> QED
    BY <2>1 DEF EInv, Shapes, HostsKept, Level
<1>2. n \in live
  <2>1. Len(l.locals) \in 1..Len(l.locals)
    BY <1>1, LenProperties DEF Shape
  <2>2. n \in Obj /\ In(n, l.locals)
    BY <1>1, <2>1, ElementOfSeq DEF RunningInstance, In
  <2> QED
    BY <2>2, PlacedProperties DEF Placed
<1>3. ASSUME NEW objs, objs \subseteq live
      PROVE  Uses(objs) \subseteq live
  BY <1>3, NeedsLive DEF Uses, EInv
<1>4. Reached(n) \subseteq live
  BY <1>2, <1>3 DEF Reached
<1>5. PICK h \in HostModule :
        In(h, hostModules[l.runtime]) /\ h \in needs[ModuleAt(l)] /\ ModuleAt(l) \in needs[n]
  BY <1>1 DEF HostKept, RunningInstance
<1>6. h \in Reached(n)
  <2>1. \A objs : objs \subseteq Uses(objs)
    BY DEF Uses
  <2>2. h \in Uses(Uses({n}))
    BY <1>5 DEF Uses
  <2> QED
    BY <2>1, <2>2 DEF Reached
<1> QED
  BY <1>4, <1>5, <1>6

\* However deep the calls are and whatever fails in them, no guest on the stack
\* loses its instance or anything the engine runs it with (instance.rs:75,
\* mock_context.rs:486-512).
THEOREM RunningGuestsKeepObjects == ExecSpec => []RunningGuestsReachLiveObjects
BY ExecutorsInvariant, EInvKeepsRunningGuests, PTL

-----------------------------------------------------------------------------
(* What a call created is deleted. *)

OfACall == Module \union Isolation \union Instance

\* Only instances have Rcs of modules and isolations, and none of instances.
FieldKinds ==
  \A p, o \in Obj : In(o, fields[p]) /\ o \in OfACall => p \in Instance /\ o \notin Instance

\* A wrapper without engine object has fields only while its drop goes on.
DeadDropping == \A p \in Obj : p \notin live /\ fields[p] # <<>> => In(p, dropping)

\* Rcs of runtimes are not of that kind.
LEMMA RuntimeFields ==
  \A r \in Runtime : \A o : In(o, <<r>>) => o \notin OfACall
BY InOne, KindAssumption DEF OfACall

\* A call that gives new wrappers an Rc of a runtime at most keeps FieldKinds.
LEMMA NewFieldsKeepKinds ==
  ASSUME FieldKinds, NEW new \in SUBSET Obj,
         \A p \in Obj \ new : fields'[p] = fields[p],
         \A p \in new : \A o \in Obj : In(o, fields'[p]) => o \notin OfACall
  PROVE  FieldKinds'
BY DEF FieldKinds, OfACall

\* The user's calls keep FieldKinds.
LEMMA UserCallKeepsFieldKinds ==
  ASSUME IInv, FieldKinds, UserCall
  PROVE  FieldKinds'
<1>1. fields \in [Obj -> Seq(Obj)]
  BY DEF IInv, TypeOK
<1>2. Runtime \subseteq Obj /\ Desc \subseteq Obj /\ HostModule \subseteq Obj /\ Module \subseteq Obj
      /\ Isolation \subseteq Obj /\ Instance \subseteq Obj
  BY DEF Obj
<1>3. ASSUME NEW r \in Runtime, NewRuntime(r)
      PROVE  FieldKinds'
  <2>1. fields' = [fields EXCEPT ![r] = <<>>]
    BY <1>3 DEF NewRuntime, Make
  <2>2. {r} \in SUBSET Obj /\ \A p \in Obj \ {r} : fields'[p] = fields[p]
    BY <1>1, <1>2, <2>1
  <2>3. \A p \in {r} : \A o \in Obj : In(o, fields'[p]) => o \notin OfACall
    BY <1>1, <1>2, <2>1, InEmpty
  <2> QED
    BY <2>2, <2>3, NewFieldsKeepKinds
<1>4. ASSUME NEW r \in Runtime, NEW x \in Obj, fields' = [fields EXCEPT ![x] = <<r>>]
      PROVE  FieldKinds'
  <2>1. {x} \in SUBSET Obj /\ \A p \in Obj \ {x} : fields'[p] = fields[p]
    BY <1>1, <1>4
  <2>2. \A p \in {x} : \A o \in Obj : In(o, fields'[p]) => o \notin OfACall
    BY <1>1, <1>4, RuntimeFields
  <2> QED
    BY <2>1, <2>2, NewFieldsKeepKinds
<1>5. ASSUME fields' = fields
      PROVE  FieldKinds'
  BY <1>5 DEF FieldKinds
<1>6. ASSUME NEW r \in Runtime, NEW d \in Desc, NEW h \in HostModule, CreateHostModule(r, d, h)
      PROVE  FieldKinds'
  <2>1. CASE fields' = [fields EXCEPT ![d] = <<r>>, ![h] = <<r>>]
    <3>1. /\ \A p \in Obj \ {d, h} : fields'[p] = fields[p]
          /\ \A p \in {d, h} : fields'[p] = <<r>>
      BY <1>1, <1>2, <2>1
    <3>2. {d, h} \in SUBSET Obj
      BY <1>2
    <3>3. \A p \in {d, h} : \A o \in Obj : In(o, fields'[p]) => o \notin OfACall
      BY <3>1, RuntimeFields
    <3> QED
      BY <3>1, <3>2, <3>3, NewFieldsKeepKinds
  <2>2. CASE fields' = [fields EXCEPT ![d] = <<r>>]
    BY <1>2, <1>4, <2>2
  <2> QED
    BY <1>6, <2>1, <2>2 DEF CreateHostModule
<1>7. ASSUME NEW m \in Module, NEW i \in Isolation, NEW n \in Instance, NewInstance(m, i, n)
      PROVE  FieldKinds'
  <2> DEFINE x == fields[m][1]
  <2>1. Holds(m) /\ fields' = [fields EXCEPT ![n] = <<i, m, x>>]
    BY <1>7 DEF NewInstance, Make
  <2>2. x \in Obj /\ x \notin OfACall
    <3>1. m \in live /\ m \notin Instance
      BY <1>2, <2>1, HeldLive, KindAssumption
    <3>2. fields[m] \in Seq(Obj) /\ fields[m] # <<>>
      BY <1>1, <1>2, <3>1 DEF IInv, ModulesHoldRuntime
    <3>3. 1 \in 1..Len(fields[m])
      BY <3>2, EmptySeq, LenProperties
    <3>4. x \in Obj /\ In(x, fields[m])
      BY <3>2, <3>3, ElementOfSeq DEF In
    <3> QED
      BY <1>2, <3>1, <3>4 DEF FieldKinds
  <2> HIDE DEF x
  <2>3. \A o : In(o, fields'[n]) <=> o \in {i, m, x}
    BY <1>1, <1>2, <2>1, InThree
  <2>4. \A p \in Obj \ {n} : fields'[p] = fields[p]
    BY <1>1, <2>1
  <2>5. m \notin Instance /\ i \notin Instance
    BY KindAssumption
  <2> SUFFICES ASSUME NEW p \in Obj, NEW o \in Obj, In(o, fields'[p]), o \in OfACall
               PROVE  p \in Instance /\ o \notin Instance
    BY DEF FieldKinds, OfACall
  <2>6. CASE p = n
    BY <2>2, <2>3, <2>5, <2>6
  <2>7. CASE p # n
    BY <2>4, <2>7 DEF FieldKinds
  <2> QED
    BY <2>6, <2>7
<1> QED
  BY <1>2, <1>3, <1>4, <1>5, <1>6, <1>7
     DEF UserCall, CreateHostModuleDesc, LoadHostModule, MergeHostModule, LoadModule, NewIsolation,
         NewInstanceRefused, CloneHandle, DropHandle, Make, ours

\* So do the steps of a drop, which only take Rcs away.
LEMMA NextKeepsFieldKinds ==
  ASSUME IInv, FieldKinds, [Next]_vars
  PROVE  FieldKinds'
<1>1. CASE UserCall
  BY <1>1, UserCallKeepsFieldKinds
<1>2. CASE ReleaseField
  BY <1>2, ReleaseFieldLoses DEF FieldKinds, OfACall, Loses
<1>3. CASE DeleteEngineObject \/ EndDrop \/ UNCHANGED vars
  BY <1>3 DEF DeleteEngineObject, EndDrop, vars, FieldKinds
<1> QED
  BY <1>1, <1>2, <1>3 DEF Next, DropStep

\* A step of either shape leaves fields only with the living and the dropping.
LEMMA NextKeepsDeadDropping ==
  ASSUME IInv, DeadDropping, [Next]_vars
  PROVE  DeadDropping'
<1>1. ASSUME NEW o, Loses(o)
      PROVE  DeadDropping'
  <2> SUFFICES ASSUME NEW p \in Obj, p \notin live', fields'[p] # <<>>
               PROVE  In(p, dropping')
    BY DEF DeadDropping
  <2>1. fields'[p] \in Seq(Obj) /\ fields[p] \in Seq(Obj)
    BY <1>1 DEF Loses, IInv, TypeOK
  <2>2. fields[p] # <<>>
    <3>1. Head(fields'[p]) \in Obj /\ In(Head(fields'[p]), fields'[p])
      BY <2>1, InTail
    <3>2. In(Head(fields'[p]), fields[p])
      BY <1>1, <3>1 DEF Loses
    <3> QED
      BY <3>2, InEmpty
  <2>3. In(p, dropping)
    BY <1>1, <2>2 DEF Loses, DeadDropping
  <2>4. \A x : In(x, dropping) => In(x, Append(dropping, o))
    BY <1>1, InAppend DEF Loses, IInv, TypeOK
  <2> QED
    BY <1>1, <2>3, <2>4 DEF Loses, DropUnlessOwned
<1>2. ASSUME NEW new, Grows(new)
      PROVE  DeadDropping'
  BY <1>2 DEF Grows, DeadDropping
<1>3. CASE UserCall
  BY <1>1, <1>2, <1>3, UserCallGrowsOrLoses
<1>4. CASE ReleaseField
  BY <1>1, <1>4, ReleaseFieldLoses
<1>5. CASE DeleteEngineObject
  BY <1>5, TopProperties DEF DeleteEngineObject, DeadDropping
<1>6. CASE EndDrop
  BY <1>6, TopProperties DEF EndDrop, DeadDropping
<1>7. CASE UNCHANGED vars
  BY <1>7 DEF vars, DeadDropping
<1> QED
  BY <1>3, <1>4, <1>5, <1>6, <1>7 DEF Next, DropStep

\* What lives between two statements is held by a level, itself or through an
\* instance.
LEMMA NothingRemains == EInv /\ FieldKinds /\ DeadDropping => NothingOfACallRemains
<1> SUFFICES ASSUME EInv, FieldKinds, DeadDropping, Idle, NEW o \in live, o \in OfACall
             PROVE  \E k \in 1..Len(levels) : \E p \in Obj :
                      In(p, levels[k].locals) /\ (o = p \/ In(o, fields[p]))
  BY DEF NothingOfACallRemains, OfACall
<1>1. \A x : ~In(x, dropping)
  BY InEmpty DEF Idle
<1>2. ASSUME NEW x \in live, x \in OfACall
      PROVE  x \in Obj /\ (user[x] > 0 \/ \E p \in Obj : In(x, fields[p]))
  <2>1. x \in Obj /\ Owned(x, user, fields)
    BY <1>1 DEF EInv, IInv, TypeOK, LiveOwnedOrDropping
  <2>2. ~Managed(x)
    <3>1. x \notin Desc /\ x \notin HostModule
      BY <1>2, KindAssumption DEF OfACall
    <3>2. ASSUME NEW r \in Runtime
          PROVE  ~In(x, descs[r]) /\ ~In(x, hostModules[r])
      <4>1. descs[r] \in Seq(Desc) /\ hostModules[r] \in Seq(HostModule)
        BY DEF EInv, IInv, TypeOK
      <4> QED
        BY <3>1, <4>1, ElementOfSeq DEF In
    <3> QED
      BY <3>2 DEF Managed
  <2> QED
    BY <2>1, <2>2 DEF Owned
<1>3. ASSUME NEW x \in Obj, x \in OfACall, user[x] > 0
      PROVE  \E k \in 1..Len(levels) : In(x, levels[k].locals)
  <2>1. Placed(x)
    BY <1>3 DEF EInv, LevelsOK, Holds
  <2>2. x \notin executors
    BY <1>3, KindAssumption DEF EInv, LevelsOK, OfACall
  <2> QED
    BY <2>1, <2>2 DEF Placed
<1>4. CASE user[o] > 0
  BY <1>2, <1>3, <1>4
<1>5. ASSUME NEW p \in Obj, In(o, fields[p])
      PROVE  \E k \in 1..Len(levels) : In(p, levels[k].locals)
  <2>1. p \in Instance /\ o \in Obj
    BY <1>2, <1>5 DEF FieldKinds
  <2>2. p \in live
    BY <1>1, <1>5, InEmpty DEF DeadDropping
  <2>3. p \in OfACall /\ \A q \in Obj : ~In(p, fields[q])
    BY <2>1 DEF FieldKinds, OfACall
  <2>4. user[p] > 0
    BY <1>2, <2>2, <2>3
  <2> QED
    BY <1>3, <2>3, <2>4
<1> QED
  BY <1>2, <1>4, <1>5

\* Whichever statement of a call fails, at whatever depth, between two
\* statements no module, isolation or instance is left but those of the calls
\* under way (contract_executor.rs:79-100).
THEOREM CallsCleanUp == ExecSpec => []NothingOfACallRemains
<1>1. ExecInit => FieldKinds /\ DeadDropping
  BY InEmpty DEF ExecInit, Init, FieldKinds, DeadDropping
<1>2. EInv /\ FieldKinds /\ DeadDropping /\ [ExecNext]_execVars => (FieldKinds /\ DeadDropping)'
  BY StepIsRuntimeStep, NextKeepsFieldKinds, NextKeepsDeadDropping DEF EInv
<1> QED
  BY <1>1, <1>2, ExecutorsInvariant, NothingRemains, PTL DEF ExecSpec

=============================================================================
