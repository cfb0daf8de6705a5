-------------------------- MODULE ZenRuntimeProofs --------------------------
(***************************************************************************)
(* No wrapper an Rc refers to loses its engine object, none outlives its   *)
(* last Rc, and the engine is asked for creations and deletions in an      *)
(* order it allows, for any number of objects of each kind.                *)
(*                                                                         *)
(* The user's calls either add (objects, Rcs, entries of a runtime's       *)
(* lists) or take one Rc away, as a step of a drop does.  Grows and Loses  *)
(* say what the two have in common; the rest of a drop is shown by itself. *)
(* That a drop starts once and runs out follows for any number of objects. *)
(***************************************************************************)
EXTENDS ZenRuntime, SequenceLemmas, FiniteSetTheorems, TLAPS

-----------------------------------------------------------------------------
(* Membership in a sequence. *)

\* Nothing is in the empty sequence.
LEMMA InEmpty == \A x : ~In(x, <<>>)
BY EmptySeq DEF In

\* Only its element is in a sequence of one.
LEMMA InOne == \A x, a : In(x, <<a>>) <=> x = a
BY DEF In

\* Only its elements are in a sequence of three.
LEMMA InThree == \A x, a, b, c : In(x, <<a, b, c>>) <=> x \in {a, b, c}
BY DEF In

\* What is in a sequence after an append.
LEMMA InAppend ==
  ASSUME NEW S, NEW s \in Seq(S), NEW e \in S
  PROVE  Append(s, e) \in Seq(S) /\ \A x : In(x, Append(s, e)) <=> In(x, s) \/ x = e
BY AppendProperties, LenProperties DEF In

\* A sequence holds its head and what is in its tail.
LEMMA InTail ==
  ASSUME NEW S, NEW s \in Seq(S), s # <<>>
  PROVE  /\ Head(s) \in S /\ Tail(s) \in Seq(S) /\ In(Head(s), s)
         /\ \A x : In(x, s) <=> x = Head(s) \/ In(x, Tail(s))
<1>1. /\ Tail(s) \in Seq(S) /\ Len(Tail(s)) = Len(s) - 1
      /\ \A i \in 1..Len(Tail(s)) : Tail(s)[i] = s[i + 1]
      /\ Head(s) = s[1] /\ Len(s) \in Nat \ {0}
  BY HeadTailProperties, EmptySeq, LenProperties
<1>2. Head(s) \in S /\ In(Head(s), s)
  BY <1>1, ElementOfSeq DEF In
<1>3. ASSUME NEW x, In(x, s)
      PROVE  x = Head(s) \/ In(x, Tail(s))
  <2>1. PICK i \in 1..Len(s) : s[i] = x
    BY <1>3 DEF In
  <2>2. CASE i = 1
    BY <1>1, <2>1, <2>2
  <2>3. CASE i # 1
    <3>1. i - 1 \in 1..Len(Tail(s)) /\ Tail(s)[i - 1] = x
      BY <1>1, <2>1, <2>3
    <3> QED
      BY <3>1 DEF In
  <2> QED
    BY <2>2, <2>3
<1>4. ASSUME NEW x, In(x, Tail(s))
      PROVE  In(x, s)
  <2>1. PICK i \in 1..Len(Tail(s)) : Tail(s)[i] = x
    BY <1>4 DEF In
  <2>2. i + 1 \in 1..Len(s) /\ s[i + 1] = x
    BY <1>1, <2>1
  <2> QED
    BY <2>2 DEF In
<1> QED
  BY <1>1, <1>2, <1>3, <1>4

\* A sequence holds its last element and what is in front of it.
LEMMA InFront ==
  ASSUME NEW S, NEW s \in Seq(S), s # <<>>
  PROVE  LET front == SubSeq(s, 1, Len(s) - 1)
             last == s[Len(s)]
         IN /\ front \in Seq(S) /\ last \in S /\ In(last, s)
            /\ \A x : In(x, front) => In(x, s)
            /\ \A x : In(x, s) => x = last \/ In(x, front)
<1> DEFINE n == Len(s) - 1
           front == SubSeq(s, 1, n)
<1>1. Len(s) \in Nat \ {0} /\ n \in Nat /\ n <= Len(s)
  BY EmptySeq, LenProperties
<1>3. /\ front \in Seq(S) /\ Len(front) = n
      /\ \A i \in 1..n : front[i] = s[i]
  BY <1>1, PrefixProperties
<1>2. s[Len(s)] \in S /\ In(s[Len(s)], s)
  BY <1>1, ElementOfSeq DEF In
<1>4. \A x : In(x, front) => In(x, s)
  BY <1>1, <1>3 DEF In
<1>5. ASSUME NEW x, In(x, s)
      PROVE  x = s[Len(s)] \/ In(x, front)
  <2>1. PICK i \in 1..Len(s) : s[i] = x
    BY <1>5 DEF In
  <2>2. CASE i = Len(s)
    BY <2>1, <2>2
  <2>3. CASE i # Len(s)
    <3>1. i \in 1..n /\ front[i] = x
      BY <1>1, <1>3, <2>1, <2>3
    <3> QED
      BY <1>3, <3>1 DEF In
  <2> QED
    BY <2>2, <2>3
<1> QED
  BY <1>2, <1>3, <1>4, <1>5

-----------------------------------------------------------------------------
(* Calls that add. *)

\* The wrappers in `new' are made; nothing is taken from the old ones but Rcs
\* of the user that others now hold.
Grows(new) ==
  /\ Idle /\ dropping' = dropping
  /\ new \subseteq Obj /\ new \intersect made = {}
  /\ made' = made \union new /\ live' = live \union new
  /\ user' \in [Obj -> 0..MaxHandles] /\ fields' \in [Obj -> Seq(Obj)]
  /\ descs' \in [Runtime -> Seq(Desc)] /\ hostModules' \in [Runtime -> Seq(HostModule)]
  /\ needs' \in [Obj -> SUBSET Obj]
  /\ \A o \in Obj \ new : fields'[o] = fields[o]
  /\ \A o \in Obj : user'[o] > 0 => o \in new \/ user[o] > 0
  /\ \A o \in live : user[o] > 0 => user'[o] > 0 \/ \E p \in Obj : In(o, fields'[p])
  /\ \A r \in Runtime, o \in Obj :
       /\ In(o, descs[r]) => In(o, descs'[r])
       /\ In(o, hostModules[r]) => In(o, hostModules'[r])
       /\ In(o, descs'[r]) => In(o, descs[r]) \/ (o \in new /\ In(r, fields'[o]))
       /\ In(o, hostModules'[r]) => In(o, hostModules[r]) \/ (o \in new /\ In(r, fields'[o]))
  /\ \A o \in new :
       /\ \A x \in Obj : In(x, fields'[o]) => x \in live
       /\ user'[o] > 0 \/ Managed(o)'
       /\ o \in Module => fields'[o] # <<>>
       /\ o \in Desc => Managed(o)'
  /\ \A o \in live' : \A x \in needs'[o] :
       (o \in live /\ x \in needs[o]) \/ In(x, fields'[o]) \/ Managed(x)'
  /\ \A o \in live : needs[o] \subseteq needs'[o]

\* A call that adds preserves the inductive invariant.
LEMMA GrowsKeepsIInv ==
  ASSUME IInv, NEW new, Grows(new)
  PROVE  IInv'
<1>1. TypeOK'
  <2>1. dropping' \in Seq(made')
    BY EmptySeq DEF IInv, TypeOK, Grows, Idle
  <2> QED
    BY <2>1 DEF IInv, TypeOK, Grows
<1>2. \A o \in Obj : ~In(o, dropping) /\ ~In(o, dropping')
  BY InEmpty DEF Grows, Idle
<1>3. \A o \in Obj : Managed(o) => Managed(o)'
  BY DEF Managed, Grows
<1>4. \A o \in Obj : Managed(o)' => Managed(o) \/ o \in new
  BY DEF Managed, Grows
<1>5. \A p, o \in Obj : In(o, fields'[p]) => In(o, fields[p]) \/ (p \in new /\ o \in live)
  BY DEF Grows
<1>6. \A p, o \in Obj : In(o, fields[p]) => In(o, fields'[p])
  BY DEF IInv, FieldsOfMade, Grows
<1>7. OwnedObjectsLive'
  <2> SUFFICES ASSUME NEW o \in Obj, Owned(o, user, fields)'
               PROVE  o \in live'
    BY DEF OwnedObjectsLive
  <2>1. user'[o] > 0 \/ Managed(o)' \/ \E p \in Obj : In(o, fields'[p])
    BY DEF Owned, Managed
  <2>2. Owned(o, user, fields) \/ o \in new \/ o \in live
    BY <1>4, <1>5, <2>1 DEF Owned, Grows
  <2> QED
    BY <2>2 DEF IInv, OwnedObjectsLive, Grows
<1>8. DropsUnowned'
  BY <1>2 DEF DropsUnowned
<1>9. LiveOwnedOrDropping'
  <2> SUFFICES ASSUME NEW o \in live'
               PROVE  Owned(o, user, fields)'
    BY DEF LiveOwnedOrDropping
  <2>1. o \in Obj
    BY <1>1 DEF TypeOK
  <2>2. user'[o] > 0 \/ Managed(o)' \/ \E p \in Obj : In(o, fields'[p])
    <3>1. CASE o \in new
      BY <3>1 DEF Grows
    <3>2. CASE o \in live
      <4>1. Owned(o, user, fields)
        BY <1>2, <2>1, <3>2 DEF IInv, LiveOwnedOrDropping
      <4> QED
        BY <1>3, <1>6, <2>1, <3>2, <4>1 DEF Owned, Grows
    <3> QED
      BY <3>1, <3>2 DEF Grows
  <2> QED
    BY <2>2 DEF Owned, Managed
<1>10. FieldsOfMade'
  BY <1>5 DEF IInv, FieldsOfMade, Grows
<1>11. ListedHoldRuntime'
  <2> SUFFICES ASSUME NEW r \in Runtime, NEW o \in Obj,
                      In(o, descs'[r]) \/ In(o, hostModules'[r])
               PROVE  In(r, fields'[o])
    BY DEF ListedHoldRuntime
  <2>1. CASE In(o, descs[r]) \/ In(o, hostModules[r])
    <3>1. In(r, fields[o]) /\ r \in Obj
      BY <2>1 DEF IInv, ListedHoldRuntime, Obj
    <3> QED
      BY <1>6, <3>1
  <2>2. CASE o \in new /\ In(r, fields'[o])
    BY <2>2
  <2> QED
    BY <2>1, <2>2 DEF Grows
<1>12. ModulesHoldRuntime'
  BY DEF IInv, TypeOK, ModulesHoldRuntime, Grows
<1>13. NeedsKept'
  <2> SUFFICES ASSUME NEW o \in live', NEW x \in needs'[o]
               PROVE  In(x, fields'[o]) \/ Managed(x)'
    BY DEF NeedsKept, Managed
  <2>1. o \in Obj /\ x \in Obj
    BY <1>1 DEF TypeOK
  <2>2. CASE o \in live /\ x \in needs[o]
    BY <1>3, <1>6, <2>1, <2>2 DEF IInv, NeedsKept
  <2> QED
    BY <2>2 DEF Grows
<1>14. DescsListed'
  <2> SUFFICES ASSUME NEW d \in Desc, d \in live'
               PROVE  Managed(d)'
    BY DEF DescsListed, Managed
  <2>1. d \in Obj
    BY DEF Obj
  <2> QED
    BY <1>3, <2>1 DEF IInv, DescsListed, Grows
<1> QED
  BY <1>1, <1>7, <1>8, <1>9, <1>10, <1>11, <1>12, <1>13, <1>14 DEF IInv

\* What the engine uses lives: NeedsKept and OwnedObjectsLive together.
LEMMA NeedsLive ==
  ASSUME IInv
  PROVE  \A o \in live : needs[o] \subseteq live
<1> SUFFICES ASSUME NEW o \in live, NEW x \in needs[o]
             PROVE  x \in live
  OBVIOUS
<1>1. o \in Obj /\ x \in Obj
  BY DEF IInv, TypeOK
<1>2. Owned(x, user, fields)
  BY <1>1 DEF IInv, NeedsKept, Owned
<1> QED
  BY <1>1, <1>2 DEF IInv, OwnedObjectsLive

\* A call that adds asks the engine for creations it allows.
LEMMA GrowsIsCreate ==
  ASSUME IInv, NEW new, Grows(new)
  PROVE  Engine!Create
<1>1. IInv'
  BY GrowsKeepsIInv
<1>2. \A o \in live' : needs'[o] \subseteq live'
  <2> SUFFICES ASSUME NEW o \in live', NEW x \in needs'[o]
               PROVE  x \in live'
    OBVIOUS
  <2>1. o \in Obj /\ x \in Obj
    BY <1>1 DEF IInv, TypeOK
  <2>2. In(x, fields'[o]) \/ Managed(x)'
    BY <1>1 DEF IInv, NeedsKept, Managed
  <2>3. Owned(x, user, fields)'
    BY <2>1, <2>2 DEF Owned, Managed
  <2> QED
    BY <1>1, <2>1, <2>3 DEF IInv, OwnedObjectsLive
<1> QED
  BY <1>1, <1>2 DEF Engine!Create, Grows, IInv, TypeOK

-----------------------------------------------------------------------------
(* Steps that take an Rc away. *)

\* One Rc of o goes; only a wrapper whose object is deleted gives up a field.
Loses(o) ==
  /\ o \in made /\ Owned(o, user, fields)
  /\ UNCHANGED <<made, descs, hostModules, live, needs>>
  /\ user' \in [Obj -> 0..MaxHandles] /\ fields' \in [Obj -> Seq(Obj)]
  /\ \A x \in Obj : user'[x] > 0 => user[x] > 0
  /\ \A x \in Obj \ {o} : user[x] > 0 => user'[x] > 0
  /\ \A p, x \in Obj : In(x, fields'[p]) => In(x, fields[p])
  /\ \A p \in Obj, x \in Obj \ {o} : In(x, fields[p]) => In(x, fields'[p])
  /\ \A p \in Obj : fields'[p] # fields[p] => p \notin live /\ ~Managed(p)
  /\ DropUnlessOwned(o, user', fields')

\* A step that takes one Rc away preserves the inductive invariant.
LEMMA LosesKeepsIInv ==
  ASSUME IInv, NEW o, Loses(o)
  PROVE  IInv'
<1> USE DEF IInv
<1>1. o \in Obj
  BY DEF TypeOK, Loses
<1>2. \A x : Managed(x)' <=> Managed(x)
  BY DEF Managed, Loses
<1>3. \A x : Owned(x, user, fields)' <=> Owned(x, user', fields')
  BY <1>2 DEF Owned
<1>4. \A x \in Obj : Owned(x, user, fields)' => Owned(x, user, fields)
  BY <1>2 DEF Owned, Loses
<1>5. \A x \in Obj \ {o} : Owned(x, user, fields) => Owned(x, user, fields)'
  BY <1>2 DEF Owned, Loses
<1>6. /\ dropping' \in Seq(made)
      /\ \A x : In(x, dropping) => In(x, dropping')
      /\ \A x : In(x, dropping') => In(x, dropping) \/ (x = o /\ ~Owned(o, user, fields)')
      /\ Owned(o, user, fields)' \/ In(o, dropping')
  <2>1. /\ Append(dropping, o) \in Seq(made)
        /\ \A x : In(x, Append(dropping, o)) <=> In(x, dropping) \/ x = o
    BY InAppend DEF TypeOK, Loses
  <2> QED
    BY <1>3, <2>1 DEF TypeOK, Loses, DropUnlessOwned
<1>7. TypeOK'
  BY <1>6 DEF TypeOK, Loses
<1>8. OwnedObjectsLive'
  BY <1>4 DEF OwnedObjectsLive, Loses
<1>9. DropsUnowned'
  BY <1>4, <1>6 DEF DropsUnowned
<1>10. LiveOwnedOrDropping'
  BY <1>5, <1>6, <1>7 DEF LiveOwnedOrDropping, TypeOK, Loses
<1>11. FieldsOfMade'
  BY DEF FieldsOfMade, Loses
<1>12. ListedHoldRuntime'
  <2> SUFFICES ASSUME NEW r \in Runtime, NEW x \in Obj,
                      In(x, descs[r]) \/ In(x, hostModules[r])
               PROVE  In(r, fields'[x])
    BY DEF ListedHoldRuntime, Loses
  <2>1. In(r, fields[x]) /\ Managed(x)
    BY DEF ListedHoldRuntime, Managed
  <2> QED
    BY <2>1 DEF Loses
<1>13. ModulesHoldRuntime'
  BY DEF ModulesHoldRuntime, Loses, Obj
<1>14. NeedsKept'
  <2> SUFFICES ASSUME NEW p \in live, NEW x \in needs[p]
               PROVE  In(x, fields'[p]) \/ Managed(x)'
    BY DEF NeedsKept, Managed, Loses
  <2>1. p \in Obj /\ fields'[p] = fields[p]
    BY DEF TypeOK, Loses
  <2> QED
    BY <1>2, <2>1 DEF NeedsKept
<1>15. DescsListed'
  BY <1>2 DEF DescsListed, Managed, Loses
<1> QED
  BY <1>7, <1>8, <1>9, <1>10, <1>11, <1>12, <1>13, <1>14, <1>15

-----------------------------------------------------------------------------
(* The other steps of a drop. *)

\* The wrapper whose drop is in progress was made and is not owned.
LEMMA TopProperties ==
  ASSUME IInv, ~Idle
  PROVE  /\ Top \in made /\ Top \in Obj /\ In(Top, dropping)
         /\ ~Owned(Top, user, fields)
         /\ SubSeq(dropping, 1, Len(dropping) - 1) \in Seq(made)
         /\ \A x : In(x, SubSeq(dropping, 1, Len(dropping) - 1)) => In(x, dropping)
         /\ \A x : In(x, dropping) =>
              x = Top \/ In(x, SubSeq(dropping, 1, Len(dropping) - 1))
<1>1. dropping \in Seq(made) /\ dropping # <<>> /\ made \subseteq Obj
  BY DEF IInv, TypeOK, Idle
<1>2. /\ Top \in made /\ In(Top, dropping)
      /\ SubSeq(dropping, 1, Len(dropping) - 1) \in Seq(made)
      /\ \A x : In(x, SubSeq(dropping, 1, Len(dropping) - 1)) => In(x, dropping)
      /\ \A x : In(x, dropping) =>
           x = Top \/ In(x, SubSeq(dropping, 1, Len(dropping) - 1))
  BY <1>1, InFront DEF Top
<1> QED
  BY <1>1, <1>2 DEF IInv, DropsUnowned

\* A runtime that is dropped lists nothing: what it listed would own it.
LEMMA DroppedRuntimeListsNothing ==
  ASSUME IInv, ~Idle, Top \in Runtime
  PROVE  \A x \in Obj : ~In(x, descs[Top]) /\ ~In(x, hostModules[Top])
BY TopProperties DEF IInv, ListedHoldRuntime, Owned

\* Deleting the engine object of the dropped wrapper preserves the invariant.
LEMMA DeleteKeepsIInv ==
  ASSUME IInv, DeleteEngineObject
  PROVE  IInv'
<1> USE DEF IInv
<1>1. /\ ~Idle /\ Top \in live /\ live' = live \ {Top}
      /\ UNCHANGED <<made, user, fields, dropping, needs>>
  BY DEF DeleteEngineObject
<1>2. \A r \in Runtime, x \in Obj :
        /\ In(x, descs'[r]) <=> In(x, descs[r])
        /\ In(x, hostModules'[r]) <=> In(x, hostModules[r])
  BY <1>1, InEmpty, DroppedRuntimeListsNothing DEF DeleteEngineObject
<1>3. \A x \in Obj : Managed(x)' <=> Managed(x)
  BY <1>2 DEF Managed
<1>4. \A x \in Obj : Owned(x, user, fields)' <=> Owned(x, user, fields)
  BY <1>1, <1>3 DEF Owned
<1>5. TypeOK'
  BY <1>1 DEF TypeOK, DeleteEngineObject
<1>6. OwnedObjectsLive'
  BY <1>1, <1>4, TopProperties DEF OwnedObjectsLive
<1>7. DropsUnowned'
  BY <1>1, <1>4 DEF DropsUnowned
<1>8. LiveOwnedOrDropping'
  BY <1>1, <1>4, <1>5 DEF LiveOwnedOrDropping, TypeOK
<1>9. FieldsOfMade'
  BY <1>1 DEF FieldsOfMade
<1>10. ListedHoldRuntime'
  BY <1>1, <1>2 DEF ListedHoldRuntime
<1>11. ModulesHoldRuntime'
  BY <1>1 DEF ModulesHoldRuntime
<1>12. NeedsKept'
  BY <1>1, <1>3, <1>5 DEF NeedsKept, TypeOK
<1>13. DescsListed'
  <2>1. Desc \subseteq Obj
    BY DEF Obj
  <2> QED
    BY <1>1, <1>3, <2>1 DEF DescsListed
<1> QED
  BY <1>5, <1>6, <1>7, <1>8, <1>9, <1>10, <1>11, <1>12, <1>13

\* The engine uses the deleted object through none of those it keeps.
LEMMA DeleteIsDelete ==
  ASSUME IInv, DeleteEngineObject
  PROVE  Engine!Delete(Top)
<1>1. /\ Top \in live /\ live' = live \ {Top} /\ UNCHANGED needs
      /\ Top \in Obj /\ ~Owned(Top, user, fields)
  BY TopProperties DEF DeleteEngineObject
<1>2. \A p \in live : Top \notin needs[p]
  BY <1>1 DEF IInv, TypeOK, NeedsKept, Owned
<1> QED
  BY <1>1, <1>2 DEF Engine!Delete

\* The end of a drop preserves the inductive invariant.
LEMMA EndDropKeepsIInv ==
  ASSUME IInv, EndDrop
  PROVE  IInv'
<1> USE DEF IInv
<1>1. /\ ~Idle /\ Top \notin live
      /\ UNCHANGED <<made, user, fields, descs, hostModules, live, needs>>
      /\ dropping' = SubSeq(dropping, 1, Len(dropping) - 1)
  BY DEF EndDrop
<1>2. /\ dropping' \in Seq(made)
      /\ \A x : In(x, dropping') => In(x, dropping)
      /\ \A x : In(x, dropping) => x = Top \/ In(x, dropping')
  BY <1>1, TopProperties
<1>3. \A x : Managed(x)' <=> Managed(x)
  BY <1>1 DEF Managed
<1>4. \A x : Owned(x, user, fields)' <=> Owned(x, user, fields)
  BY <1>1, <1>3 DEF Owned
<1>5. TypeOK'
  BY <1>1, <1>2 DEF TypeOK
<1>6. OwnedObjectsLive' /\ DropsUnowned' /\ LiveOwnedOrDropping'
  BY <1>1, <1>2, <1>4 DEF OwnedObjectsLive, DropsUnowned, LiveOwnedOrDropping
<1>7. FieldsOfMade' /\ ListedHoldRuntime' /\ ModulesHoldRuntime'
  BY <1>1 DEF FieldsOfMade, ListedHoldRuntime, ModulesHoldRuntime
<1>8. NeedsKept' /\ DescsListed'
  BY <1>1, <1>3 DEF NeedsKept, DescsListed
<1> QED
  BY <1>5, <1>6, <1>7, <1>8

-----------------------------------------------------------------------------
(* The user's calls, one by one. *)

\* What the user has an Rc of lives.
LEMMA HeldLive ==
  ASSUME IInv
  PROVE  \A o \in Obj : Holds(o) => o \in live /\ o \in made
BY DEF IInv, TypeOK, OwnedObjectsLive, Owned, Holds

\* The count of Rcs a new wrapper starts with.
LEMMA OneIsAllowed == 1 \in 0..MaxHandles /\ 0 \in 0..MaxHandles
BY HandleAssumption

\* One wrapper is made, and the user holds it; the lists grow by it at most.
Adds(o, fs, through) ==
  /\ Idle /\ Fresh(o) /\ Make(o, fs, through) /\ UNCHANGED dropping
  /\ \A x \in Obj : In(x, fs) => x \in live
  /\ o \in Module => fs # <<>>
  /\ o \in Desc => Managed(o)'
  /\ \A x \in through : In(x, fs) \/ Managed(x)'
  /\ user' \in [Obj -> 0..MaxHandles] /\ user'[o] > 0
  /\ \A x \in Obj \ {o} : user'[x] > 0 => user[x] > 0
  /\ \A x \in Obj \ {o} : user[x] > 0 => user'[x] > 0 \/ In(x, fs)
  /\ descs' \in [Runtime -> Seq(Desc)] /\ hostModules' \in [Runtime -> Seq(HostModule)]
  /\ \A r \in Runtime, x \in Obj :
       /\ In(x, descs[r]) => In(x, descs'[r])
       /\ In(x, hostModules[r]) => In(x, hostModules'[r])
       /\ In(x, descs'[r]) => In(x, descs[r]) \/ (x = o /\ In(r, fs))
       /\ In(x, hostModules'[r]) => In(x, hostModules[r]) \/ (x = o /\ In(r, fs))

\* Making one wrapper that the user holds is a call that adds.
LEMMA AddsGrows ==
  ASSUME IInv, NEW o \in Obj, NEW fs \in Seq(Obj), NEW through \in SUBSET Obj,
         Adds(o, fs, through)
  PROVE  Grows({o})
<1>1. /\ made' = made \union {o} /\ live' = live \union {o}
      /\ fields' = [fields EXCEPT ![o] = fs] /\ needs' = [needs EXCEPT ![o] = through]
  BY DEF Adds, Make
<1>2. /\ fields \in [Obj -> Seq(Obj)] /\ needs \in [Obj -> SUBSET Obj]
      /\ live \subseteq made /\ made \subseteq Obj
  BY DEF IInv, TypeOK
<1>3. /\ fields' \in [Obj -> Seq(Obj)] /\ needs' \in [Obj -> SUBSET Obj]
      /\ fields'[o] = fs /\ needs'[o] = through
      /\ \A p \in Obj \ {o} : fields'[p] = fields[p] /\ needs'[p] = needs[p]
  BY <1>1, <1>2
<1>4. o \notin live /\ o \notin made
  BY <1>2 DEF Adds, Fresh
<1>5. \A x \in live : user[x] > 0 => user'[x] > 0 \/ \E p \in Obj : In(x, fields'[p])
  BY <1>2, <1>3, <1>4 DEF Adds
<1>6. \A p \in live' : \A x \in needs'[p] :
        (p \in live /\ x \in needs[p]) \/ In(x, fields'[p]) \/ Managed(x)'
  BY <1>1, <1>2, <1>3 DEF Adds, Managed
<1>7. \A p \in live : needs[p] \subseteq needs'[p]
  BY <1>2, <1>3, <1>4
<1> QED
  BY <1>1, <1>2, <1>3, <1>4, <1>5, <1>6, <1>7 DEF Grows, Adds, Managed

\* A new runtime is added without fields.
LEMMA NewRuntimeGrows ==
  ASSUME IInv, NEW r \in Runtime, NewRuntime(r)
  PROVE  Grows({r})
<1>1. r \in Obj /\ r \notin Module /\ r \notin Desc
  BY KindAssumption DEF Obj
<1>2. <<>> \in Seq(Obj) /\ {} \in SUBSET Obj
  BY EmptySeq
<1>3. /\ user' \in [Obj -> 0..MaxHandles] /\ user'[r] = 1
      /\ \A x \in Obj \ {r} : user'[x] = user[x]
      /\ descs' = descs /\ hostModules' = hostModules
  BY <1>1, OneIsAllowed DEF IInv, TypeOK, NewRuntime
<1>4. descs' \in [Runtime -> Seq(Desc)] /\ hostModules' \in [Runtime -> Seq(HostModule)]
  BY <1>3 DEF IInv, TypeOK
<1>5. Idle /\ Fresh(r) /\ Make(r, <<>>, {}) /\ UNCHANGED dropping
  BY DEF NewRuntime
<1>6. Adds(r, <<>>, {})
  BY <1>1, <1>2, <1>3, <1>4, <1>5, InEmpty DEF Adds, Managed
<1> QED
  BY <1>1, <1>6, <1>2, AddsGrows

\* A new desc is added with its runtime, which lists it.
LEMMA CreateHostModuleDescGrows ==
  ASSUME IInv, NEW r \in Runtime, NEW d \in Desc, CreateHostModuleDesc(r, d)
  PROVE  Grows({d})
<1>1. /\ r \in Obj /\ d \in Obj /\ d \notin Module
      /\ <<r>> \in Seq(Obj) /\ {r} \in SUBSET Obj
  BY KindAssumption DEF Obj
<1>2. r \in live /\ d # r
  BY <1>1, HeldLive DEF CreateHostModuleDesc, Fresh
<1>3. /\ user' \in [Obj -> 0..MaxHandles] /\ user'[d] = 1
      /\ \A x \in Obj \ {d} : user'[x] = user[x]
      /\ hostModules' = hostModules
  BY <1>1, OneIsAllowed DEF IInv, TypeOK, CreateHostModuleDesc
<1>4. hostModules' \in [Runtime -> Seq(HostModule)] /\ descs[r] \in Seq(Desc)
  BY <1>3 DEF IInv, TypeOK
<1>5. /\ Append(descs[r], d) \in Seq(Desc)
      /\ \A x : In(x, Append(descs[r], d)) <=> In(x, descs[r]) \/ x = d
  BY <1>4, InAppend
<1>6. /\ descs' \in [Runtime -> Seq(Desc)] /\ descs'[r] = Append(descs[r], d)
      /\ \A q \in Runtime \ {r} : descs'[q] = descs[q]
  BY <1>5 DEF IInv, TypeOK, CreateHostModuleDesc
<1>7. Managed(d)'
  BY <1>5, <1>6 DEF Managed
<1>8. Idle /\ Fresh(d) /\ Make(d, <<r>>, {r}) /\ UNCHANGED dropping
  BY DEF CreateHostModuleDesc
<1>9. \A q \in Runtime, x \in Obj :
        /\ In(x, descs[q]) => In(x, descs'[q])
        /\ In(x, descs'[q]) => In(x, descs[q]) \/ (x = d /\ In(q, <<r>>))
  BY <1>5, <1>6, InOne
<1>10. Adds(d, <<r>>, {r})
  <2>1. \A x \in Obj : In(x, <<r>>) => x \in live
    BY <1>2, InOne
  <2>2. \A x \in {r} : In(x, <<r>>) \/ Managed(x)'
    BY InOne
  <2>3. /\ user'[d] > 0
        /\ \A x \in Obj \ {d} : user'[x] > 0 => user[x] > 0
        /\ \A x \in Obj \ {d} : user[x] > 0 => user'[x] > 0 \/ In(x, <<r>>)
    BY <1>3
  <2>4. \A q \in Runtime, x \in Obj :
       /\ In(x, descs[q]) => In(x, descs'[q])
       /\ In(x, hostModules[q]) => In(x, hostModules'[q])
       /\ In(x, descs'[q]) => In(x, descs[q]) \/ (x = d /\ In(q, <<r>>))
       /\ In(x, hostModules'[q]) => In(x, hostModules[q]) \/ (x = d /\ In(q, <<r>>))
    BY <1>3, <1>9
  <2> QED
    BY <1>1, <1>3, <1>4, <1>6, <1>7, <1>8, <2>1, <2>2, <2>3, <2>4 DEF Adds
<1> QED
  BY <1>1, <1>10, AddsGrows

\* A new host module is added with its runtime, which lists it and its desc.
LEMMA LoadHostModuleGrows ==
  ASSUME IInv, NEW r \in Runtime, NEW d \in Desc, NEW h \in HostModule, LoadHostModule(r, d, h)
  PROVE  Grows({h})
<1>1. /\ r \in Obj /\ d \in Obj /\ h \in Obj /\ h \notin Module /\ h \notin Desc
      /\ <<r>> \in Seq(Obj) /\ {r, d} \in SUBSET Obj
  BY KindAssumption DEF Obj
<1>2. r \in live /\ d \in live
  BY <1>1, HeldLive DEF LoadHostModule
<1>3. /\ user' \in [Obj -> 0..MaxHandles] /\ user'[h] = 1
      /\ \A x \in Obj \ {h} : user'[x] = user[x]
      /\ descs' = descs
  BY <1>1, OneIsAllowed DEF IInv, TypeOK, LoadHostModule
<1>4. descs' \in [Runtime -> Seq(Desc)] /\ hostModules[r] \in Seq(HostModule)
  BY <1>3 DEF IInv, TypeOK
<1>5. /\ Append(hostModules[r], h) \in Seq(HostModule)
      /\ \A x : In(x, Append(hostModules[r], h)) <=> In(x, hostModules[r]) \/ x = h
  BY <1>4, InAppend
<1>6. /\ hostModules' \in [Runtime -> Seq(HostModule)]
      /\ hostModules'[r] = Append(hostModules[r], h)
      /\ \A q \in Runtime \ {r} : hostModules'[q] = hostModules[q]
  BY <1>5 DEF IInv, TypeOK, LoadHostModule
<1>7. \A q \in Runtime, x \in Obj :
        /\ In(x, hostModules[q]) => In(x, hostModules'[q])
        /\ In(x, hostModules'[q]) => In(x, hostModules[q]) \/ (x = h /\ In(q, <<r>>))
  BY <1>5, <1>6, InOne
<1>8. Managed(d)'
  <2>1. Managed(d)
    BY <1>2 DEF IInv, DescsListed
  <2> QED
    BY <1>1, <1>3, <1>7, <2>1 DEF Managed
<1>9. Idle /\ Fresh(h) /\ Make(h, <<r>>, {r, d}) /\ UNCHANGED dropping
  BY DEF LoadHostModule
<1>10. Adds(h, <<r>>, {r, d})
  <2>1. \A x \in Obj : In(x, <<r>>) => x \in live
    BY <1>2, InOne
  <2>2. \A x \in {r, d} : In(x, <<r>>) \/ Managed(x)'
    BY <1>8, InOne DEF Managed
  <2>3. /\ user'[h] > 0
        /\ \A x \in Obj \ {h} : user'[x] > 0 => user[x] > 0
        /\ \A x \in Obj \ {h} : user[x] > 0 => user'[x] > 0 \/ In(x, <<r>>)
    BY <1>3
  <2>4. \A q \in Runtime, x \in Obj :
       /\ In(x, descs[q]) => In(x, descs'[q])
       /\ In(x, hostModules[q]) => In(x, hostModules'[q])
       /\ In(x, descs'[q]) => In(x, descs[q]) \/ (x = h /\ In(q, <<r>>))
       /\ In(x, hostModules'[q]) => In(x, hostModules[q]) \/ (x = h /\ In(q, <<r>>))
    BY <1>3, <1>7
  <2> QED
    BY <1>1, <1>3, <1>4, <1>6, <1>9, <2>1, <2>2, <2>3, <2>4 DEF Adds
<1> QED
  BY <1>1, <1>10, AddsGrows

\* What only needs its runtime.
LEMMA OnRuntimeAdds ==
  ASSUME IInv, NEW r \in Runtime, Holds(r), NEW o \in Obj, NEW through \in SUBSET Obj,
         o \notin Desc, Idle, Fresh(o), Make(o, <<r>>, through),
         \A x \in through : x = r \/ Managed(x),
         user' = [user EXCEPT ![o] = 1],
         UNCHANGED <<descs, hostModules, dropping>>
  PROVE  Grows({o})
<1>1. r \in Obj /\ <<r>> \in Seq(Obj)
  BY DEF Obj
<1>2. r \in live
  BY <1>1, HeldLive
<1>3. /\ user' \in [Obj -> 0..MaxHandles] /\ user'[o] = 1
      /\ \A x \in Obj \ {o} : user'[x] = user[x]
  BY OneIsAllowed DEF IInv, TypeOK
<1>4. descs' \in [Runtime -> Seq(Desc)] /\ hostModules' \in [Runtime -> Seq(HostModule)]
  BY DEF IInv, TypeOK
<1>5. \A x \in Obj : In(x, <<r>>) => x \in live
  BY <1>2, InOne
<1>6. \A x \in through : In(x, <<r>>) \/ Managed(x)'
  BY InOne DEF Managed
<1>7. /\ user'[o] > 0
      /\ \A x \in Obj \ {o} : user'[x] > 0 => user[x] > 0
      /\ \A x \in Obj \ {o} : user[x] > 0 => user'[x] > 0 \/ In(x, <<r>>)
  BY <1>3
<1>8. \A q \in Runtime, x \in Obj :
       /\ In(x, descs[q]) => In(x, descs'[q])
       /\ In(x, hostModules[q]) => In(x, hostModules'[q])
       /\ In(x, descs'[q]) => In(x, descs[q]) \/ (x = o /\ In(q, <<r>>))
       /\ In(x, hostModules'[q]) => In(x, hostModules[q]) \/ (x = o /\ In(q, <<r>>))
  OBVIOUS
<1>9. Adds(o, <<r>>, through)
  BY <1>3, <1>4, <1>5, <1>6, <1>7, <1>8 DEF Adds
<1> QED
  BY <1>1, <1>9, AddsGrows

\* A new module is added; the host modules it may import from are listed.
LEMMA LoadModuleGrows ==
  ASSUME IInv, NEW r \in Runtime, NEW m \in Module, LoadModule(r, m)
  PROVE  Grows({m})
<1> DEFINE through == {r} \union {h \in HostModule : In(h, hostModules[r])}
<1>1. /\ m \in Obj /\ m \notin Desc /\ through \in SUBSET Obj
      /\ \A x \in through : x = r \/ Managed(x)
  BY KindAssumption DEF Obj, Managed
<1> HIDE DEF through
<1>2. /\ Holds(r) /\ Idle /\ Fresh(m) /\ Make(m, <<r>>, through)
      /\ user' = [user EXCEPT ![m] = 1]
      /\ UNCHANGED <<descs, hostModules, dropping>>
  BY DEF LoadModule, through
<1> QED
  BY <1>1, <1>2, OnRuntimeAdds

\* A new isolation is added with its runtime.
LEMMA NewIsolationGrows ==
  ASSUME IInv, NEW r \in Runtime, NEW i \in Isolation, NewIsolation(r, i)
  PROVE  Grows({i})
<1>1. i \in Obj /\ i \notin Desc /\ {r} \in SUBSET Obj
  BY KindAssumption DEF Obj
<1>2. /\ Holds(r) /\ Idle /\ Fresh(i) /\ Make(i, <<r>>, {r})
      /\ user' = [user EXCEPT ![i] = 1]
      /\ UNCHANGED <<descs, hostModules, dropping>>
  BY DEF NewIsolation
<1> QED
  BY <1>1, <1>2, OnRuntimeAdds

\* The runtime a module gives to its instances is there.
LEMMA ModuleHasRuntime ==
  ASSUME IInv, NEW m \in Module, Holds(m)
  PROVE  fields[m][1] \in live /\ fields[m][1] \in Obj
<1>1. m \in Obj
  BY DEF Obj
<1>2. m \in live
  BY <1>1, HeldLive
<1>3. fields[m] \in Seq(Obj) /\ fields[m] # <<>>
  BY <1>1, <1>2 DEF IInv, TypeOK, ModulesHoldRuntime
<1>4. Len(fields[m]) \in Nat \ {0}
  BY <1>3, EmptySeq, LenProperties
<1>5. fields[m][1] \in Obj /\ In(fields[m][1], fields[m])
  BY <1>3, <1>4, ElementOfSeq DEF In
<1>6. Owned(fields[m][1], user, fields)
  BY <1>1, <1>5 DEF Owned
<1> QED
  BY <1>5, <1>6 DEF IInv, OwnedObjectsLive

\* A new instance is added; the isolation's Rc moves into it.
LEMMA NewInstanceGrows ==
  ASSUME IInv, NEW m \in Module, NEW i \in Isolation, NEW n \in Instance, NewInstance(m, i, n)
  PROVE  Grows({n})
<1> DEFINE r == fields[m][1]
           fs == <<i, m, r>>
<1>1. Idle /\ Fresh(n) /\ Holds(m) /\ Holds(i) /\ Make(n, fs, {i, m, r})
      /\ user' = [user EXCEPT ![i] = @ - 1, ![n] = 1]
      /\ UNCHANGED <<descs, hostModules, dropping>>
  BY DEF NewInstance
<1>2. r \in live /\ r \in Obj
  BY <1>1, ModuleHasRuntime
<1> HIDE DEF r
<1>3. /\ n \in Obj /\ i \in Obj /\ m \in Obj /\ n \notin Desc /\ n \notin Module
      /\ fs \in Seq(Obj) /\ {i, m, r} \in SUBSET Obj
  BY <1>2, KindAssumption DEF Obj
<1>4. i \in live /\ m \in live /\ i # n
  BY <1>1, <1>3, HeldLive DEF Fresh
<1>5. \A x : In(x, fs) <=> x \in {i, m, r}
  BY InThree
<1>6. \A x \in Obj : In(x, fs) => x \in live
  BY <1>2, <1>4, <1>5
<1>7. /\ user' \in [Obj -> 0..MaxHandles] /\ user'[n] = 1
      /\ \A x \in Obj \ {i, n} : user'[x] = user[x]
      /\ user'[i] > 0 => user[i] > 0
  <2>1. user[i] - 1 \in 0..MaxHandles /\ user[i] > 0
    BY <1>1, <1>3, HandleAssumption DEF IInv, TypeOK, Holds
  <2>2. user \in [Obj -> 0..MaxHandles]
    BY DEF IInv, TypeOK
  <2>3. [user EXCEPT ![i] = user[i] - 1] \in [Obj -> 0..MaxHandles]
    BY <2>1, <2>2
  <2> QED
    BY <1>1, <1>3, <1>4, <2>1, <2>2, <2>3, OneIsAllowed
<1> HIDE DEF fs
<1>8. /\ user'[n] > 0
      /\ \A x \in Obj \ {n} : user'[x] > 0 => user[x] > 0
      /\ \A x \in Obj \ {n} : user[x] > 0 => user'[x] > 0 \/ In(x, fs)
  BY <1>5, <1>7
<1>9. descs' \in [Runtime -> Seq(Desc)] /\ hostModules' \in [Runtime -> Seq(HostModule)]
  BY <1>1 DEF IInv, TypeOK
<1>10. \A q \in Runtime, x \in Obj :
       /\ In(x, descs[q]) => In(x, descs'[q])
       /\ In(x, hostModules[q]) => In(x, hostModules'[q])
       /\ In(x, descs'[q]) => In(x, descs[q]) \/ (x = n /\ In(q, fs))
       /\ In(x, hostModules'[q]) => In(x, hostModules[q]) \/ (x = n /\ In(q, fs))
  BY <1>1
<1>11. \A x \in {i, m, r} : In(x, fs) \/ Managed(x)'
  BY <1>5
<1>12. Adds(n, fs, {i, m, r})
  BY <1>1, <1>3, <1>6, <1>7, <1>8, <1>9, <1>10, <1>11 DEF Adds
<1> QED
  BY <1>3, <1>12, AddsGrows

\* A merge gives at most one object the desc to use, and takes nothing away.
LEMMA MergedProperties ==
  ASSUME NEW t \in [Obj -> SUBSET Obj], NEW r \in Runtime, NEW d \in Obj,
         NEW through \in Merged(t, r, d)
  PROVE  /\ through \in [Obj -> SUBSET Obj]
         /\ \A o \in Obj : t[o] \subseteq through[o] /\ through[o] \subseteq t[o] \union {d}
BY DEF Merged

\* What create_host_module leaves behind in either case: the desc, listed.
LEMMA ListedDesc ==
  ASSUME IInv, NEW r \in Runtime, NEW d \in Desc,
         descs' = [descs EXCEPT ![r] = Append(@, d)]
  PROVE  /\ descs' \in [Runtime -> Seq(Desc)]
         /\ \A q \in Runtime : \A x : In(x, descs'[q]) <=> In(x, descs[q]) \/ (x = d /\ q = r)
         /\ Managed(d)'
<1>1. descs \in [Runtime -> Seq(Desc)] /\ descs[r] \in Seq(Desc)
  BY DEF IInv, TypeOK
<1>2. /\ Append(descs[r], d) \in Seq(Desc)
      /\ \A x : In(x, Append(descs[r], d)) <=> In(x, descs[r]) \/ x = d
  BY <1>1, InAppend
<1>3. descs' \in [Runtime -> Seq(Desc)]
  BY <1>1, <1>2
<1>4. \A q \in Runtime : \A x : In(x, descs'[q]) <=> In(x, descs[q]) \/ (x = d /\ q = r)
  BY <1>1, <1>2
<1>5. Managed(d)'
  BY <1>4 DEF Managed
<1> QED
  BY <1>3, <1>4, <1>5

\* create_host_module adds the desc and the host module, or the desc alone.
LEMMA CreateHostModuleGrows ==
  ASSUME IInv, NEW r \in Runtime, NEW d \in Desc, NEW h \in HostModule,
         CreateHostModule(r, d, h)
  PROVE  Grows({d, h}) \/ Grows({d})
<1> DEFINE t == [needs EXCEPT ![d] = {r}]
<1>1. /\ r \in Obj /\ d \in Obj /\ h \in Obj /\ d # h
      /\ d \notin Module /\ h \notin Module /\ h \notin Desc /\ <<r>> \in Seq(Obj)
  BY KindAssumption DEF Obj
<1>2. /\ Idle /\ d \notin made /\ h \notin made /\ Holds(r) /\ UNCHANGED dropping
      /\ descs' = [descs EXCEPT ![r] = Append(@, d)]
  BY DEF CreateHostModule, Fresh
<1>3. r \in live
  BY <1>1, <1>2, HeldLive
<1>4. /\ descs' \in [Runtime -> Seq(Desc)]
      /\ \A q \in Runtime : \A x : In(x, descs'[q]) <=> In(x, descs[q]) \/ (x = d /\ q = r)
      /\ Managed(d)'
  BY <1>2, ListedDesc
<1>5. live \subseteq made /\ made \subseteq Obj /\ needs \in [Obj -> SUBSET Obj]
      /\ fields \in [Obj -> Seq(Obj)] /\ user \in [Obj -> 0..MaxHandles]
      /\ hostModules \in [Runtime -> Seq(HostModule)]
  BY DEF IInv, TypeOK
<1>6. t \in [Obj -> SUBSET Obj] /\ t[d] = {r} /\ \A o \in Obj \ {d} : t[o] = needs[o]
  BY <1>1, <1>5
<1>7. PICK through \in Merged(t, r, d) :
       \/ /\ made' = made \union {d, h} /\ live' = live \union {d, h}
          /\ fields' = [fields EXCEPT ![d] = <<r>>, ![h] = <<r>>]
          /\ needs' = [through EXCEPT ![h] = {r, d}]
          /\ hostModules' = [hostModules EXCEPT ![r] = Append(@, h)]
          /\ user' = [user EXCEPT ![h] = 1]
       \/ /\ made' = made \union {d} /\ live' = live \union {d}
          /\ fields' = [fields EXCEPT ![d] = <<r>>]
          /\ needs' = through
          /\ UNCHANGED <<hostModules, user>>
  BY DEF CreateHostModule
<1> HIDE DEF t
<1>8. /\ through \in [Obj -> SUBSET Obj]
      /\ \A o \in Obj : t[o] \subseteq through[o] /\ through[o] \subseteq t[o] \union {d}
  BY <1>1, <1>6, MergedProperties
<1>9. \A o \in live : needs[o] \subseteq through[o]
  BY <1>2, <1>5, <1>6, <1>8
<1>10. \A o \in Obj \ {d} : through[o] \subseteq needs[o] \union {d}
  BY <1>6, <1>8
<1>11. through[d] \subseteq {r, d}
  BY <1>1, <1>6, <1>8
<1>12. CASE /\ made' = made \union {d, h} /\ live' = live \union {d, h}
            /\ fields' = [fields EXCEPT ![d] = <<r>>, ![h] = <<r>>]
            /\ needs' = [through EXCEPT ![h] = {r, d}]
            /\ hostModules' = [hostModules EXCEPT ![r] = Append(@, h)]
            /\ user' = [user EXCEPT ![h] = 1]
  <2>1. hostModules[r] \in Seq(HostModule)
    BY <1>5
  <2>2. /\ Append(hostModules[r], h) \in Seq(HostModule)
        /\ \A x : In(x, Append(hostModules[r], h)) <=> In(x, hostModules[r]) \/ x = h
    BY <2>1, InAppend
  <2>3. /\ hostModules' \in [Runtime -> Seq(HostModule)]
        /\ \A q \in Runtime : \A x :
             In(x, hostModules'[q]) <=> In(x, hostModules[q]) \/ (x = h /\ q = r)
    BY <1>5, <1>12, <2>2
  <2>4. /\ fields' \in [Obj -> Seq(Obj)] /\ fields'[d] = <<r>> /\ fields'[h] = <<r>>
        /\ \A o \in Obj \ {d, h} : fields'[o] = fields[o]
    BY <1>1, <1>5, <1>12
  <2>5. /\ user' \in [Obj -> 0..MaxHandles] /\ user'[h] = 1
        /\ \A o \in Obj \ {h} : user'[o] = user[o]
    BY <1>1, <1>5, <1>12, OneIsAllowed
  <2>6. /\ needs' \in [Obj -> SUBSET Obj] /\ needs'[h] = {r, d}
        /\ \A o \in Obj \ {h} : needs'[o] = through[o]
    BY <1>1, <1>8, <1>12
  <2>7. user[d] = 0
    BY <1>1, <1>2, <1>5, HeldLive DEF Holds
  <2>8. \A o \in {d, h} :
          /\ \A x \in Obj : In(x, fields'[o]) => x \in live
          /\ user'[o] > 0 \/ Managed(o)'
          /\ o \in Module => fields'[o] # <<>>
          /\ o \in Desc => Managed(o)'
    <3> SUFFICES ASSUME NEW o \in {d, h}
                 PROVE  /\ \A x \in Obj : In(x, fields'[o]) => x \in live
                        /\ user'[o] > 0 \/ Managed(o)'
                        /\ o \in Module => fields'[o] # <<>>
                        /\ o \in Desc => Managed(o)'
      OBVIOUS
    <3>1. fields'[o] = <<r>> /\ o \notin Module
      BY <1>1, <2>4
    <3>2. \A x \in Obj : In(x, fields'[o]) => x \in live
      BY <1>3, <3>1, InOne
    <3>3. o = d => Managed(o)'
      BY <1>4
    <3> QED
      BY <1>1, <3>1, <3>2, <3>3, <2>5
  <2>9. \A o \in live' : \A x \in needs'[o] :
          (o \in live /\ x \in needs[o]) \/ In(x, fields'[o]) \/ Managed(x)'
    <3> SUFFICES ASSUME NEW o \in live', NEW x \in needs'[o]
                 PROVE  (o \in live /\ x \in needs[o]) \/ In(x, fields'[o]) \/ Managed(x)'
      OBVIOUS
    <3>1. CASE o \in {d, h}
      <4>1. x \in {r, d} /\ fields'[o] = <<r>>
        BY <1>1, <1>11, <2>4, <2>6, <3>1
      <4> QED
        BY <1>4, <4>1, InOne
    <3>2. CASE o \in live
      <4>1. x \in needs[o] \/ x = d
        BY <1>2, <1>5, <1>10, <2>6, <3>2
      <4> QED
        BY <1>4, <3>2, <4>1
    <3> QED
      BY <1>12, <3>1, <3>2
  <2>10. \A o \in live : needs[o] \subseteq needs'[o]
    BY <1>2, <1>5, <1>9, <2>6
  <2>11. \A q \in Runtime, o \in Obj :
       /\ In(o, descs[q]) => In(o, descs'[q])
       /\ In(o, hostModules[q]) => In(o, hostModules'[q])
       /\ In(o, descs'[q]) => In(o, descs[q]) \/ (o \in {d, h} /\ In(q, fields'[o]))
       /\ In(o, hostModules'[q]) => In(o, hostModules[q]) \/ (o \in {d, h} /\ In(q, fields'[o]))
    <3>1. In(r, fields'[d]) /\ In(r, fields'[h])
      BY <2>4, InOne
    <3> QED
      BY <1>4, <2>3, <3>1
  <2>12. \A o \in Obj : user'[o] > 0 => o \in {d, h} \/ user[o] > 0
    BY <2>5
  <2>13. \A o \in live : user[o] > 0 => user'[o] > 0 \/ \E p \in Obj : In(o, fields'[p])
    BY <1>2, <1>5, <2>5
  <2>14. \A o \in Obj \ {d, h} : fields'[o] = fields[o]
    BY <2>4
  <2>15. {d, h} \subseteq Obj /\ {d, h} \intersect made = {}
    BY <1>1, <1>2
  <2> QED
    BY <1>2, <1>4, <1>12, <2>3, <2>4, <2>5, <2>6, <2>8, <2>9, <2>10, <2>11, <2>12, <2>13,
       <2>14, <2>15 DEF Grows
<1>13. CASE /\ made' = made \union {d} /\ live' = live \union {d}
            /\ fields' = [fields EXCEPT ![d] = <<r>>]
            /\ needs' = through
            /\ UNCHANGED <<hostModules, user>>
  <2>1. /\ fields' \in [Obj -> Seq(Obj)] /\ fields'[d] = <<r>>
        /\ \A o \in Obj \ {d} : fields'[o] = fields[o]
    BY <1>1, <1>5, <1>13
  <2>2. \A o \in {d} :
          /\ \A x \in Obj : In(x, fields'[o]) => x \in live
          /\ user'[o] > 0 \/ Managed(o)'
          /\ o \in Module => fields'[o] # <<>>
          /\ o \in Desc => Managed(o)'
    <3> SUFFICES ASSUME NEW o \in {d}
                 PROVE  /\ \A x \in Obj : In(x, fields'[o]) => x \in live
                        /\ user'[o] > 0 \/ Managed(o)'
                        /\ o \in Module => fields'[o] # <<>>
                        /\ o \in Desc => Managed(o)'
      OBVIOUS
    <3>1. fields'[o] = <<r>> /\ o \notin Module
      BY <1>1, <2>1
    <3>2. \A x \in Obj : In(x, fields'[o]) => x \in live
      BY <1>3, <3>1, InOne
    <3>3. o = d => Managed(o)'
      BY <1>4
    <3> QED
      BY <1>1, <3>1, <3>2, <3>3
  <2>3. \A o \in live' : \A x \in needs'[o] :
          (o \in live /\ x \in needs[o]) \/ In(x, fields'[o]) \/ Managed(x)'
    <3> SUFFICES ASSUME NEW o \in live', NEW x \in needs'[o]
                 PROVE  (o \in live /\ x \in needs[o]) \/ In(x, fields'[o]) \/ Managed(x)'
      OBVIOUS
    <3>1. CASE o = d
      <4>1. x \in {r, d} /\ fields'[o] = <<r>>
        BY <1>11, <1>13, <2>1, <3>1
      <4> QED
        BY <1>4, <4>1, InOne
    <3>2. CASE o \in live
      <4>1. x \in needs[o] \/ x = d
        BY <1>2, <1>5, <1>10, <1>13, <3>2
      <4> QED
        BY <1>4, <3>2, <4>1
    <3> QED
      BY <1>13, <3>1, <3>2
  <2>4. \A q \in Runtime, o \in Obj :
       /\ In(o, descs[q]) => In(o, descs'[q])
       /\ In(o, hostModules[q]) => In(o, hostModules'[q])
       /\ In(o, descs'[q]) => In(o, descs[q]) \/ (o \in {d} /\ In(q, fields'[o]))
       /\ In(o, hostModules'[q]) => In(o, hostModules[q]) \/ (o \in {d} /\ In(q, fields'[o]))
    BY <1>4, <1>13, <2>1, InOne
  <2>5. {d} \subseteq Obj /\ {d} \intersect made = {}
    BY <1>1, <1>2
  <2> QED
    BY <1>2, <1>4, <1>5, <1>8, <1>9, <1>13, <2>1, <2>2, <2>3, <2>4, <2>5 DEF Grows
<1> QED
  BY <1>7, <1>12, <1>13

\* Nothing is made: an Rc is cloned, or an object is given another to use.
LEMMA MergeHostModuleGrows ==
  ASSUME IInv, NEW r \in Runtime, NEW h \in HostModule, NEW d \in Desc,
         MergeHostModule(r, h, d)
  PROVE  Grows({})
<1>1. d \in Obj /\ h \in Obj
  BY DEF Obj
<1>2. /\ Idle /\ Holds(d) /\ needs' = [needs EXCEPT ![h] = @ \union {d}]
      /\ UNCHANGED <<made, user, fields, descs, hostModules, dropping, live>>
  BY DEF MergeHostModule, ours
<1>3. Managed(d)'
  <2>1. Managed(d)
    BY <1>1, <1>2, HeldLive DEF IInv, DescsListed
  <2> QED
    BY <1>2, <2>1 DEF Managed
<1>4. needs' \in [Obj -> SUBSET Obj]
      /\ \A o \in Obj : needs[o] \subseteq needs'[o] /\ needs'[o] \subseteq needs[o] \union {d}
  BY <1>1, <1>2 DEF IInv, TypeOK
<1>5. live \subseteq Obj
  BY DEF IInv, TypeOK
<1>6. \A o \in live' : \A x \in needs'[o] :
        (o \in live /\ x \in needs[o]) \/ In(x, fields'[o]) \/ Managed(x)'
  <2> SUFFICES ASSUME NEW o \in live', NEW x \in needs'[o]
               PROVE  x \in needs[o] \/ Managed(x)'
    BY <1>2
  <2>1. x \in needs[o] \/ x = d
    BY <1>2, <1>4, <1>5
  <2> QED
    BY <1>3, <2>1
<1> QED
  BY <1>2, <1>4, <1>5, <1>6 DEF Grows, IInv, TypeOK

\* Cloning an Rc adds one of a wrapper that lives.
LEMMA CloneHandleGrows ==
  ASSUME IInv, NEW o \in Obj, CloneHandle(o)
  PROVE  Grows({})
<1>1. /\ Idle /\ user[o] > 0 /\ user[o] < MaxHandles
      /\ user' = [user EXCEPT ![o] = @ + 1]
      /\ UNCHANGED <<made, fields, descs, hostModules, dropping, live, needs>>
  BY DEF CloneHandle, Holds
<1>2. user \in [Obj -> 0..MaxHandles] /\ live \subseteq Obj
  BY DEF IInv, TypeOK
<1>3. user[o] + 1 \in 0..MaxHandles
  BY <1>1, <1>2, HandleAssumption
<1>4. /\ user' \in [Obj -> 0..MaxHandles] /\ user'[o] > 0
      /\ \A x \in Obj \ {o} : user'[x] = user[x]
  BY <1>1, <1>2, <1>3, HandleAssumption
<1>5. \A p \in live' : \A x \in needs'[p] : p \in live /\ x \in needs[p]
  BY <1>1
<1>6. /\ \A x \in Obj : user'[x] > 0 => user[x] > 0
      /\ \A x \in live : user[x] > 0 => user'[x] > 0
  BY <1>1, <1>2, <1>4
<1> QED
  BY <1>1, <1>4, <1>5, <1>6 DEF Grows, IInv, TypeOK

-----------------------------------------------------------------------------
(* Steps that lose an Rc. *)

\* An Rc in the user's hands goes.
LEMMA UserLoses ==
  ASSUME IInv, NEW o \in Obj, Holds(o), user' = [user EXCEPT ![o] = @ - 1],
         DropUnlessOwned(o, user', fields),
         UNCHANGED <<made, fields, descs, hostModules, live, needs>>
  PROVE  Loses(o)
<1>1. user \in [Obj -> 0..MaxHandles] /\ fields \in [Obj -> Seq(Obj)]
  BY DEF IInv, TypeOK
<1>2. user[o] - 1 \in 0..MaxHandles /\ user[o] > 0
  BY <1>1, HandleAssumption DEF Holds
<1>3. /\ user' \in [Obj -> 0..MaxHandles]
      /\ \A x \in Obj \ {o} : user'[x] = user[x]
  BY <1>1, <1>2
<1>4. o \in made /\ Owned(o, user, fields)
  BY HeldLive DEF Holds, Owned
<1>5. \A x \in Obj : user'[x] > 0 => user[x] > 0
  BY <1>2, <1>3
<1>6. DropUnlessOwned(o, user', fields')
  OBVIOUS
<1> QED
  BY <1>1, <1>3, <1>4, <1>5, <1>6 DEF Loses

\* Dropping an Rc of the user takes one away.
LEMMA DropHandleLoses ==
  ASSUME IInv, NEW o \in Obj, DropHandle(o)
  PROVE  Loses(o)
<1>1. /\ Holds(o) /\ user' = [user EXCEPT ![o] = @ - 1]
      /\ DropUnlessOwned(o, user', fields)
      /\ UNCHANGED <<made, fields, descs, hostModules, live, needs>>
  BY DEF DropHandle
<1> QED
  BY <1>1, UserLoses

\* A refused instance takes the isolation's Rc away.
LEMMA NewInstanceRefusedLoses ==
  ASSUME IInv, NEW m \in Module, NEW i \in Isolation, NewInstanceRefused(m, i)
  PROVE  Loses(i)
<1>1. /\ Holds(i) /\ user' = [user EXCEPT ![i] = @ - 1]
      /\ DropUnlessOwned(i, user', fields)
      /\ UNCHANGED <<made, fields, descs, hostModules, live, needs>>
  BY DEF NewInstanceRefused
<1>2. i \in Obj
  BY DEF Obj
<1> QED
  BY <1>1, <1>2, UserLoses

\* A field given up by a drop is an Rc taken away from a deleted object's wrapper.
LEMMA ReleaseFieldLoses ==
  ASSUME IInv, ReleaseField
  PROVE  Loses(Head(fields[Top]))
<1> DEFINE o == Head(fields[Top])
<1>1. /\ ~Idle /\ Top \notin live /\ fields[Top] # <<>>
      /\ fields' = [fields EXCEPT ![Top] = Tail(@)]
      /\ DropUnlessOwned(o, user, fields')
      /\ UNCHANGED <<made, user, descs, hostModules, live, needs>>
  BY DEF ReleaseField
<1>2. Top \in Obj /\ ~Owned(Top, user, fields)
  BY <1>1, TopProperties
<1>3. user \in [Obj -> 0..MaxHandles] /\ fields \in [Obj -> Seq(Obj)] /\ live \subseteq made
  BY DEF IInv, TypeOK
<1>4. fields[Top] \in Seq(Obj)
  BY <1>2, <1>3
<1>5. /\ o \in Obj /\ Tail(fields[Top]) \in Seq(Obj) /\ In(o, fields[Top])
      /\ \A x : In(x, fields[Top]) <=> x = o \/ In(x, Tail(fields[Top]))
  BY <1>1, <1>4, InTail
<1>6. /\ fields' \in [Obj -> Seq(Obj)] /\ fields'[Top] = Tail(fields[Top])
      /\ \A p \in Obj \ {Top} : fields'[p] = fields[p]
  BY <1>1, <1>2, <1>3, <1>5
<1>7. o \in made /\ Owned(o, user, fields)
  <2>1. Owned(o, user, fields)
    BY <1>2, <1>5 DEF Owned
  <2> QED
    BY <1>3, <1>5, <2>1 DEF IInv, OwnedObjectsLive
<1>8. ~Managed(Top)
  BY <1>2 DEF Owned
<1> HIDE DEF o
<1>9. /\ \A p, x \in Obj : In(x, fields'[p]) => In(x, fields[p])
      /\ \A p \in Obj, x \in Obj \ {o} : In(x, fields[p]) => In(x, fields'[p])
  BY <1>5, <1>6
<1>10. DropUnlessOwned(o, user', fields')
  BY <1>1
<1>11. \A p \in Obj : fields'[p] # fields[p] => p \notin live /\ ~Managed(p)
  BY <1>1, <1>6, <1>8
<1>12. Loses(o)
  BY <1>1, <1>3, <1>6, <1>7, <1>9, <1>10, <1>11 DEF Loses
<1> QED
  BY <1>12 DEF o

-----------------------------------------------------------------------------
(* All steps, and the theorems. *)

\* Each call of the user has one of the two shapes.
LEMMA UserCallGrowsOrLoses ==
  ASSUME IInv, UserCall
  PROVE  (\E new : Grows(new)) \/ (\E o : Loses(o))
<1>1. CASE \E r \in Runtime : NewRuntime(r)
  BY <1>1, NewRuntimeGrows
<1>2. CASE \E r \in Runtime, d \in Desc : CreateHostModuleDesc(r, d)
  BY <1>2, CreateHostModuleDescGrows
<1>3. CASE \E r \in Runtime, d \in Desc, h \in HostModule : LoadHostModule(r, d, h)
  BY <1>3, LoadHostModuleGrows
<1>4. CASE \E r \in Runtime, d \in Desc, h \in HostModule : CreateHostModule(r, d, h)
  BY <1>4, CreateHostModuleGrows
<1>5. CASE \E r \in Runtime, d \in Desc, h \in HostModule : MergeHostModule(r, h, d)
  BY <1>5, MergeHostModuleGrows
<1>6. CASE \E r \in Runtime, m \in Module : LoadModule(r, m)
  BY <1>6, LoadModuleGrows
<1>7. CASE \E r \in Runtime, i \in Isolation : NewIsolation(r, i)
  BY <1>7, NewIsolationGrows
<1>8. CASE \E m \in Module, i \in Isolation : NewInstanceRefused(m, i)
  BY <1>8, NewInstanceRefusedLoses
<1>9. CASE \E m \in Module, i \in Isolation, n \in Instance : NewInstance(m, i, n)
  BY <1>9, NewInstanceGrows
<1>10. CASE \E o \in Obj : CloneHandle(o)
  BY <1>10, CloneHandleGrows
<1>11. CASE \E o \in Obj : DropHandle(o)
  BY <1>11, DropHandleLoses
<1> QED
  BY <1>1, <1>2, <1>3, <1>4, <1>5, <1>6, <1>7, <1>8, <1>9, <1>10, <1>11 DEF UserCall

\* Before the first call there is nothing to keep.
LEMMA InitEstablishesIInv == Init => IInv
<1> SUFFICES ASSUME Init
             PROVE  IInv
  OBVIOUS
<1>1. /\ \A o \in Obj : user[o] = 0 /\ fields[o] = <<>> /\ needs[o] = {}
      /\ \A r \in Runtime : descs[r] = <<>> /\ hostModules[r] = <<>>
      /\ made = {} /\ live = {} /\ dropping = <<>>
  BY DEF Init
<1>2. TypeOK
  BY EmptySeq, OneIsAllowed DEF Init, TypeOK
<1>3. /\ \A o \in Obj : ~Managed(o)
      /\ \A o, p \in Obj : ~In(o, fields[p]) /\ ~In(o, dropping)
      /\ \A o \in Obj, r \in Runtime : ~In(o, descs[r]) /\ ~In(o, hostModules[r])
  BY <1>1, InEmpty DEF Managed
<1>4. \A o \in Obj : ~Owned(o, user, fields)
  BY <1>1, <1>3 DEF Owned
<1> QED
  BY <1>1, <1>2, <1>3, <1>4
     DEF IInv, OwnedObjectsLive, DropsUnowned, LiveOwnedOrDropping, FieldsOfMade,
         ListedHoldRuntime, ModulesHoldRuntime, NeedsKept, DescsListed

\* A step that changes no variable preserves the invariant.
LEMMA StutterKeepsIInv ==
  ASSUME IInv, UNCHANGED vars
  PROVE  IInv'
<1>1. UNCHANGED <<made, user, fields, descs, hostModules, dropping, live, needs>>
  BY DEF vars
<1>2. \A o : Managed(o)' <=> Managed(o)
  BY <1>1 DEF Managed
<1>3. \A o : Owned(o, user, fields)' <=> Owned(o, user, fields)
  BY <1>1, <1>2 DEF Owned
<1> QED
  BY <1>1, <1>2, <1>3
     DEF IInv, TypeOK, OwnedObjectsLive, DropsUnowned, LiveOwnedOrDropping, FieldsOfMade,
         ListedHoldRuntime, ModulesHoldRuntime, NeedsKept, DescsListed

\* Each step, of the user or of a drop, preserves the inductive invariant.
LEMMA NextPreservesIInv == IInv /\ [Next]_vars => IInv'
<1> SUFFICES ASSUME IInv, [Next]_vars
             PROVE  IInv'
  OBVIOUS
<1>1. CASE UserCall
  BY <1>1, UserCallGrowsOrLoses, GrowsKeepsIInv, LosesKeepsIInv
<1>2. CASE DeleteEngineObject
  BY <1>2, DeleteKeepsIInv
<1>3. CASE ReleaseField
  BY <1>3, ReleaseFieldLoses, LosesKeepsIInv
<1>4. CASE EndDrop
  BY <1>4, EndDropKeepsIInv
<1>5. CASE UNCHANGED vars
  BY <1>5, StutterKeepsIInv
<1> QED
  BY <1>1, <1>2, <1>3, <1>4, <1>5 DEF Next, DropStep

-----------------------------------------------------------------------------
(* Drops start once, and run out. *)

\* A drop starts for a wrapper that has just lost its last Rc: it lives, and its drop
\* has not started before.
LEMMA LosesDropsOnce ==
  ASSUME IInv, NEW o, Loses(o), dropping' # dropping
  PROVE  o \in live /\ dropping' = Append(dropping, o) /\ ~In(o, dropping)
<1>1. o \in Obj /\ Owned(o, user, fields)
  BY DEF IInv, TypeOK, Loses
<1>2. o \in live /\ ~In(o, dropping)
  BY <1>1 DEF IInv, OwnedObjectsLive, DropsUnowned
<1> QED
  BY <1>2 DEF Loses, DropUnlessOwned

\* No other step starts a drop.
LEMMA StepDropsOnce ==
  ASSUME IInv, [Next]_vars, Len(dropping') > Len(dropping)
  PROVE  \E o \in live : dropping' = Append(dropping, o) /\ ~In(o, dropping)
<1>1. dropping \in Seq(made) /\ Len(dropping) \in Nat
  BY LenProperties DEF IInv, TypeOK
<1>2. dropping' # dropping
  BY <1>1
<1>3. CASE \E o : Loses(o)
  BY <1>2, <1>3, LosesDropsOnce
<1>4. CASE \E new : Grows(new)
  BY <1>2, <1>4 DEF Grows
<1>5. CASE EndDrop
  <2>1. dropping # <<>> /\ dropping' = SubSeq(dropping, 1, Len(dropping) - 1)
    BY <1>5 DEF EndDrop, Idle
  <2>2. Len(dropping) - 1 \in Nat /\ Len(dropping) - 1 <= Len(dropping)
    BY <1>1, <2>1, EmptySeq
  <2>3. Len(dropping') = Len(dropping) - 1
    BY <1>1, <2>1, <2>2, PrefixProperties
  <2> QED
    BY <1>1, <2>3
<1>6. CASE DeleteEngineObject \/ UNCHANGED vars
  BY <1>2, <1>6 DEF DeleteEngineObject, vars
<1> QED
  BY <1>3, <1>4, <1>5, <1>6, UserCallGrowsOrLoses, ReleaseFieldLoses DEF Next, DropStep

\* The parts of the work that is left are finite.
LEMMA WorkIsFinite ==
  ASSUME IInv, WorkBounded
  PROVE  /\ IsFiniteSet(live) /\ Cardinality(live) \in Nat
         /\ IsFiniteSet(FieldsLeft) /\ Cardinality(FieldsLeft) \in Nat
         /\ Len(dropping) \in Nat
<1>1. IsFiniteSet(live)
  BY FS_Subset DEF IInv, TypeOK, WorkBounded
<1>2. IsFiniteSet(made \X (1..MaxFields))
  <2>1. MaxFields \in Int /\ 1 \in Int
    BY DEF MaxFields
  <2>2. IsFiniteSet(1..MaxFields)
    BY <2>1, FS_Interval
  <2> QED
    BY <2>2, FS_Product DEF WorkBounded
<1>3. IsFiniteSet(FieldsLeft)
  <2>1. FieldsLeft \in SUBSET (made \X (1..MaxFields))
    BY DEF FieldsLeft
  <2> QED
    BY <1>2, <2>1, FS_Subset
<1>4. Len(dropping) \in Nat
  BY LenProperties DEF IInv, TypeOK
<1> QED
  BY <1>1, <1>3, <1>4, FS_CardinalityType

\* Deleting an object leaves one less to delete.
LEMMA DeleteLeavesLess ==
  ASSUME IInv, WorkBounded, DeleteEngineObject
  PROVE  DropWork' < DropWork
<1>1. Top \in live /\ live' = live \ {Top} /\ UNCHANGED <<made, fields, dropping>>
  BY DEF DeleteEngineObject
<1>2. FieldsLeft' = FieldsLeft
  BY <1>1 DEF FieldsLeft
<1>3. Cardinality(live') = Cardinality(live) - 1
  BY <1>1, WorkIsFinite, FS_RemoveElement
<1>4. DropWork' = Cardinality(live') + 2 * Cardinality(FieldsLeft) + Len(dropping)
  BY <1>1, <1>2 DEF DropWork
<1> QED
  BY <1>3, <1>4, WorkIsFinite DEF DropWork

\* Releasing a field leaves one less to release, and at most one drop more to end.
LEMMA ReleaseLeavesLess ==
  ASSUME IInv, WorkBounded, ReleaseField
  PROVE  DropWork' < DropWork
<1> DEFINE n == Len(fields[Top])
<1>1. /\ ~Idle /\ fields[Top] # <<>> /\ fields' = [fields EXCEPT ![Top] = Tail(@)]
      /\ UNCHANGED <<made, live>>
  BY DEF ReleaseField
<1>2. Top \in Obj /\ Top \in made /\ made \subseteq Obj /\ fields \in [Obj -> Seq(Obj)]
  BY <1>1, TopProperties DEF IInv, TypeOK
<1>3. fields[Top] \in Seq(Obj) /\ n \in Nat \ {0} /\ Len(Tail(fields[Top])) = n - 1
  BY <1>1, <1>2, EmptySeq, LenProperties, HeadTailProperties
<1>4. n \in 1..MaxFields
  <2>1. Len(fields[Top]) <= MaxFields
    BY <1>2 DEF WorkBounded
  <2>2. n <= MaxFields /\ n \in Nat \ {0} /\ MaxFields \in Nat
    BY <1>3, <2>1 DEF MaxFields
  <2> HIDE DEF n
  <2> QED
    BY <2>2
<1>5. \A o \in made : Len(fields'[o]) = IF o = Top THEN n - 1 ELSE Len(fields[o])
  BY <1>1, <1>2, <1>3
<1>6. FieldsLeft' = FieldsLeft \ {<<Top, n>>}
  <2> SUFFICES ASSUME NEW p \in made \X (1..MaxFields)
               PROVE  p[2] <= Len(fields'[p[1]]) <=>
                        p[2] <= Len(fields[p[1]]) /\ p # <<Top, n>>
    BY <1>1 DEF FieldsLeft
  <2>1. p = <<p[1], p[2]>> /\ p[1] \in made /\ p[2] \in 1..MaxFields /\ MaxFields \in Nat
    BY DEF MaxFields
  <2>2. CASE p[1] = Top
    <3>1. Len(fields'[p[1]]) = n - 1 /\ Len(fields[p[1]]) = n
      BY <1>5, <2>1, <2>2
    <3>2. p # <<Top, n>> <=> p[2] # n
      BY <2>1, <2>2
    <3> QED
      BY <1>3, <2>1, <3>1, <3>2
  <2>3. CASE p[1] # Top
    <3>1. Len(fields'[p[1]]) = Len(fields[p[1]]) /\ p # <<Top, n>>
      BY <1>5, <2>1, <2>3
    <3> QED
      BY <3>1
  <2> QED
    BY <2>2, <2>3
<1>7. <<Top, n>> \in FieldsLeft
  BY <1>2, <1>3, <1>4 DEF FieldsLeft
<1> HIDE DEF n
<1>8. Cardinality(FieldsLeft') = Cardinality(FieldsLeft) - 1
  BY <1>6, <1>7, WorkIsFinite, FS_RemoveElement
<1>9. Len(dropping') \in Nat /\ Len(dropping') <= Len(dropping) + 1
  <2>1. CASE dropping' = dropping
    BY <2>1, WorkIsFinite
  <2>2. CASE dropping' # dropping
    <3>1. PICK o \in made : dropping' = Append(dropping, o)
      BY <2>2, ReleaseFieldLoses, LosesDropsOnce DEF IInv, TypeOK
    <3>2. Len(dropping') = Len(dropping) + 1
      BY <3>1, AppendProperties DEF IInv, TypeOK
    <3> QED
      BY <3>2, WorkIsFinite
  <2> QED
    BY <2>1, <2>2
<1>10. DropWork' = Cardinality(live) + 2 * Cardinality(FieldsLeft') + Len(dropping')
  BY <1>1 DEF DropWork
<1> QED
  BY <1>8, <1>9, <1>10, WorkIsFinite DEF DropWork

\* Ending a drop leaves one less to end.
LEMMA EndLeavesLess ==
  ASSUME IInv, WorkBounded, EndDrop
  PROVE  DropWork' < DropWork
<1>1. /\ dropping # <<>> /\ dropping' = SubSeq(dropping, 1, Len(dropping) - 1)
      /\ UNCHANGED <<made, live, fields>>
  BY DEF EndDrop, Idle
<1>2. dropping \in Seq(made)
  BY DEF IInv, TypeOK
<1>3. Len(dropping) - 1 \in Nat /\ Len(dropping) - 1 <= Len(dropping)
  BY <1>1, <1>2, EmptySeq, LenProperties
<1>4. Len(dropping') = Len(dropping) - 1
  BY <1>1, <1>2, <1>3, PrefixProperties
<1>5. FieldsLeft' = FieldsLeft
  BY <1>1 DEF FieldsLeft
<1>6. DropWork' = Cardinality(live) + 2 * Cardinality(FieldsLeft) + Len(dropping')
  BY <1>1, <1>5 DEF DropWork
<1> QED
  BY <1>4, <1>6, WorkIsFinite DEF DropWork

\* Wrappers that are made have a few fields, and the others keep theirs.
LEMMA MakingIsBounded ==
  ASSUME IInv, WorkBounded, NEW S, IsFiniteSet(made \union S), made' = made \union S,
         DOMAIN fields' = Obj,
         \A o \in Obj : Len(fields'[o]) <= MaxFields \/ fields'[o] = fields[o]
  PROVE  WorkBounded'
BY DEF WorkBounded

\* What the user's calls make is finite, with at most three fields each.
LEMMA UserCallIsBounded ==
  ASSUME IInv, WorkBounded, UserCall
  PROVE  WorkBounded'
<1>1. fields \in [Obj -> Seq(Obj)] /\ IsFiniteSet(made)
  BY DEF IInv, TypeOK, WorkBounded
<1>2. \A x, y, z : Len(<<>>) <= MaxFields /\ Len(<<x>>) <= MaxFields /\ Len(<<x, y, z>>) <= MaxFields
  BY DEF MaxFields
<1>3. ASSUME NEW o \in Obj, NEW fs, NEW through, Make(o, fs, through), Len(fs) <= MaxFields
      PROVE  WorkBounded'
  <2>1. /\ IsFiniteSet(made \union {o}) /\ made' = made \union {o}
        /\ fields' = [fields EXCEPT ![o] = fs]
    BY <1>1, <1>3, FS_AddElement DEF Make
  <2> QED
    BY <1>1, <1>3, <2>1, MakingIsBounded
<1>4. ASSUME UNCHANGED <<made, fields>> PROVE WorkBounded'
  BY <1>4 DEF WorkBounded
<1>5. Runtime \union Desc \union HostModule \union Module \union Isolation \union Instance \subseteq Obj
  BY DEF Obj
<1>6. ASSUME NEW r \in Runtime, NEW d \in Desc, NEW h \in HostModule, CreateHostModule(r, d, h)
      PROVE  WorkBounded'
  <2>1. IsFiniteSet(made \union {d})
    BY <1>1, FS_AddElement
  <2>2. IsFiniteSet(made \union {d, h})
    <3>1. made \union {d, h} = (made \union {d}) \union {h}
      OBVIOUS
    <3> QED
      BY <2>1, <3>1, FS_AddElement
  <2>3. CASE made' = made \union {d, h} /\ fields' = [fields EXCEPT ![d] = <<r>>, ![h] = <<r>>]
    BY <1>1, <1>2, <2>2, <2>3, MakingIsBounded
  <2>4. CASE made' = made \union {d} /\ fields' = [fields EXCEPT ![d] = <<r>>]
    BY <1>1, <1>2, <2>1, <2>4, MakingIsBounded
  <2> QED
    BY <1>6, <2>3, <2>4 DEF CreateHostModule
<1>7. ASSUME NEW r \in Runtime PROVE NewRuntime(r) => WorkBounded'
  BY <1>2, <1>3, <1>5 DEF NewRuntime
<1>8. ASSUME NEW r \in Runtime, NEW d \in Desc PROVE CreateHostModuleDesc(r, d) => WorkBounded'
  BY <1>2, <1>3, <1>5 DEF CreateHostModuleDesc
<1>9. ASSUME NEW r \in Runtime, NEW d \in Desc, NEW h \in HostModule
      PROVE  LoadHostModule(r, d, h) \/ MergeHostModule(r, h, d) => WorkBounded'
  BY <1>2, <1>3, <1>4, <1>5 DEF LoadHostModule, MergeHostModule, ours
<1>10. ASSUME NEW r \in Runtime, NEW m \in Module PROVE LoadModule(r, m) => WorkBounded'
  BY <1>2, <1>3, <1>5 DEF LoadModule
<1>11. ASSUME NEW r \in Runtime, NEW i \in Isolation PROVE NewIsolation(r, i) => WorkBounded'
  BY <1>2, <1>3, <1>5 DEF NewIsolation
<1>12. ASSUME NEW m \in Module, NEW i \in Isolation
       PROVE  NewInstanceRefused(m, i) => WorkBounded'
  BY <1>4 DEF NewInstanceRefused
<1>13. ASSUME NEW m \in Module, NEW i \in Isolation, NEW n \in Instance
       PROVE  NewInstance(m, i, n) => WorkBounded'
  BY <1>2, <1>3, <1>5 DEF NewInstance
<1>14. ASSUME NEW o \in Obj PROVE CloneHandle(o) \/ DropHandle(o) => WorkBounded'
  BY <1>4 DEF CloneHandle, DropHandle
<1> QED
  BY <1>6, <1>7, <1>8, <1>9, <1>10, <1>11, <1>12, <1>13, <1>14 DEF UserCall

\* The user calls between drops.
LEMMA UserCallIsIdle ==
  ASSUME UserCall
  PROVE  Idle
<1>1. ASSUME NEW r \in Runtime, NEW d \in Desc, NEW h \in HostModule
      PROVE  LoadHostModule(r, d, h) \/ CreateHostModule(r, d, h) \/ MergeHostModule(r, h, d) => Idle
  BY DEF LoadHostModule, CreateHostModule, MergeHostModule
<1>2. ASSUME NEW r \in Runtime PROVE NewRuntime(r) => Idle
  BY DEF NewRuntime
<1>3. ASSUME NEW r \in Runtime, NEW d \in Desc PROVE CreateHostModuleDesc(r, d) => Idle
  BY DEF CreateHostModuleDesc
<1>4. ASSUME NEW r \in Runtime, NEW m \in Module PROVE LoadModule(r, m) => Idle
  BY DEF LoadModule
<1>5. ASSUME NEW r \in Runtime, NEW i \in Isolation PROVE NewIsolation(r, i) => Idle
  BY DEF NewIsolation
<1>6. ASSUME NEW m \in Module, NEW i \in Isolation PROVE NewInstanceRefused(m, i) => Idle
  BY DEF NewInstanceRefused
<1>7. ASSUME NEW m \in Module, NEW i \in Isolation, NEW n \in Instance
      PROVE  NewInstance(m, i, n) => Idle
  BY DEF NewInstance
<1>8. ASSUME NEW o \in Obj PROVE CloneHandle(o) \/ DropHandle(o) => Idle
  BY DEF CloneHandle, DropHandle
<1> QED
  BY <1>1, <1>2, <1>3, <1>4, <1>5, <1>6, <1>7, <1>8 DEF UserCall

\* A drop makes nothing.
LEMMA NextIsBounded ==
  ASSUME IInv, WorkBounded, [Next]_vars
  PROVE  WorkBounded'
<1>1. CASE UserCall
  BY <1>1, UserCallIsBounded
<1>2. CASE DeleteEngineObject \/ EndDrop \/ UNCHANGED vars
  BY <1>2 DEF WorkBounded, DeleteEngineObject, EndDrop, vars
<1>3. CASE ReleaseField
  <2>1. /\ ~Idle /\ fields[Top] # <<>> /\ fields' = [fields EXCEPT ![Top] = Tail(@)]
        /\ made' = made
    BY <1>3 DEF ReleaseField
  <2>2. Top \in Obj /\ fields \in [Obj -> Seq(Obj)]
    BY <2>1, TopProperties DEF IInv, TypeOK
  <2>3. Len(fields[Top]) \in Nat /\ Len(Tail(fields[Top])) = Len(fields[Top]) - 1
    BY <2>1, <2>2, LenProperties, HeadTailProperties
  <2>4. Len(Tail(fields[Top])) <= MaxFields
    BY <2>2, <2>3 DEF WorkBounded, MaxFields
  <2> QED
    BY <2>1, <2>2, <2>4 DEF WorkBounded
<1> QED
  BY <1>1, <1>2, <1>3 DEF Next, DropStep

\* The inductive invariant holds: what lives, what is owned and what the engine
\* uses stay together through all calls and drops.
THEOREM InductiveInvariant == Spec => []IInv
BY InitEstablishesIInv, NextPreservesIInv, PTL DEF Spec

\* The wrappers keep the types of the Rust structs (runtime.rs:16-23).
THEOREM TypeCorrect == Spec => []TypeOK
<1>1. IInv => TypeOK
  BY DEF IInv
<1> QED
  BY <1>1, InductiveInvariant, PTL

\* No drop deletes an engine object that an Rc still refers to, with any number
\* of runtimes whose objects are mixed at will (instance.rs:36-50).
THEOREM NoUseAfterDelete == Spec => []OwnedObjectsLive
<1>1. IInv => OwnedObjectsLive
  BY DEF IInv
<1> QED
  BY <1>1, InductiveInvariant, PTL

\* Once the user's call has returned, no engine object is left that no Rc refers
\* to (runtime.rs:286-302).
THEOREM NothingUnownedStays == Spec => []UnownedObjectsDeleted
<1>1. IInv => UnownedObjectsDeleted
  BY InEmpty DEF IInv, TypeOK, UnownedObjectsDeleted, LiveOwnedOrDropping, Idle
<1> QED
  BY <1>1, InductiveInvariant, PTL

\* Each step asks the engine for a creation or deletion it allows, or for
\* nothing.
LEMMA StepRespectsEngine == IInv /\ [Next]_vars => [Engine!Next]_<<live, needs>>
<1> SUFFICES ASSUME IInv, [Next]_vars
             PROVE  Engine!Next \/ UNCHANGED <<live, needs>>
  OBVIOUS
<1>1. CASE UserCall
  <2>1. CASE \E new : Grows(new)
    BY <2>1, GrowsIsCreate DEF Engine!Next
  <2>2. CASE \E o : Loses(o)
    BY <2>2 DEF Loses
  <2> QED
    BY <1>1, <2>1, <2>2, UserCallGrowsOrLoses
<1>2. CASE DeleteEngineObject
  <2>1. Top \in Obj /\ Engine!Delete(Top)
    BY <1>2, DeleteIsDelete, TopProperties DEF DeleteEngineObject
  <2> QED
    BY <2>1 DEF Engine!Next
<1>3. CASE ReleaseField
  BY <1>3 DEF ReleaseField
<1>4. CASE EndDrop
  BY <1>4 DEF EndDrop
<1>5. CASE UNCHANGED vars
  BY <1>5 DEF vars
<1> QED
  BY <1>1, <1>2, <1>3, <1>4, <1>5 DEF Next, DropStep

\* The wrappers implement the discipline the engine's C interface asks for: no
\* object is created out of a deleted one or deleted while another uses it.
THEOREM EngineRespected == Spec => RespectsEngine
<1>1. Init => Engine!Init
  BY DEF Init, Engine!Init
<1> QED
  BY <1>1, StepRespectsEngine, InductiveInvariant, PTL DEF Spec, RespectsEngine, Engine!Spec

\* No pointer is deleted twice: the drop of a wrapper starts once, while its engine
\* object lives, in whatever order its Rcs go (instance.rs:40).
THEOREM DropsStartOnce == Spec => DroppedOnce
<1> DEFINE A == Len(dropping') > Len(dropping) =>
                  \E o \in live : dropping' = Append(dropping, o) /\ ~In(o, dropping)
<1>1. IInv /\ [Next]_vars => [A]_vars
  BY StepDropsOnce
<1>2. DroppedOnce <=> [][A]_vars
  BY PTL DEF DroppedOnce
<1> QED
  BY <1>1, <1>2, InductiveInvariant, PTL DEF Spec

\* What was made stays finite, so that what a drop has left to do is a number.
THEOREM WorkInvariant == Spec => [](IInv /\ WorkBounded)
<1>1. Init => WorkBounded
  BY FS_EmptySet, EmptySeq DEF Init, WorkBounded, MaxFields
<1>2. (IInv /\ WorkBounded) /\ [Next]_vars => (IInv /\ WorkBounded)'
  BY NextPreservesIInv, NextIsBounded
<1> QED
  BY <1>1, <1>2, InitEstablishesIInv, PTL DEF Spec

\* Each step of a drop leaves less to do, for any number of wrappers: Rcs that a
\* drop gives up do not lead it back to where it was (instance.rs:44).
THEOREM DropsAreFinite == Spec => DropsRunOut
<1> DEFINE A == ~Idle => DropWork' < DropWork
<1>1. (IInv /\ WorkBounded) /\ [Next]_vars => [A]_vars
  <2> SUFFICES ASSUME IInv, WorkBounded, Next, ~Idle PROVE DropWork' < DropWork
    OBVIOUS
  <2>1. DropStep
    BY UserCallIsIdle DEF Next
  <2> QED
    BY <2>1, DeleteLeavesLess, ReleaseLeavesLess, EndLeavesLess DEF DropStep
<1>2. DropsRunOut <=> [][A]_vars
  BY PTL DEF DropsRunOut
<1> QED
  BY <1>1, <1>2, WorkInvariant, PTL DEF Spec

\* That is a natural number, so no drop goes on for ever.
THEOREM DropWorkNatural == Spec => [](DropWork \in Nat)
<1>1. IInv /\ WorkBounded => DropWork \in Nat
  BY WorkIsFinite DEF DropWork
<1> QED
  BY <1>1, WorkInvariant, PTL

=============================================================================
