---------------------------- MODULE EngineHandles ----------------------------
(***************************************************************************)
(* What the engine's C interface asks of whoever creates and deletes its   *)
(* objects: an object is created out of objects that live, and deleted     *)
(* while nothing that was created out of it lives.                         *)
(***************************************************************************)
CONSTANT Obj

VARIABLES
  live,    \* the objects created and not deleted
  needs    \* what each object was created out of, or was given later

Init == live = {} /\ needs = [o \in Obj |-> {}]

\* Objects are created, or a living one is given others to use.
Create ==
  /\ live \subseteq live'
  /\ live' \subseteq Obj
  /\ \A o \in live : needs[o] \subseteq needs'[o]
  /\ \A o \in live' : needs'[o] \subseteq live'

Delete(o) ==
  /\ o \in live
  /\ \A p \in live : o \notin needs[p]
  /\ live' = live \ {o}
  /\ UNCHANGED needs

Next == Create \/ \E o \in Obj : Delete(o)

Spec == Init /\ [][Next]_<<live, needs>>

=============================================================================
