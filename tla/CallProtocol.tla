----------------------------- MODULE CallProtocol -----------------------------
(***************************************************************************)
(* What nested contract execution promises, without any shared state: every *)
(* guest owns its outcome, and a caller hears from a callee what that       *)
(* callee itself decided.  ContractCalls implements this with one execution *)
(* status and one return-data cell that all guests overwrite.               *)
(*                                                                         *)
(* The promise is weaker than a per-call status would give in two places,   *)
(* both of which the code has: a guest that returns without finish or       *)
(* revert and never called anyone is judged by leftovers, and a deployment  *)
(* is judged by whether it trapped.                                         *)
(***************************************************************************)
EXTENDS Integers, Sequences

CONSTANTS Data, NoData, Nothing

VARIABLES
  guests,   \* the guests in execution, the running one last
  verdict   \* what the last top-level call returned

vars == <<guests, verdict>>

Ending == {"finish", "revert", "invalid", "destruct", "plain", "trap"}

Guest ==
  [deploys : BOOLEAN,
   ended   : {"running"} \union Ending,
   out     : Data,
   heard   : Data \union {Nothing},
   ok      : {"none", "yes", "no"}]

NewGuest(deploys) ==
  [deploys |-> deploys, ended |-> "running", out |-> NoData,
   heard |-> Nothing, ok |-> "none"]

Last == guests[Len(guests)]
SetLast(g) == [guests EXCEPT ![Len(guests)] = g]
Running == guests # <<>> /\ Last.ended = "running"
YesNo(b) == IF b THEN "yes" ELSE "no"

\* The results guest g may be given.  A guest that ended without saying how is
\* successful with what it last heard; having heard nothing it may get anything.
Results(g) ==
  {r \in [ok : BOOLEAN, data : Data, reverted : BOOLEAN] :
     /\ g.ended = "trap" => ~r.ok /\ r.data = NoData
     /\ g.ended \in {"finish", "revert"} => r.data = g.out
     /\ g.deploys => (r.ok <=> g.ended # "trap") /\ ~r.reverted
     /\ ~g.deploys =>
          /\ g.ended = "finish" => r.ok
          /\ g.ended \in {"revert", "invalid"} => ~r.ok /\ r.reverted
          /\ r.ok => ~r.reverted
     /\ g.heard # Nothing /\ g.ended \in {"destruct", "plain"} =>
          r.ok /\ r.data = g.heard}

Begin(deploys) ==
  /\ guests = <<>>
  /\ guests' = <<NewGuest(deploys)>>
  /\ verdict' = "pending"

Refuse ==
  /\ guests = <<>>
  /\ verdict' = "refused"
  /\ UNCHANGED guests

Call(deploys) ==
  /\ Running
  /\ guests' = Append(guests, NewGuest(deploys))
  /\ UNCHANGED verdict

\* A call or creation answered without running a callee: what was heard before
\* stays, or is emptied.
AnswerAtOnce(success) ==
  /\ Running
  /\ \E h \in {Last.heard, NoData} :
        guests' = SetLast([Last EXCEPT !.ok = YesNo(success), !.heard = h])
  /\ UNCHANGED verdict

End(how, d) ==
  /\ Running
  /\ how \notin {"finish", "revert"} => d = NoData
  /\ guests' = SetLast([Last EXCEPT !.ended = how, !.out = d])
  /\ UNCHANGED verdict

Return ==
  /\ Len(guests) > 1 /\ Last.ended # "running"
  /\ \E r \in Results(Last) :
        guests' = Append(SubSeq(guests, 1, Len(guests) - 2),
                         [guests[Len(guests) - 1] EXCEPT !.ok = YesNo(r.ok),
                                                         !.heard = r.data])
  /\ UNCHANGED verdict

\* A deployment hands no data to the harness.
Conclude ==
  /\ Len(guests) = 1 /\ Last.ended # "running"
  /\ \E r \in Results(Last) :
        verdict' = IF Last.deploys THEN [r EXCEPT !.data = NoData] ELSE r
  /\ guests' = <<>>

Init == guests = <<>> /\ verdict = "pending"

Next ==
  \/ \E deploys \in BOOLEAN : Begin(deploys) \/ Call(deploys)
  \/ Refuse
  \/ \E success \in BOOLEAN : AnswerAtOnce(success)
  \/ \E how \in Ending, d \in Data : End(how, d)
  \/ Return \/ Conclude

Spec == Init /\ [][Next]_vars

=============================================================================
