----------------------- MODULE ContractCallsRefinement -----------------------
(***************************************************************************)
(* ContractCalls implements CallProtocol: a frame is the guest that remains *)
(* when its account, code and gas are forgotten, and the shared cells       *)
(* disappear altogether.                                                    *)
(***************************************************************************)
EXTENDS ContractCalls

Deploys(f) == f.kind \in {"deploy", "create"}

GuestOf(f) ==
  [deploys |-> Deploys(f), ended |-> f.ended,
   out |-> f.out, heard |-> f.heard, ok |-> f.ok]

AbstractVerdict ==
  CASE verdict.ended = "none"    -> "pending"
    [] verdict.ended = "refused" -> "refused"
    [] OTHER -> [ok |-> verdict.ok, data |-> verdict.data, reverted |-> verdict.reverted]

Guests == [i \in 1..Len(frames) |-> GuestOf(frames[i])]

Protocol == INSTANCE CallProtocol WITH guests <- Guests, verdict <- AbstractVerdict

\* Each step of the shared-cell execution is a step of the protocol in which
\* guests own their outcomes (mock_context.rs:733-957, contract_executor.rs).
ImplementsProtocol == Protocol!Spec

=============================================================================
