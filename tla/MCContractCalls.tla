--------------------------- MODULE MCContractCalls ---------------------------
(***************************************************************************)
(* A small instance of ContractCalls: one prepared contract, an account     *)
(* that is not in the registry, the two create addresses, and one code of   *)
(* every shape the host tells apart.                                        *)
(***************************************************************************)
EXTENDS ContractCallsRefinement

\* raw: a WASM module.  prefixed: the same behind its length prefix.  junk: no
\* module.  short: fewer than four bytes.
MCCode == {"empty", "short", "raw", "prefixed", "junk"}
MCStripPrefix == [c \in {"raw", "prefixed", "junk"} |->
                    IF c = "prefixed" THEN "raw" ELSE "junk"]

MCAddress == {"a", "b", "c9", "c99"}
MCInitRegistry == [a \in MCAddress |-> IF a = "b" THEN "raw" ELSE "nocode"]

\* A harness context at the unregistered account, with a module or without.
MCContexts == {[addr |-> "a", caller |-> "b", value |-> "zero", code |-> c] : c \in {"raw", "junk"}}

=============================================================================
