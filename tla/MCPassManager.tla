---------------------------- MODULE MCPassManager ---------------------------
(***************************************************************************)
(* The whole pipeline over a module of two functions, main calling f.      *)
(***************************************************************************)
EXTENDS PassManager

MCFuncs == {"f", "main"}
MCCalls == [g \in MCFuncs |-> IF g = "main" THEN {"f"} ELSE {}]
MCFunctionList == <<"f", "main">>
=============================================================================
