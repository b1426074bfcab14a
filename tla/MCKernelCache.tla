------------------------------ MODULE MCKernelCache ------------------------------
(***************************************************************************)
(* Two threads of one process and one of another, for one kernel.          *)
(***************************************************************************)
EXTENDS KernelCache, TLC

CONSTANTS proc1, proc2, key1, call1, call2, call3

MCProcs == {proc1, proc2}
MCKeys == {key1}
MCCalls == {call1, call2, call3}
MCProcOf == call1 :> proc1 @@ call2 :> proc1 @@ call3 :> proc2
MCKeyOf == [f \in MCCalls |-> key1]
=============================================================================
