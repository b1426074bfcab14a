----------------------------- MODULE CompilerClaims -----------------------------
(***************************************************************************)
(* What the tests of the memory planning pass say of it, for a kernel of   *)
(* which it is not true.                                                   *)
(***************************************************************************)
EXTENDS MCCompile

\* A buffer set up in the first iteration of the loop that uses it, behind the
\* last use of others in the loop body:
\*   for k: load c; out c; load b; if k == 0: load a; a := a op b
InLoopSetup ==
  {For("positive", Load(c) \o Out(c) \o Load(b) \o If(Load(a), <<>>) \o Op("V", {a, b}, {a}))
     \o Out(a)}

InLoopSetupKernels == <<Compiled(InLoopSetup, Default)>>

(***************************************************************************)
(* test_ascend_memory_planning.py, line 7: "Overlapping lifetime buffers   *)
(* must NOT share memory".  A value that is read, whichever iteration      *)
(* wrote it, has not been overwritten through another buffer.              *)
(***************************************************************************)
LoopCarriedSurvive ==
  AboutTo => \A z \in Here.reads : value[z] # "lost"

=============================================================================
