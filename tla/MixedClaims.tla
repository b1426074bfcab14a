------------------------------ MODULE MixedClaims ------------------------------
(***************************************************************************)
(* The inter-core pipeline of docs/tutorials/t_pipelined.md (lines 61 to   *)
(* 79), as it is compiled, and the timeline that the tutorial gives for    *)
(* it.                                                                     *)
(***************************************************************************)
EXTENDS MixedGuarantees

TutorialCubeBuffers == {"q_l1", "k_l1", "acc_s_l0c"}
TutorialVecBuffers == {"acc_s_ub_", "acc_s_ub"}
TutorialWorkspaces == <<"workspace_1">>
TutorialKernels == {"tutorial"}

TutorialLoop == Pipelined("k", 4, 2, 1, <<
  Op(1, {"K"}, {"k_l1"}),
  Op(2, {"q_l1", "k_l1"}, {"acc_s_l0c"}),
  Op(3, {"acc_s_l0c"}, {"workspace_1"}),
  Op(4, {"workspace_1"}, {"acc_s_ub_"}),
  Op(5, {"acc_s_ub", "acc_s_ub_"}, {"acc_s_ub"}) >>)

TutorialBodyOf ==
  [k \in TutorialKernels |->
     <<Op(11, {"Q"}, {"q_l1"}), Op(12, {}, {"acc_s_ub"}), TutorialLoop,
       Op(13, {"acc_s_ub"}, {"Output"})>>]
TutorialLanesOf == [k \in TutorialKernels |-> 1]

\* The tutorial's table has write_2 beside read_1 and after read_0, write_3 beside
\* read_2: a copy of the workspace is written again once it has been read, so that
\* read_k finds what write_k wrote.  The passes insert a flag from each write to its
\* read, and none from a read to the next write of that copy.
TimelineKept ==
  \A p \in Cores :
    About(p) =>
      \A b \in Event(p).reads \cap Shared : \A part \in Parts(p, Event(p), b) :
        At(part) = Expected(SourceOf(kernel), Instance(Event(p)), b)
=============================================================================
