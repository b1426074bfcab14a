------------------------------- MODULE MCAutoTuner -------------------------------
(***************************************************************************)
(* Two runs tune two configurations, each on a pool of one thread: in two  *)
(* processes, one of them in a thread in which no alarm can be set and     *)
(* with one thing going wrong, or both in main threads and nothing going   *)
(* wrong; or in two threads of one process.                                *)
(***************************************************************************)
EXTENDS AutoTuner, TLC

CONSTANTS proc1, proc2, tuner1, tuner2, tuner3, conf1, conf2

MCProcs == {proc1, proc2}
MCTuners == {tuner1, tuner2, tuner3}
MCTunerProc == tuner1 :> proc1 @@ tuner2 :> proc2 @@ tuner3 :> proc1
MCConfigOrder == <<conf1, conf2>>
MCCalls == MCTuners \X {conf1, conf2}
MCProcOf == [f \in MCCalls |-> MCTunerProc[f[1]]]
MCKeyOf == [f \in MCCalls |-> f[2]]
MCSettings ==
  {[runs |-> {tuner1, tuner2}, main |-> {tuner1}, bound |-> 1],
   [runs |-> {tuner1, tuner2}, main |-> {tuner1, tuner2}, bound |-> 0],
   [runs |-> {tuner1, tuner3}, main |-> {tuner1}, bound |-> 0]}
MCLatencies == {1, 2, 3}
=============================================================================
