-------------------------- MODULE DocumentedClaims --------------------------
(***************************************************************************)
(* Statements that the design document, comments and tests make about the  *)
(* flag and barrier model, and that the code does not keep.                *)
(***************************************************************************)
EXTENDS EventScheduler

(***************************************************************************)
(* __init__: "each SET contributes one outstanding credit and each WAIT    *)
(* consumes one", so every wait follows the set that it is paired with.    *)
(***************************************************************************)
EveryWaitIsPaired ==
  \A i \in done : \A j \in PairedSets(i) : j \in done /\ en[j] <= st[i]

(***************************************************************************)
(* _sync_all_task_participants: "One CONTROL TIR task therefore denotes    *)
(* all hardware participants of that core", so work after it in the        *)
(* program is released by it.                                              *)
(***************************************************************************)
ControlSyncAllReleasesCore ==
  \A i \in done : \A j \in SyncAllTasks :
    j < i /\ prog[j].lane = "control" /\ prog[j].core = prog[i].core
      => j \in done /\ en[j] <= st[i]

(***************************************************************************)
(* test_flag_blocking.py: "a SET issued while a flag already has `depth`   *)
(* outstanding credits stalls the issuing pipe until a WAIT frees a slot". *)
(* The set of rank n therefore starts no earlier than the wait of rank     *)
(* n - depth.                                                              *)
(***************************************************************************)
FullFlagStallsSetter ==
  \A i \in done : \A k \in SetKeys(i) : \A j \in Waits(k) :
    prog[i].op = "set_flag" /\ Rank(Sets(k), i) = Rank(Waits(k), j) + LocalFlagDepth
      => j \in done /\ st[j] <= st[i]

=============================================================================
