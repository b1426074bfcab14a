----------------------------- MODULE MCSimulator -----------------------------
(***************************************************************************)
(* The programs of one core, of two cores, and of conflicting accesses,    *)
(* scheduled and then executed.                                            *)
(***************************************************************************)
EXTENDS FunctionalExecutor, MCScheduler, MCValidator

\* sync_all among work that overlaps it.
OverlappedSyncAll == {Work(0, "cube", "mte2", 3), SyncAll(0, "cube")}

SimulatedPrograms ==
  OneCorePrograms \cup TwoCorePrograms \cup FencePrograms
    \cup Concat(SeqsUpTo(OverlappedSyncAll, 3), {<<SyncAll(1, "cube")>>})

=============================================================================
