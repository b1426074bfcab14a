------------------------------ MODULE MCClaims ------------------------------
(***************************************************************************)
(* The programs on which the documented claims are put to the test.        *)
(***************************************************************************)
EXTENDS DocumentedClaims, MCPrograms

FlagTasks ==
  {Work(0, "cube", "mte2", 3), Work(0, "cube", "mte1", 3),
   SetFlag(0, "cube", "mte2", "mte1"), WaitFlag(0, "cube", "mte2", "mte1")}

FlagPrograms == SeqsUpTo(FlagTasks, 5)

SyncAllPrograms == SeqsUpTo(FlagTasks \cup {SyncAll(0, "cube")}, 4)

ControlPrograms ==
  SeqsUpTo({SyncAll(0, "control"), Work(0, "control", "s", 3), Work(0, "cube", "mte2", 2)}, 3)

=============================================================================
