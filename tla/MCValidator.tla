---------------------------- MODULE MCValidator ----------------------------
(***************************************************************************)
(* Programs in which every two accesses of a lane conflict, so that the    *)
(* bridge infers a memory edge from each to every later one.               *)
(***************************************************************************)
EXTENDS FenceValidator, MCPrograms

Conflicting(p) ==
  [i \in DOMAIN p |->
     LET earlier == {j \in 1 .. i - 1 : /\ p[i].op = "work" /\ p[j].op = "work"
                                        /\ p[i].lane = p[j].lane}
     IN  [p[i] EXCEPT !.deps = earlier, !.mem = earlier]]

FenceTasks ==
  {Work(0, "cube", "mte2", 3), Work(0, "cube", "mte1", 2),
   SetFlag(0, "cube", "mte2", "mte1"), WaitFlag(0, "cube", "mte2", "mte1"),
   BarrierAll(0, "cube"), BarrierAll(0, "vector0")}

LaneFenceTasks == FenceTasks \ {BarrierAll(0, "vector0")}

\* mte2 -> mte1 -> m: a consumer that is reached through two flags.
ChainTasks ==
  {SetFlag(0, "cube", "mte2", "mte1"), WaitFlag(0, "cube", "mte2", "mte1"),
   SetFlag(0, "cube", "mte1", "m"), WaitFlag(0, "cube", "mte1", "m")}

ChainPrograms ==
  {<<Work(0, "cube", "mte2", 5)>> \o p \o <<Work(0, "cube", "m", 1)>> : p \in [1 .. 4 -> ChainTasks]}

\* A matrix operation, a UnitFlag release, and the fixpipe paired with it.
UnitFlagPrograms ==
  {<<Work(0, "cube", "m", 3), Work(0, "cube", p, 2),
     [Work(0, "cube", "fix", 1) EXCEPT !.deps = {1, 2}, !.mem = {1, 2}, !.hw = {u}, !.unit = {u}]>> :
     p \in {"m", "mte2"}, u \in {1, 2}}

FencePrograms ==
  {Conflicting(p) : p \in SeqsUpTo(FenceTasks, 4) \cup SeqsUpTo(LaneFenceTasks, 5) \cup ChainPrograms}
    \cup UnitFlagPrograms

\* Two sets of one flag before its first wait.
CreditPrograms == {Conflicting(p) : p \in SeqsUpTo(LaneFenceTasks \ {BarrierAll(0, "cube")}, 5)}

=============================================================================
