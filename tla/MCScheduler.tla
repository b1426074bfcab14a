----------------------------- MODULE MCScheduler -----------------------------
(***************************************************************************)
(* Families of small programs for TLC.  The programs of a family are all   *)
(* the sequences, up to a bound, over a few tasks; a family with two cores *)
(* concatenates a sequence for each.                                       *)
(***************************************************************************)
EXTENDS EventScheduler, MCPrograms

-----------------------------------------------------------------------------
\* One lane: work on two pipes, the flags between them, barriers.
LocalTasks ==
  {Work(0, "cube", "mte2", 3), Work(0, "cube", "mte1", 1),
   SetFlag(0, "cube", "mte2", "mte1"), WaitFlag(0, "cube", "mte2", "mte1"),
   SetFlag(0, "cube", "mte1", "s"), WaitFlag(0, "cube", "mte1", "s"),
   BarrierAll(0, "cube"), PipeBarrier(0, "cube", "mte2")}

\* Flags, and at most two tasks of work, long enough for two credits to be
\* outstanding.
FlagTasks ==
  {Work(0, "cube", "mte2", 3), Work(0, "cube", "mte1", 2),
   SetFlag(0, "cube", "mte2", "mte1"), WaitFlag(0, "cube", "mte2", "mte1")}

FlagPrograms ==
  {p \in SeqsUpTo(FlagTasks, 6) : Cardinality({i \in DOMAIN p : p[i].op = "work"}) <= 2}

LanePrograms == SeqsUpTo(LocalTasks, 4)

\* Mode 2: credits between the Cube lane and both Vector lanes of a core.
CrossTasks ==
  {SetCross(0, "cube", "fix", 2), WaitCross(0, "cube"),
   SetCross(0, "vector0", "mte3", 2), WaitCross(0, "vector0"),
   SetCross(0, "vector1", "mte3", 2), WaitCross(0, "vector1")}

\* Up to exchange of the two Vector lanes: vector0 comes first.
CrossPrograms ==
  {p \in SeqsUpTo(CrossTasks, 5) :
     \A i \in DOMAIN p : p[i].lane = "vector1" => \E j \in 1 .. i - 1 : p[j].lane = "vector0"}

\* A cross flag that two pipes set, one of which may be blocked.
TwoPipeTasks ==
  {SetFlag(0, "cube", "m", "fix"), WaitFlag(0, "cube", "m", "fix"),
   SetCross(0, "cube", "fix", 2), SetCross(0, "cube", "mte1", 2), WaitCross(0, "vector0")}

TwoPipePrograms == {p \in [1 .. 5 -> TwoPipeTasks] : p[1].op = "wait_flag"}

\* Mode 0 between two Cube lanes; mode 1 between the Vector lanes of a core.
CubeCollective(c) == {Work(c, "cube", "fix", 2 + c), SetCross(c, "cube", "fix", 0), WaitCross(c, "cube")}

VectorCollective ==
  {SetCross(0, "vector0", "mte3", 1), WaitCross(0, "vector0"),
   SetCross(0, "vector1", "mte3", 1), WaitCross(0, "vector1"),
   SetCross(0, "vector0", "mte3", 0)}

CubeCollectivePrograms == Concat(SeqsUpTo(CubeCollective(0), 3), SeqsUpTo(CubeCollective(1), 3))
VectorCollectivePrograms == SeqsUpTo(VectorCollective, 4)

\* sync_all of every scope on two cores, and a flag that is waited for after it.
CubeSyncAll(c) ==
  {SyncAll(c, "cube"), SyncAll(c, "control"), BarrierAll(c, "control"),
   Work(c, "cube", "fix", 2 + c), Work(c, "cube", "mte2", 1)}

VectorSyncAll(c) == {SyncAll(c, "vector0"), SyncAll(c, "vector1"), Work(c, "vector0", "v", 2 + c)}

FlagSyncAll == {SyncAll(0, "cube"), SetFlag(0, "cube", "mte2", "mte1"), WaitFlag(0, "cube", "mte2", "mte1")}

CubeSyncAllPrograms == Concat(SeqsUpTo(CubeSyncAll(0), 3), SeqsUpTo(CubeSyncAll(1), 2))
VectorSyncAllPrograms == Concat(SeqsUpTo(VectorSyncAll(0), 3), SeqsUpTo(VectorSyncAll(1), 2))
FlagSyncAllPrograms == Concat(SeqsUpTo(FlagSyncAll, 3), {<<SyncAll(1, "cube")>>, <<>>})

\* Execution edges: at most one per task, diagnostic or enforced.  Three tasks
\* in a row, and no other program, end after MaxCycles = 20.
EdgeTasks ==
  UNION {{[Work(0, "cube", p, 7) EXCEPT !.deps = d, !.mem = m, !.hw = h] :
            m \in SUBSET d, h \in SUBSET d} :
         d \in {{}, {1}, {2}, {3}}, p \in {"mte2", "mte1"}}

EdgePrograms == {p \in [1 .. 3 -> EdgeTasks] : ValidProgram(p)}

-----------------------------------------------------------------------------
OneCorePrograms ==
  LanePrograms \cup FlagPrograms \cup CrossPrograms \cup TwoPipePrograms \cup EdgePrograms

TwoCorePrograms ==
  CubeCollectivePrograms \cup VectorCollectivePrograms
    \cup CubeSyncAllPrograms \cup VectorSyncAllPrograms \cup FlagSyncAllPrograms

\* Short enough for the liveness check.
ShortLanePrograms == SeqsUpTo(LocalTasks, 3)
ShortFlagPrograms == SeqsUpTo(FlagTasks, 5)

BlockingPrograms == ShortLanePrograms \cup ShortFlagPrograms

=============================================================================
