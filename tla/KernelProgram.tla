---------------------------- MODULE KernelProgram ----------------------------
(***************************************************************************)
(* The simulator's intermediate representation (tilelang/simulator/        *)
(* program.py), the placement of synchronization markers by the TIR bridge *)
(* (bridge.py), and the edges that scheduler.py derives from a program.    *)
(*                                                                         *)
(* A program is the sequence KernelProgram.tasks, core after core; a task  *)
(* is named by its position in it.  The program is chosen in the initial   *)
(* state and never changes, so that one run covers a family of programs.   *)
(***************************************************************************)
EXTENDS Integers, Sequences, FiniteSets

CONSTANTS
  Cores,     \* ids of the launched cores, with or without tasks
  Programs   \* the programs the run ranges over

VARIABLE prog

VectorLanes == {"vector0", "vector1"}
CoreLanes == {"cube"} \cup VectorLanes
Lanes == CoreLanes \cup {"control"}

PipesOf == [l \in Lanes |->
             IF l = "cube" THEN {"mte2", "mte1", "m", "fix", "s"}
             ELSE IF l = "control" THEN {"s"} ELSE {"mte2", "v", "mte3", "s"}]

Pipes == UNION {PipesOf[l] : l \in Lanes}

NoPipe == "none"

\* "work" stands for every operation that is not a synchronization marker.
Operations == {"work", "set_flag", "wait_flag", "set_cross_flag",
               "wait_cross_flag", "barrier_all", "pipe_barrier", "sync_all"}

(***************************************************************************)
(* One field per attribute the scheduler reads.  src and dst are the       *)
(* source and destination pipe of a flag; dst is also the target pipe of a *)
(* pipe_barrier.  deps are all Task.dependencies; mem, hw and unit are the *)
(* metadata memory_, hardware_ and unit_flag_dependencies.                 *)
(***************************************************************************)
Task == [op : Operations, core : Cores, lane : Lanes, pipe : Pipes,
         dur : Nat \ {0}, src : Pipes \cup {NoPipe},
         dst : Pipes \cup {NoPipe, "all"}, id : 0 .. 15, mode : 0 .. 2,
         deps : SUBSET Nat, mem : SUBSET Nat, hw : SUBSET Nat, unit : SUBSET Nat]

SetOps == {"set_flag", "set_cross_flag"}

(***************************************************************************)
(* Task.__post_init__ and _validate_sync_task.                             *)
(***************************************************************************)
ValidTask(t) ==
  /\ t.pipe \in PipesOf[t.lane]
  /\ t.op \in {"set_flag", "wait_flag"} =>
       /\ t.id \in 0 .. 7
       /\ t.src \in PipesOf[t.lane] \ {"s"}
       /\ t.dst \in PipesOf[t.lane]
  /\ t.op = "set_cross_flag" =>
       /\ t.lane # "control"
       /\ t.mode = 1 => t.lane # "cube"
       /\ t.src \in PipesOf[t.lane] \ {"s"}
  /\ t.op = "wait_cross_flag" => t.lane # "control"
  /\ t.op = "pipe_barrier" => t.dst # NoPipe

(***************************************************************************)
(* _sync_task_pipe: on a Cube or Vector lane a marker is queued on the     *)
(* pipe that executes it, and on the scalar pipe when it names none.       *)
(***************************************************************************)
SyncTaskPipe(t) ==
  IF t.lane = "control" THEN "s"
  ELSE IF t.op \in SetOps THEN t.src
  ELSE IF t.op = "wait_flag" THEN t.dst
  ELSE IF t.op = "pipe_barrier" /\ t.dst # "all" THEN t.dst
  ELSE "s"

(***************************************************************************)
(* CoreProgram and KernelProgram.__post_init__: the tasks of one core are  *)
(* contiguous, dependencies are known and not on the task itself, and      *)
(* there is no cycle: every nonempty set of tasks has a member with no     *)
(* dependency inside the set.                                              *)
(***************************************************************************)
ValidProgram(p) ==
  /\ p \in Seq(Task)
  /\ \A i \in DOMAIN p :
       /\ ValidTask(p[i])
       /\ p[i].op # "work" => p[i].pipe = SyncTaskPipe(p[i])
       /\ p[i].deps \subseteq DOMAIN p \ {i}
       /\ p[i].mem \cup p[i].hw \subseteq p[i].deps /\ p[i].unit \subseteq p[i].hw
  /\ \A i, j, k \in DOMAIN p :
       i < j /\ j < k /\ p[i].core = p[k].core => p[j].core = p[i].core
  /\ \A S \in SUBSET DOMAIN p \ {{}} : \E i \in S : p[i].deps \cap S = {}

ASSUME CoresAssumption == Cores \subseteq Nat

ASSUME ProgramsAssumption == \A p \in Programs : ValidProgram(p)

-----------------------------------------------------------------------------
Tasks == DOMAIN prog

SameLane(i, j) == prog[i].core = prog[j].core /\ prog[i].lane = prog[j].lane

SameResource(i, j) == SameLane(i, j) /\ prog[i].pipe = prog[j].pipe

Participant(i) == <<prog[i].core, prog[i].lane>>

Earlier(i) == {j \in Tasks : j < i}

\* The greatest element, as a set that is empty when S is.
Last(S) == {m \in S : \A x \in S : x <= m}

\* The FIFO tail of every pipe that S uses.
Tails(S) == {j \in S : \A k \in S : SameResource(j, k) => k <= j}

\* Mutant: the table of _fifo_predecessors keeps the first task of a pipe.
FifoFirst(i) ==
  LET S == {j \in Earlier(i) : SameResource(i, j)} IN {m \in S : \A x \in S : m <= x}

FifoPredecessor(i) == Last({j \in Earlier(i) : SameResource(i, j)})

\* Inferred memory edges are diagnostics, unless the hardware enforces them.
ExecutionDependencies(i) ==
  {d \in prog[i].deps : d \notin prog[i].mem \/ d \in prog[i].hw}

=============================================================================
