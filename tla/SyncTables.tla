----------------------------- MODULE SyncTables -----------------------------
(***************************************************************************)
(* What FlagBarrierSynchronizationModel.reset (tilelang/simulator/sync.py) *)
(* derives from a program before anything is scheduled, and the keys under *)
(* which the model keeps credits.  The code fills its tables in one        *)
(* forward pass; here each entry is defined by the earlier tasks that      *)
(* determine it.                                                           *)
(***************************************************************************)
EXTENDS KernelProgram

FullBarrier(i) ==
  prog[i].op = "barrier_all" \/ (prog[i].op = "pipe_barrier" /\ prog[i].dst = "all")

\* The markers that reset records in last_fence of their lane.
FencesLane(i) ==
  \/ prog[i].op \in {"wait_cross_flag", "sync_all"}
  \/ FullBarrier(i)
  \/ prog[i].op = "wait_flag" /\ prog[i].dst = "s"

\* The markers that reset records in last_pipe_fence of pipe p of their lane.
FencesPipe(i, p) ==
  \/ prog[i].op = "wait_flag" /\ prog[i].dst = p /\ p # "s"
  \/ prog[i].op = "pipe_barrier" /\ prog[i].dst = p /\ p # "all"
  \/ prog[i].op \in SetOps /\ prog[i].src = p

LaneFences(i) == {j \in Earlier(i) : SameLane(i, j) /\ FencesLane(j)}

PipeFences(i) == {j \in Earlier(i) : SameLane(i, j) /\ FencesPipe(j, prog[i].pipe)}

\* A set marker is enqueued behind the last task of its named producer pipe.
SourcePipeTasks(i) ==
  {j \in Earlier(i) : /\ prog[i].op \in SetOps
                      /\ SameLane(i, j)
                      /\ prog[j].pipe = prog[i].src}

OrderingDependencies(i) ==
  Last(LaneFences(i)) \cup Last(PipeFences(i)) \cup Last(SourcePipeTasks(i))

\* What a barrier waits for: its lane, or the whole core from the control lane.
DrainedBy(i) ==
  {j \in Earlier(i) :
     \/ FullBarrier(i) /\ prog[i].lane = "control" /\ prog[j].core = prog[i].core
     \/ (FullBarrier(i) \/ prog[i].op = "sync_all") /\ SameLane(i, j)
     \/ /\ prog[i].op = "pipe_barrier" /\ prog[i].dst # "all"
        /\ SameLane(i, j) /\ prog[j].pipe = prog[i].dst}

BarrierDependencies(i) == Tails(DrainedBy(i))

-----------------------------------------------------------------------------
SyncAllTasks == {i \in Tasks : prog[i].op = "sync_all"}

SyncAllScope(i) ==
  IF prog[i].lane = "cube" THEN "aic"
  ELSE IF prog[i].lane \in VectorLanes THEN "aiv" ELSE "mix"

SyncAllParticipants(scope) ==
  Cores \X (IF scope = "aic" THEN {"cube"}
            ELSE IF scope = "aiv" THEN VectorLanes ELSE CoreLanes)

\* An unscoped call on the control lane stands for every lane of its core.
SyncAllTaskParticipants(i) ==
  IF prog[i].lane = "control" THEN {prog[i].core} \X CoreLanes ELSE {Participant(i)}

\* The phase that sync_all task i finds participant a in.
SyncAllPhase(i, a) ==
  Cardinality({j \in SyncAllTasks : j < i /\ a \in SyncAllTaskParticipants(j)})

SyncAllPhases(i) == {SyncAllPhase(i, a) : a \in SyncAllTaskParticipants(i)}

\* _sync_all_task_phase: the rendezvous that sync_all task i belongs to.
SyncAllKey(i) == <<SyncAllScope(i), SyncAllPhases(i)>>

\* _sync_all_release_dependencies: the last sync_all of the task's own lane.
SyncAllRelease(i) == Last({j \in SyncAllTasks : j < i /\ SameLane(i, j)})

-----------------------------------------------------------------------------
LaneKind(i) == IF prog[i].lane = "cube" THEN "cube" ELSE "vector"

CrossSets == {i \in Tasks : prog[i].op = "set_cross_flag"}

CrossTargetKind(i) ==
  IF prog[i].mode = 2 /\ LaneKind(i) = "cube" THEN "vector"
  ELSE IF prog[i].mode = 2 THEN "cube" ELSE LaneKind(i)

\* wait_modes: the modes in which flag f is set for a kind of lane on core c,
\* the global mode-0 sets included.
CrossModes(f, kind, c) ==
  {prog[j].mode : j \in {k \in CrossSets : /\ prog[k].id = f
                                           /\ CrossTargetKind(k) = kind
                                           /\ prog[k].mode = 0 \/ prog[k].core = c}}

CrossWaitMode(i) == CrossModes(prog[i].id, LaneKind(i), prog[i].core)

(***************************************************************************)
(* The programs that reset refuses: a cross flag with more than one mode   *)
(* in a namespace that some set uses, or a sync_all whose participants are *)
(* in different phases.                                                    *)
(***************************************************************************)
ResetRejects ==
  \/ \E i \in CrossSets :
       Cardinality(CrossModes(prog[i].id, CrossTargetKind(i), prog[i].core)) > 1
  \/ \E i \in SyncAllTasks : Cardinality(SyncAllPhases(i)) > 1

-----------------------------------------------------------------------------
LocalFlagKey(i) ==
  <<"local", prog[i].core, prog[i].lane, prog[i].src, prog[i].dst, prog[i].id>>

CrossKeys(i, direction, lanes) ==
  {<<"cross", prog[i].core, direction, l, prog[i].id>> : l \in lanes}

\* A Cube set is one credit for each Vector lane of its core.
CrossSetKeys(i) ==
  IF prog[i].lane = "cube" THEN CrossKeys(i, "c2v", VectorLanes)
                           ELSE CrossKeys(i, "v2c", {prog[i].lane})

\* A Cube wait needs one credit from each Vector lane of its core.
CrossWaitKeys(i) ==
  IF prog[i].lane = "cube" THEN CrossKeys(i, "v2c", VectorLanes)
                           ELSE CrossKeys(i, "c2v", {prog[i].lane})

\* The keyed credits that task i produces, and those that it consumes.
SetKeys(i) ==
  IF prog[i].op = "set_flag" THEN {LocalFlagKey(i)}
  ELSE IF prog[i].op = "set_cross_flag" /\ prog[i].mode = 2 THEN CrossSetKeys(i)
  ELSE {}

WaitKeys(i) ==
  IF prog[i].op = "wait_flag" THEN {LocalFlagKey(i)}
  ELSE IF prog[i].op = "wait_cross_flag" /\ CrossWaitMode(i) = {2} THEN CrossWaitKeys(i)
  ELSE {}

FlagKeys == UNION {SetKeys(i) \cup WaitKeys(i) : i \in Tasks}

IsCollectiveSet(i) == prog[i].op = "set_cross_flag" /\ prog[i].mode \in {0, 1}

IsCollectiveWait(i) == prog[i].op = "wait_cross_flag" /\ CrossWaitMode(i) \in {{0}, {1}}

CollectiveMode(i) ==
  IF prog[i].op = "set_cross_flag" THEN prog[i].mode ELSE CHOOSE m \in CrossWaitMode(i) : TRUE

\* Mode 0 is one namespace per lane kind, mode 1 one per core.
CollectiveKey(i) ==
  IF CollectiveMode(i) = 0 THEN <<0, LaneKind(i), -1, prog[i].id>>
                           ELSE <<1, "vector", prog[i].core, prog[i].id>>

CollectiveParticipants(key) ==
  IF key[1] = 1 THEN {key[3]} \X VectorLanes
  ELSE IF key[2] = "cube" THEN Cores \X {"cube"} ELSE Cores \X VectorLanes

CollectiveSlots ==
  UNION {{CollectiveKey(i)} \X CollectiveParticipants(CollectiveKey(i)) :
           i \in {j \in Tasks : IsCollectiveSet(j) \/ IsCollectiveWait(j)}}

ReleaseSlots(i) == {CollectiveKey(i)} \X CollectiveParticipants(CollectiveKey(i))

OwnSlot(i) == <<CollectiveKey(i), Participant(i)>>

=============================================================================
