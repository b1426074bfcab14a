------------------------ MODULE EventSchedulerProofs ------------------------
(***************************************************************************)
(* Proofs about the scheduler for every set of programs and every          *)
(* configuration: type correctness, that a schedule keeps the order of the *)
(* program, and that a reported deadlock is global.                        *)
(***************************************************************************)
EXTENDS EventScheduler, TLAPS, WellFoundedInduction

-----------------------------------------------------------------------------
(* The greatest element of a set of positions. *)

\* A nonempty set of naturals has a least element.
LEMMA LeastExists ==
  ASSUME NEW S, S \subseteq Nat, S # {}
  PROVE  \E x \in S : \A y \in S : x <= y
<1>1. PICK x \in S : \A y \in S : ~ (<<y, x>> \in OpToRel(<, Nat))
  BY WFMin, NatLessThanWellFounded, Zenon
<1>2. ASSUME NEW y \in S PROVE x <= y
  <2>1. x \in Nat /\ y \in Nat
    BY <1>1, Zenon
  <2>2. y < x => <<y, x>> \in OpToRel(<, Nat)
    BY <2>1 DEF OpToRel
  <2>3. ~ (y < x)
    BY <1>1, <2>2, Zenon
  <2> QED
    BY <2>1, <2>3
<1> QED
  BY <1>1, <1>2, Zenon

\* Every member of a set of positions is at most its last one, which is what
\* the tables of reset and _fifo_predecessors keep of the set.
LEMMA LastCovers ==
  ASSUME NEW n \in Nat, NEW S, S \subseteq 1 .. n, NEW j \in S
  PROVE  \E m \in Last(S) : j <= m
<1> DEFINE T == {n - x : x \in S}
<1>1. T \subseteq Nat
  <2> SUFFICES ASSUME NEW x \in S PROVE n - x \in Nat
    OBVIOUS
  <2> x \in 1 .. n
    OBVIOUS
  <2> QED
    OBVIOUS
<1>2. T # {}
  <2> n - j \in T
    OBVIOUS
  <2> QED
    OBVIOUS
<1>3. \A x \in S : n - x \in T
  OBVIOUS
<1>4. PICK t \in T : \A y \in T : t <= y
  BY <1>1, <1>2, LeastExists, Zenon
<1>5. PICK m \in S : t = n - m
  BY <1>4
<1>6. \A x \in S : x \in Int
  OBVIOUS
<1> HIDE DEF T
<1>7. \A x \in S : x <= m
  BY <1>3, <1>4, <1>5, <1>6
<1> QED
  BY <1>5, <1>7 DEF Last

-----------------------------------------------------------------------------
(* What is derived from the program does not change while it does not. *)

\* The flags of a program are those that its markers name.
LEMMA FlagKeysStatic == prog' = prog => FlagKeys' = FlagKeys
BY DEF FlagKeys, SetKeys, WaitKeys, LocalFlagKey, CrossSetKeys, CrossKeys,
       CrossWaitKeys, CrossWaitMode, CrossModes, CrossSets, CrossTargetKind,
       LaneKind, Tasks

\* So are the participants of its collective flags.
LEMMA CollectiveSlotsStatic == prog' = prog => CollectiveSlots' = CollectiveSlots
BY DEF CollectiveSlots, CollectiveKey, CollectiveMode, CollectiveParticipants,
       IsCollectiveSet, IsCollectiveWait, CrossWaitMode, CrossModes, CrossSets,
       CrossTargetKind, LaneKind, Tasks

\* What precedes a task is fixed by reset and by the program.
LEMMA OrderedBeforeStatic ==
  ASSUME NEW i, prog' = prog
  PROVE  OrderedBefore(i)' = OrderedBefore(i)
<1>1. ExecutionDependencies(i)' = ExecutionDependencies(i)
  BY DEF ExecutionDependencies
<1>2. LaneFences(i)' = LaneFences(i)
  BY DEF LaneFences, Earlier, SameLane, FencesLane, FullBarrier, Tasks
<1>3. PipeFences(i)' = PipeFences(i)
  BY DEF PipeFences, Earlier, SameLane, FencesPipe, Tasks
<1>4. SourcePipeTasks(i)' = SourcePipeTasks(i)
  BY DEF SourcePipeTasks, Earlier, SameLane, Tasks
<1>5. SyncAllRelease(i)' = SyncAllRelease(i)
  BY DEF SyncAllRelease, SyncAllTasks, SameLane, Last, Tasks
<1>6. DrainedBy(i)' = DrainedBy(i)
  BY DEF DrainedBy, Earlier, SameLane, FullBarrier, Tasks
<1>7. {j \in Earlier(i) : SameResource(i, j)}' = {j \in Earlier(i) : SameResource(i, j)}
  BY DEF Earlier, SameResource, SameLane, Tasks
<1> QED
  BY <1>1, <1>2, <1>3, <1>4, <1>5, <1>6, <1>7 DEF OrderedBefore

\* evaluate depends on the program, the completed tasks and the credits alone.
LEMMA SchedulableStatic ==
  ASSUME NEW i, prog' = prog, done' = done, en' = en, UNCHANGED syncVars
  PROVE  Schedulable(i)' = Schedulable(i)
<1>1. Required(i)' = Required(i)
  BY DEF Required, FifoPredecessor, ExecutionDependencies, Last, Earlier, SameResource,
         SameLane, Tasks
<1>2. OrderingDependencies(i)' = OrderingDependencies(i)
  BY DEF OrderingDependencies, LaneFences, PipeFences, SourcePipeTasks, Last, Earlier,
         SameLane, FencesLane, FencesPipe, FullBarrier, Tasks
<1>3. SyncAllRelease(i)' = SyncAllRelease(i)
  BY DEF SyncAllRelease, SyncAllTasks, SameLane, Last, Tasks
<1>4. ASSUME NEW j PROVE AllArrived(j)' = AllArrived(j)
  BY DEF AllArrived, Arrivals, SyncAllTasks, SyncAllKey, SyncAllScope, SyncAllPhases,
         SyncAllPhase, SyncAllTaskParticipants, Participant, SyncAllParticipants, Tasks
<1>5. FlagDepthFree(i)' = FlagDepthFree(i)
  BY DEF FlagDepthFree, SetKeys, LocalFlagKey, CrossSetKeys, CrossKeys, syncVars
<1>6. FlagsAvailable(i)' = FlagsAvailable(i)
  BY DEF FlagsAvailable, WaitKeys, LocalFlagKey, CrossWaitKeys, CrossKeys, CrossWaitMode,
         CrossModes, CrossSets, CrossTargetKind, LaneKind, IsCollectiveWait, ReleaseSlots,
         OwnSlot, CollectiveKey, CollectiveMode, CollectiveParticipants, Participant,
         Tasks, syncVars
<1>7. BarrierDependencies(i)' = BarrierDependencies(i)
  BY DEF BarrierDependencies, Tails, DrainedBy, Earlier, FullBarrier, SameResource,
         SameLane, Tasks
<1>8. SyncReady(i)' = SyncReady(i)
  BY <1>2, <1>3, <1>4, <1>5, <1>6, <1>7 DEF SyncReady
<1> QED
  BY <1>1, <1>8 DEF Schedulable

-----------------------------------------------------------------------------
(* Type correctness. *)

TypeInv == TypeOK /\ prog \in Programs

\* What KernelProgram, Task and the bridge guarantee of each task.
LEMMA ProgramFacts ==
  ASSUME prog \in Programs
  PROVE  /\ prog \in Seq(Task)
         /\ Tasks = 1 .. Len(prog)
         /\ Len(prog) \in Nat
         /\ \A i \in Tasks : /\ prog[i] \in Task
                             /\ ValidTask(prog[i])
                             /\ prog[i].op # "work" => prog[i].pipe = SyncTaskPipe(prog[i])
                             /\ prog[i].deps \subseteq Tasks
<1>1. ValidProgram(prog)
  BY ProgramsAssumption
<1>2. prog \in Seq(Task)
  BY <1>1 DEF ValidProgram
<1>3. Tasks = 1 .. Len(prog) /\ Len(prog) \in Nat
  BY <1>2 DEF Tasks
<1>4. ASSUME NEW i \in Tasks
      PROVE  /\ prog[i] \in Task
             /\ ValidTask(prog[i])
             /\ prog[i].op # "work" => prog[i].pipe = SyncTaskPipe(prog[i])
             /\ prog[i].deps \subseteq Tasks
  <2>1. prog[i] \in Task
    BY <1>2, <1>3
  <2> QED
    BY <2>1, <1>1 DEF ValidProgram, Tasks
<1> QED
  BY <1>2, <1>3, <1>4

\* A collective set or wait has a slot of its own among those it may touch.
LEMMA SlotsTyped ==
  ASSUME prog \in Programs, NEW i \in Tasks, IsCollectiveSet(i) \/ IsCollectiveWait(i)
  PROVE  OwnSlot(i) \in CollectiveSlots /\ ReleaseSlots(i) \subseteq CollectiveSlots
<1>1. ReleaseSlots(i) \subseteq CollectiveSlots
  BY DEF ReleaseSlots, CollectiveSlots
<1>2. prog[i] \in Task /\ ValidTask(prog[i])
  BY ProgramFacts
<1>3. prog[i].core \in Cores /\ prog[i].lane \in CoreLanes
  BY <1>2 DEF Task, ValidTask, IsCollectiveSet, IsCollectiveWait, Lanes, CoreLanes
<1>4. CollectiveMode(i) \in {0, 1}
  <2>1. CASE IsCollectiveSet(i)
    BY <2>1 DEF CollectiveMode, IsCollectiveSet
  <2>2. CASE IsCollectiveWait(i)
    BY <2>2 DEF CollectiveMode, IsCollectiveWait
  <2> QED
    BY <2>1, <2>2
<1>5. CollectiveMode(i) = 1 => prog[i].lane \in VectorLanes
  <2>1. CASE IsCollectiveSet(i)
    BY <2>1, <1>2, <1>3 DEF CollectiveMode, IsCollectiveSet, ValidTask, CoreLanes
  <2>2. CASE IsCollectiveWait(i) /\ CollectiveMode(i) = 1
    <3>1. CrossWaitMode(i) = {1}
      BY <2>2 DEF CollectiveMode, IsCollectiveWait
    <3>2. PICK j \in CrossSets : prog[j].mode = 1 /\ CrossTargetKind(j) = LaneKind(i)
      BY <3>1 DEF CrossWaitMode, CrossModes
    <3>3. ValidTask(prog[j]) /\ prog[j].op = "set_cross_flag"
      BY <3>2, ProgramFacts DEF CrossSets
    <3>4. LaneKind(j) = "vector"
      BY <3>2, <3>3 DEF ValidTask, LaneKind
    <3>5. LaneKind(i) = "vector"
      BY <3>2, <3>4 DEF CrossTargetKind
    <3> QED
      BY <3>5, <1>3 DEF LaneKind, CoreLanes
  <2>3. IsCollectiveSet(i) \/ IsCollectiveWait(i)
    OBVIOUS
  <2> QED
    BY <2>1, <2>2, <2>3
<1>6. Participant(i) \in CollectiveParticipants(CollectiveKey(i))
  <2>1. CASE CollectiveMode(i) = 1
    BY <2>1, <1>3, <1>5 DEF Participant, CollectiveParticipants, CollectiveKey
  <2>2. CASE CollectiveMode(i) = 0
    BY <2>2, <1>3 DEF Participant, CollectiveParticipants, CollectiveKey, LaneKind, CoreLanes
  <2> QED
    BY <2>1, <2>2, <1>4
<1>7. OwnSlot(i) \in ReleaseSlots(i)
  BY <1>6 DEF OwnSlot, ReleaseSlots
<1> QED
  BY <1>1, <1>7

\* A task that may be scheduled takes its start from completed or earlier tasks.
LEMMA SourcesTyped ==
  ASSUME TypeInv, NEW i \in Tasks, Schedulable(i)
  PROVE  Required(i) \cup SyncSources(i) \subseteq Tasks
<1>1. Required(i) \subseteq Tasks /\ OrderingDependencies(i) \subseteq Tasks
  BY DEF TypeInv, TypeOK, Schedulable, SyncReady
<1>2. \A j : Arrivals(j) \subseteq Tasks
  BY DEF Arrivals, SyncAllTasks
<1>3. BarrierDependencies(i) \subseteq Tasks
  BY DEF BarrierDependencies, Tails, DrainedBy, Earlier
<1>4. ASSUME SyncAllRelease(i) = {}
      PROVE  FlagProducers(i) \subseteq Tasks
  <2>1. FlagsAvailable(i)
    BY <1>4 DEF Schedulable, SyncReady
  <2>2. ASSUME NEW k \in WaitKeys(i)
        PROVE  Head(tokens[k]) \in Tasks
    <3>1. k \in FlagKeys
      BY <2>2 DEF FlagKeys
    <3>2. tokens[k] \in Seq(Tasks) /\ tokens[k] # <<>>
      BY <3>1, <2>1, <2>2 DEF TypeInv, TypeOK, SyncTypeOK, FlagsAvailable
    <3> QED
      BY <3>2
  <2>3. ASSUME IsCollectiveWait(i), NEW a \in ReleaseSlots(i)
        PROVE  ready[a][waited[OwnSlot(i)] + 1] \in Tasks
    <3>1. a \in CollectiveSlots /\ OwnSlot(i) \in CollectiveSlots
      BY <2>3, SlotsTyped DEF TypeInv
    <3>2. ready[a] \in Seq(Tasks) /\ waited[OwnSlot(i)] \in Nat
      BY <3>1 DEF TypeInv, TypeOK, SyncTypeOK
    <3>3. Len(ready[a]) > waited[OwnSlot(i)]
      BY <2>1, <2>3 DEF FlagsAvailable
    <3> QED
      BY <3>2, <3>3
  <2> QED
    BY <2>2, <2>3 DEF FlagProducers
<1> QED
  BY <1>1, <1>2, <1>3, <1>4 DEF SyncSources

\* A start cycle is a cycle, and no earlier than any end it depends on.
LEMMA StartFacts ==
  ASSUME TypeInv, NEW i \in Tasks, Schedulable(i), NEW s \in StartCycle(i)
  PROVE  s \in Nat /\ \A j \in Required(i) \cup SyncSources(i) : en[j] <= s
<1>1. Required(i) \cup SyncSources(i) \subseteq Tasks
  BY SourcesTyped
<1>2. \A j \in Required(i) \cup SyncSources(i) : en[j] \in Nat
  BY <1>1 DEF TypeInv, TypeOK
<1> QED
  BY <1>2 DEF StartCycle, LatestEnd

\* on_scheduled keeps the types of the credits when it does not raise.
LEMMA OnScheduledTyped ==
  ASSUME TypeInv, NEW i \in Tasks, OnScheduled(i), ~WaitMissing(i), prog' = prog
  PROVE  SyncTypeOK'
<1>1. tokens \in [FlagKeys -> Seq(Tasks)] /\ ready \in [CollectiveSlots -> Seq(Tasks)]
      /\ waited \in [CollectiveSlots -> Nat]
  BY DEF TypeInv, TypeOK, SyncTypeOK
<1>2. tokens' \in [FlagKeys -> Seq(Tasks)]
  <2> SUFFICES ASSUME NEW k \in FlagKeys
               PROVE  (IF k \in SetKeys(i) THEN Append(tokens[k], i)
                       ELSE IF k \in WaitKeys(i) THEN Tail(tokens[k]) ELSE tokens[k]) \in Seq(Tasks)
    BY <1>1 DEF OnScheduled
  <2>1. tokens[k] \in Seq(Tasks)
    BY <1>1
  <2>2. Append(tokens[k], i) \in Seq(Tasks)
    BY <2>1
  <2>3. k \in WaitKeys(i) => Tail(tokens[k]) \in Seq(Tasks)
    BY <2>1 DEF WaitMissing
  <2> QED
    BY <2>1, <2>2, <2>3
<1>3. ready' \in [CollectiveSlots -> Seq(Tasks)]
  <2> SUFFICES ASSUME NEW a \in CollectiveSlots
               PROVE  (IF IsCollectiveSet(i) /\ a = OwnSlot(i) THEN Append(ready[a], i)
                       ELSE ready[a]) \in Seq(Tasks)
    BY <1>1 DEF OnScheduled
  <2>1. ready[a] \in Seq(Tasks)
    BY <1>1
  <2>2. Append(ready[a], i) \in Seq(Tasks)
    BY <2>1
  <2> QED
    BY <2>1, <2>2
<1>4. waited' \in [CollectiveSlots -> Nat]
  <2> SUFFICES ASSUME NEW a \in CollectiveSlots
               PROVE  (IF IsCollectiveWait(i) /\ a = OwnSlot(i) THEN waited[a] + 1
                       ELSE waited[a]) \in Nat
    BY <1>1 DEF OnScheduled
  <2> QED
    BY <1>1
<1>5. FlagKeys' = FlagKeys /\ CollectiveSlots' = CollectiveSlots /\ Tasks' = Tasks
  BY FlagKeysStatic, CollectiveSlotsStatic DEF Tasks
<1> QED
  BY <1>2, <1>3, <1>4, <1>5 DEF SyncTypeOK

\* A step that leaves the credits alone keeps their types.
LEMMA SyncTypeStatic ==
  ASSUME SyncTypeOK, prog' = prog, UNCHANGED syncVars
  PROVE  SyncTypeOK'
<1>1. FlagKeys' = FlagKeys /\ CollectiveSlots' = CollectiveSlots /\ Tasks' = Tasks
  BY FlagKeysStatic, CollectiveSlotsStatic DEF Tasks
<1> QED
  BY <1>1 DEF SyncTypeOK, syncVars

\* reset and the head of run() establish the types.
LEMMA TypeInit == Init => TypeInv
<1> SUFFICES ASSUME Init PROVE TypeInv
  OBVIOUS
<1>1. prog \in Programs /\ prog \in Seq(Task) /\ Len(prog) \in Nat
  BY ProgramFacts DEF Init
<1>2. SyncTypeOK
  BY DEF Init, SyncInit, SyncTypeOK
<1>3. status \in Failures \cup {"running", "done"}
  BY DEF Init, Failures
<1>4. progress \in BOOLEAN
  BY Zenon DEF Init
<1> QED
  BY <1>1, <1>2, <1>3, <1>4 DEF Init, TypeInv, TypeOK

\* Every step of the pass loop keeps them.
LEMMA TypeStep == TypeInv /\ [Next]_vars => TypeInv'
<1> SUFFICES ASSUME TypeInv, [Next]_vars PROVE TypeInv'
  OBVIOUS
<1> USE DEF Failures
<1>1. Len(prog) \in Nat /\ Tasks = 1 .. Len(prog)
  BY ProgramFacts DEF TypeInv
<1>2. ASSUME NEW i \in Tasks, Schedule(i) PROVE TypeInv'
  <2>1. prog' = prog /\ Tasks' = Tasks
    BY <1>2 DEF Schedule, Tasks
  <2>2. PICK s \in StartCycle(i) : Complete(i, s)
    BY <1>2 DEF Schedule
  <2>3. s \in Nat /\ s + prog[i].dur \in Nat
    <3>1. s \in Nat
      BY <1>2, StartFacts DEF Schedule
    <3>2. prog[i].dur \in Nat
      BY ProgramFacts DEF TypeInv, Task
    <3> QED
      BY <3>1, <3>2
  <2>4. done' \subseteq Tasks /\ st' \in [Tasks -> Nat] /\ en' \in [Tasks -> Nat]
    BY <2>2, <2>3 DEF Complete, TypeInv, TypeOK
  <2>5. SyncTypeOK'
    <3>1. CASE SetOverflows(i) \/ WaitMissing(i)
      BY <3>1, <1>2, <2>1, SyncTypeStatic DEF Schedule, TypeInv, TypeOK, syncVars
    <3>2. CASE ~(SetOverflows(i) \/ WaitMissing(i))
      BY <3>2, <1>2, <2>1, OnScheduledTyped DEF Schedule
    <3> QED
      BY <3>1, <3>2
  <2>6. pos' \in 0 .. Len(prog) + 1 /\ status' \in Failures \cup {"running", "done"}
    BY <1>1, <1>2 DEF Schedule, TypeInv, TypeOK
  <2>7. progress' \in BOOLEAN
    BY <1>2, Zenon DEF Schedule, TypeInv, TypeOK
  <2> QED
    BY <2>1, <2>4, <2>5, <2>6, <2>7 DEF TypeInv, TypeOK
<1>3. ASSUME prog' = prog, UNCHANGED schedule, UNCHANGED syncVars,
             pos' \in 0 .. Len(prog) + 1, progress' \in BOOLEAN,
             status' \in Failures \cup {"running", "done"}
      PROVE  TypeInv'
  <2>1. SyncTypeOK'
    BY <1>3, SyncTypeStatic DEF TypeInv, TypeOK
  <2> QED
    BY <1>3, <2>1 DEF TypeInv, TypeOK, schedule, Tasks
<1>4. ASSUME NEW i \in Tasks, Blocked(i) PROVE TypeInv'
  BY <1>1, <1>3, <1>4 DEF Blocked, TypeInv, TypeOK, schedule, syncVars
<1>5. ASSUME NEW i \in Tasks, CycleLimit(i) PROVE TypeInv'
  BY <1>3, <1>5 DEF CycleLimit, TypeInv, TypeOK, schedule, syncVars
<1>6. CASE BeginPass
  <2>1. progress' \in BOOLEAN
    BY <1>6, Zenon DEF BeginPass
  <2> QED
    BY <1>1, <1>3, <1>6, <2>1 DEF BeginPass, TypeInv, TypeOK, schedule, syncVars
<1>7. CASE EndPass
  BY <1>1, <1>3, <1>7 DEF EndPass, TypeInv, TypeOK, schedule, syncVars
<1>8. CASE Finish
  BY <1>3, <1>8 DEF Finish, TypeInv, TypeOK, schedule, syncVars
<1>9. CASE WallTimeout
  BY <1>3, <1>9 DEF WallTimeout, TypeInv, TypeOK, schedule, syncVars
<1>10. CASE UNCHANGED vars
  BY <1>3, <1>10 DEF vars, TypeInv, TypeOK, schedule, syncVars
<1> QED
  BY <1>2, <1>4, <1>5, <1>6, <1>7, <1>8, <1>9, <1>10 DEF Next, Run, Returned

\* run() keeps to its types: completed tasks are tasks of the program, cycles
\* are naturals, and every queue of credits holds tasks of the program.
THEOREM TypeCorrect == Spec => []TypeOK
<1>1. TypeInv => TypeOK
  BY DEF TypeInv
<1> QED
  BY <1>1, TypeInit, TypeStep, PTL DEF Spec

-----------------------------------------------------------------------------
(***************************************************************************)
(* A schedule keeps the order of the program.  The code looks only at the  *)
(* last task of a pipe, the last fence of a lane and the tails of what a   *)
(* barrier drains; that this is enough needs OrderKept itself for the      *)
(* tasks completed so far, and that no task ends before it starts.         *)
(***************************************************************************)
EndsAfterStart == \A i \in done : st[i] <= en[i]

OrderInv == TypeInv /\ EndsAfterStart /\ OrderKept

\* Whatever comes before a task that ended by cycle s has itself ended by s.
LEMMA EndedBefore ==
  ASSUME OrderInv, NEW s \in Nat, NEW m \in done, en[m] <= s, NEW j \in OrderedBefore(m)
  PROVE  j \in done /\ en[j] <= s
<1>1. j \in done /\ en[j] <= st[m] /\ st[m] <= en[m]
  BY DEF OrderInv, OrderKept, EndsAfterStart
<1>2. en[j] \in Nat /\ st[m] \in Nat /\ en[m] \in Nat
  BY <1>1 DEF OrderInv, TypeInv, TypeOK
<1> QED
  BY <1>1, <1>2

\* The FIFO predecessor, the last fence, the last task of the source pipe and
\* the tails of a barrier stand for all that precedes them.
LEMMA PredecessorsEnded ==
  ASSUME OrderInv, NEW i \in Tasks, Schedulable(i), NEW s \in StartCycle(i)
  PROVE  \A j \in OrderedBefore(i) : j \in done /\ en[j] <= s
<1>1. s \in Nat /\ \A j \in Required(i) \cup SyncSources(i) : en[j] <= s
  BY StartFacts DEF OrderInv
<1>2. Required(i) \subseteq done /\ OrderingDependencies(i) \subseteq done
  BY DEF Schedulable, SyncReady
<1>3. OrderingDependencies(i) \subseteq SyncSources(i)
  BY DEF SyncSources
<1>4. Len(prog) \in Nat /\ Earlier(i) \subseteq 1 .. Len(prog)
  BY ProgramFacts DEF OrderInv, TypeInv, Earlier
<1>5. ASSUME NEW j \in Earlier(i), SameResource(i, j)
      PROVE  j \in done /\ en[j] <= s
  <2> DEFINE S == {k \in Earlier(i) : SameResource(i, k)}
  <2>1. PICK m \in Last(S) : j <= m
    BY <1>4, <1>5, LastCovers, Zenon
  <2>2. m \in FifoPredecessor(i) /\ m \in Earlier(i) /\ SameResource(i, m)
    BY <2>1 DEF FifoPredecessor, Last
  <2>3. m \in done /\ en[m] <= s
    BY <2>2, <1>1, <1>2 DEF Required
  <2>4. j < m => j \in OrderedBefore(m)
    BY <1>5, <2>2, Zenon DEF OrderedBefore, Earlier, SameResource, SameLane
  <2>5. j = m \/ j < m
    BY <1>4, <2>1, <2>2
  <2> QED
    BY <1>1, <2>3, <2>4, <2>5, EndedBefore
<1>6. ASSUME NEW j \in ExecutionDependencies(i)
      PROVE  j \in done /\ en[j] <= s
  BY <1>1, <1>2, <1>6 DEF Required
<1>7. ASSUME NEW j \in LaneFences(i)
      PROVE  j \in done /\ en[j] <= s
  <2>1. LaneFences(i) \subseteq 1 .. Len(prog)
    BY <1>4 DEF LaneFences
  <2>2. PICK m \in Last(LaneFences(i)) : j <= m
    BY <1>4, <1>7, <2>1, LastCovers
  <2>3. m \in OrderingDependencies(i) /\ m \in LaneFences(i)
    BY <2>2 DEF OrderingDependencies, Last
  <2>4. m \in done /\ en[m] <= s
    BY <2>3, <1>1, <1>2, <1>3
  <2>5. j < m => j \in OrderedBefore(m)
    BY <1>7, <2>3 DEF OrderedBefore, LaneFences, Earlier, SameLane
  <2>6. j = m \/ j < m
    BY <2>1, <2>2, <2>3, <1>7
  <2> QED
    BY <1>1, <2>4, <2>5, <2>6, EndedBefore
<1>8. ASSUME NEW j \in SourcePipeTasks(i)
      PROVE  j \in done /\ en[j] <= s
  <2>1. SourcePipeTasks(i) \subseteq 1 .. Len(prog)
    BY <1>4 DEF SourcePipeTasks
  <2>2. PICK m \in Last(SourcePipeTasks(i)) : j <= m
    BY <1>4, <1>8, <2>1, LastCovers
  <2>3. m \in OrderingDependencies(i) /\ m \in SourcePipeTasks(i)
    BY <2>2 DEF OrderingDependencies, Last
  <2>4. m \in done /\ en[m] <= s
    BY <2>3, <1>1, <1>2, <1>3
  <2>5. j < m => j \in OrderedBefore(m)
    BY <1>8, <2>3 DEF OrderedBefore, SourcePipeTasks, Earlier, SameResource, SameLane
  <2>6. j = m \/ j < m
    BY <2>1, <2>2, <2>3, <1>8
  <2> QED
    BY <1>1, <2>4, <2>5, <2>6, EndedBefore
<1>9. ASSUME NEW j \in PipeFences(i)
      PROVE  j \in done /\ en[j] <= s
  <2>1. j \in Earlier(i) /\ SameLane(i, j) /\ FencesPipe(j, prog[i].pipe)
    BY <1>9 DEF PipeFences
  <2>2. /\ prog[i] \in Task /\ ValidTask(prog[i])
        /\ prog[j] \in Task /\ ValidTask(prog[j])
        /\ prog[j].op # "work" => prog[j].pipe = SyncTaskPipe(prog[j])
    BY <2>1, ProgramFacts DEF OrderInv, TypeInv, Earlier
  <2>3. prog[j].pipe = prog[i].pipe
    <3>1. CASE prog[j].lane = "control"
      <4>1. PipesOf["control"] = {"s"}
        BY DEF PipesOf, Lanes
      <4> QED
        BY <3>1, <4>1, <2>1, <2>2 DEF SameLane, ValidTask
    <3>2. CASE prog[j].lane # "control"
      BY <3>2, <2>1, <2>2 DEF FencesPipe, SyncTaskPipe, SetOps
    <3> QED
      BY <3>1, <3>2, SMTT(20)
  <2> QED
    BY <1>5, <2>1, <2>3 DEF SameResource
<1>10. ASSUME SyncAllRelease(i) = {}, NEW j \in DrainedBy(i)
       PROVE  j \in done /\ en[j] <= s
  <2> DEFINE S == {k \in DrainedBy(i) : SameResource(j, k)}
  <2>1. DrainedBy(i) \subseteq Earlier(i) /\ S \subseteq 1 .. Len(prog) /\ j \in S
    BY <1>4, <1>10 DEF DrainedBy, SameResource, SameLane
  <2>2. PICK m \in Last(S) : j <= m
    BY <1>4, <2>1, LastCovers, Zenon
  <2>3. m \in DrainedBy(i) /\ SameResource(j, m) /\ \A k \in S : k <= m
    BY <2>2 DEF Last
  <2>4. m \in BarrierDependencies(i)
    BY <2>3 DEF BarrierDependencies, Tails, SameResource, SameLane
  <2>5. BarrierDependencies(i) \subseteq done /\ BarrierDependencies(i) \subseteq SyncSources(i)
    BY <1>10 DEF Schedulable, SyncReady, SyncSources
  <2>6. m \in done /\ en[m] <= s
    BY <2>4, <2>5, <1>1
  <2>7. j < m => j \in OrderedBefore(m)
    BY <1>4, <2>1, <2>3 DEF OrderedBefore, Earlier, SameResource, SameLane
  <2>8. j = m \/ j < m
    BY <1>4, <2>1, <2>2, <2>3
  <2> QED
    BY <1>1, <2>6, <2>7, <2>8, EndedBefore, SMTT(20)
<1> QED
  BY <1>5, <1>6, <1>7, <1>8, <1>9, <1>10 DEF OrderedBefore

\* Every step of the pass loop keeps the order of what it has scheduled.
LEMMA OrderStep == OrderInv /\ [Next]_vars => OrderInv'
<1> SUFFICES ASSUME OrderInv, [Next]_vars PROVE OrderInv'
  OBVIOUS
<1>1. TypeInv /\ TypeInv'
  BY TypeStep DEF OrderInv
<1>2. prog' = prog
  BY DEF Next, Run, Returned, BeginPass, EndPass, Finish, WallTimeout, Blocked, Schedule,
         CycleLimit, vars
<1>3. \A i : OrderedBefore(i)' = OrderedBefore(i)
  BY <1>2, OrderedBeforeStatic
<1>4. ASSUME NEW i \in Tasks, Schedule(i) PROVE OrderInv'
  <2>1. i \in Tasks \ done /\ Schedulable(i)
    BY <1>4 DEF Schedule, Visiting, Pending
  <2>2. PICK s \in StartCycle(i) : Complete(i, s)
    BY <1>4 DEF Schedule
  <2>3. s \in Nat /\ prog[i].dur \in Nat
    BY <1>1, <2>1, StartFacts, ProgramFacts DEF TypeInv, Task
  <2>4. done' = done \cup {i} /\ st'[i] = s /\ en'[i] = s + prog[i].dur
        /\ \A k \in done : st'[k] = st[k] /\ en'[k] = en[k]
    BY <1>1, <2>1, <2>2 DEF Complete, TypeInv, TypeOK
  <2>5. EndsAfterStart'
    BY <2>3, <2>4 DEF EndsAfterStart, OrderInv
  <2>6. ASSUME NEW k \in done', NEW j \in OrderedBefore(k)
        PROVE  j \in done' /\ en'[j] <= st'[k]
    <3>1. CASE k = i
      <4>1. j \in done /\ en[j] <= s
        BY <3>1, <2>1, <2>6, PredecessorsEnded
      <4> QED
        BY <3>1, <4>1, <2>4
    <3>2. CASE k \in done
      <4>1. j \in done /\ en[j] <= st[k]
        BY <3>2, <2>6 DEF OrderInv, OrderKept
      <4> QED
        BY <3>2, <4>1, <2>4
    <3> QED
      BY <3>1, <3>2, <2>4, <2>6
  <2>7. OrderKept'
    BY <2>6, <1>3 DEF OrderKept
  <2> QED
    BY <1>1, <2>5, <2>7 DEF OrderInv
<1>5. ASSUME UNCHANGED schedule PROVE OrderInv'
  <2>1. EndsAfterStart' /\ OrderKept'
    BY <1>3, <1>5 DEF OrderInv, EndsAfterStart, OrderKept, schedule
  <2> QED
    BY <1>1, <2>1 DEF OrderInv
<1>6. (\E i \in Tasks : Schedule(i)) \/ UNCHANGED schedule
  BY DEF Next, Run, Returned, BeginPass, EndPass, Finish, WallTimeout, Blocked, CycleLimit,
         vars, schedule
<1> QED
  BY <1>4, <1>5, <1>6

\* In every state of every run, each completed task started after the end of
\* every earlier task of its pipe, of its execution edges, of every earlier
\* fence of its lane and pipe, and of everything that its barrier drains.
THEOREM OrderIsKept == Spec => []OrderKept
<1>1. Init => OrderInv
  BY TypeInit DEF Init, OrderInv, EndsAfterStart, OrderKept
<1>2. OrderInv => OrderKept
  BY DEF OrderInv
<1> QED
  BY <1>1, <1>2, OrderStep, PTL DEF Spec

-----------------------------------------------------------------------------
(***************************************************************************)
(* A reported deadlock is global.  While a pass has scheduled nothing, all *)
(* that it has refused so far is still refused, since nothing has changed. *)
(***************************************************************************)
IdlePass ==
  status = "running" /\ pos > 0 /\ progress = FALSE =>
    /\ Pending # {}
    /\ \A i \in Pending : i < pos => ~Schedulable(i)

PassInv == TypeInv /\ IdlePass /\ DeadlockIsGlobal

\* Every step of the pass loop keeps what an idle pass has established.
LEMMA PassStep == PassInv /\ [Next]_vars => PassInv'
<1> SUFFICES ASSUME PassInv, [Next]_vars PROVE PassInv'
  OBVIOUS
<1>1. TypeInv /\ TypeInv'
  BY TypeStep DEF PassInv
<1>2. ASSUME prog' = prog, UNCHANGED schedule, UNCHANGED syncVars
      PROVE  Pending' = Pending /\ \A i : Schedulable(i)' = Schedulable(i)
  <2>1. Pending' = Pending
    BY <1>2 DEF Pending, Tasks, schedule
  <2>2. \A i : Schedulable(i)' = Schedulable(i)
    BY <1>2, SchedulableStatic DEF schedule
  <2> QED
    BY <2>1, <2>2
<1>3. Tasks \subseteq Int /\ pos \in Int
  BY <1>1, ProgramFacts DEF TypeInv, TypeOK
<1>4. ASSUME NEW i \in Tasks, Blocked(i) PROVE PassInv'
  <2>1. Pending' = Pending /\ \A k : Schedulable(k)' = Schedulable(k)
    BY <1>2, <1>4 DEF Blocked, schedule, syncVars
  <2>2. i \in Pending /\ ~Schedulable(i) /\ pos' = i + 1 /\ pos > 0 /\ status = "running"
        /\ UNCHANGED <<status, progress>> /\ \A j \in Pending : j >= pos => i <= j
    BY <1>4 DEF Blocked, Visiting
  <2>3. ASSUME progress = FALSE, NEW k \in Pending, k < i + 1
        PROVE  ~Schedulable(k)
    <3>1. CASE k < pos
      BY <3>1, <2>2, <2>3 DEF PassInv, IdlePass
    <3>2. CASE ~(k < pos)
      <4>1. k \in Int /\ i \in Int
        BY <1>3 DEF Pending
      <4>2. k = i
        BY <3>2, <4>1, <2>2, <2>3, <1>3
      <4> QED
        BY <4>2, <2>2
    <3> QED
      BY <3>1, <3>2
  <2>4. IdlePass'
    BY <2>1, <2>2, <2>3, Zenon DEF IdlePass
  <2>5. DeadlockIsGlobal'
    BY <2>2 DEF DeadlockIsGlobal
  <2> QED
    BY <1>1, <2>4, <2>5 DEF PassInv
<1>5. ASSUME NEW i \in Tasks, Schedule(i) PROVE PassInv'
  <2>1. (status' \in {"overflow", "missing"}) \/ (status' = status /\ progress' = TRUE)
    BY <1>5 DEF Schedule
  <2>2. status = "running"
    BY <1>5 DEF Schedule, Visiting
  <2>3. IdlePass'
    BY <2>1, Zenon DEF IdlePass
  <2>4. DeadlockIsGlobal'
    BY <2>1, <2>2 DEF DeadlockIsGlobal
  <2> QED
    BY <1>1, <2>3, <2>4 DEF PassInv
<1>6. ASSUME NEW i \in Tasks, CycleLimit(i) PROVE PassInv'
  BY <1>1, <1>6 DEF CycleLimit, PassInv, IdlePass, DeadlockIsGlobal
<1>7. CASE BeginPass
  <2>1. Pending' = Pending
    BY <1>2, <1>7 DEF BeginPass, schedule, syncVars
  <2>2. \A i \in Pending' : ~ (i < pos')
    BY <1>1, <1>7, <2>1, ProgramFacts DEF BeginPass, Pending, TypeInv
  <2>3. IdlePass'
    BY <1>7, <2>1, <2>2 DEF BeginPass, IdlePass
  <2>4. DeadlockIsGlobal'
    BY <1>7 DEF BeginPass, DeadlockIsGlobal
  <2> QED
    BY <1>1, <2>3, <2>4 DEF PassInv
<1>8. CASE EndPass
  <2>1. Pending' = Pending /\ \A k : Schedulable(k)' = Schedulable(k)
    BY <1>2, <1>8 DEF EndPass, schedule, syncVars
  <2>2. CASE progress = FALSE /\ DeadlockDetect
    <3>1. status' = "deadlock"
      BY <1>8, <2>2 DEF EndPass
    <3>2. Pending # {} /\ \A i \in Pending : ~Schedulable(i)
      BY <1>8, <2>2 DEF EndPass, PassInv, IdlePass
    <3> QED
      BY <1>1, <2>1, <3>1, <3>2 DEF PassInv, IdlePass, DeadlockIsGlobal
  <2>3. CASE ~(progress = FALSE /\ DeadlockDetect)
    <3>1. progress \in BOOLEAN
      BY <1>1 DEF TypeInv, TypeOK
    <3>2. pos' = 0 /\ status' = "running"
      BY <1>8, <2>3, <3>1, Zenon DEF EndPass
    <3> QED
      BY <1>1, <3>2 DEF PassInv, IdlePass, DeadlockIsGlobal
  <2> QED
    BY <2>2, <2>3, Zenon
<1>9. CASE Finish
  <2>1. status' \in {"unbalanced", "done"}
    BY <1>9 DEF Finish
  <2> QED
    BY <1>1, <2>1 DEF PassInv, IdlePass, DeadlockIsGlobal
<1>10. CASE WallTimeout
  BY <1>1, <1>10 DEF WallTimeout, PassInv, IdlePass, DeadlockIsGlobal
<1>11. CASE UNCHANGED vars
  <2>1. Pending' = Pending /\ \A k : Schedulable(k)' = Schedulable(k)
    BY <1>2, <1>11 DEF vars, schedule, syncVars
  <2>2. IdlePass' /\ DeadlockIsGlobal'
    BY <1>11, <2>1 DEF vars, PassInv, IdlePass, DeadlockIsGlobal
  <2> QED
    BY <1>1, <2>2 DEF PassInv
<1> QED
  BY <1>4, <1>5, <1>6, <1>7, <1>8, <1>9, <1>10, <1>11 DEF Next, Run, Returned

\* When run() reports a deadlock, tasks are pending and none of them could be
\* scheduled, in whatever order they are tried; with flag_blocking as well.
THEOREM DeadlockGlobal == Spec => []DeadlockIsGlobal
<1>1. Init => PassInv
  <2> SUFFICES ASSUME Init PROVE PassInv
    OBVIOUS
  <2>1. TypeInv /\ pos = 0 /\ status \in {"running", "invalid"}
    BY TypeInit DEF Init
  <2> QED
    BY <2>1 DEF PassInv, IdlePass, DeadlockIsGlobal
<1>2. PassInv => DeadlockIsGlobal
  BY DEF PassInv
<1> QED
  BY <1>1, <1>2, PassStep, PTL DEF Spec

=============================================================================
