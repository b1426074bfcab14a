------------------------ MODULE PipelineOrderProofs ------------------------
(***************************************************************************)
(* Proofs that the scheduler implements PipelineOrder for every program    *)
(* whose sets queue, that a reported deadlock is then inherent in the      *)
(* program, and that the first rendezvous of sync_all separates what is    *)
(* before it from what is after it.                                        *)
(***************************************************************************)
EXTENDS FlagBarrierProofs

-----------------------------------------------------------------------------
(* The flags that a wait consumes are those it is paired with. *)

\* The next phase of each participant is the one paired with the wait.
LEMMA PhaseIsPaired ==
  ASSUME CreditInv, SetsQueue, ~Raised, NEW i \in Tasks \ done, OrderedBefore(i) \subseteq done,
         IsCollectiveWait(i), NEW a \in ReleaseSlots(i), Len(ready[a]) > waited[OwnSlot(i)]
  PROVE  {j \in CollectiveSets(a) :
            Rank(CollectiveSets(a), j) = Rank(CollectiveWaits(OwnSlot(i)), i)}
           = {ready[a][waited[OwnSlot(i)] + 1]}
<1> DEFINE w == waited[OwnSlot(i)]
<1>1. OrderInv /\ prog \in Programs
  BY DEF CreditInv, OrderInv, TypeInv
<1>2. a \in CollectiveSlots /\ OwnSlot(i) \in CollectiveSlots
  BY <1>1, SlotsTyped
<1>3. ready[a] \in Seq(Tasks) /\ w \in Nat
  BY <1>1, <1>2 DEF OrderInv, TypeInv, TypeOK, SyncTypeOK
<1>4. i \in CollectiveWaits(OwnSlot(i)) /\ CollectiveWaits(OwnSlot(i)) \subseteq Tasks
  BY DEF CollectiveWaits
<1>5. w = Rank(CollectiveWaits(OwnSlot(i)), i)
  <2>1. w = Cardinality(CollectiveWaits(OwnSlot(i)) \cap done)
    BY <1>2, Zenon DEF CreditInv, CreditsCounted, CollectivesCounted
  <2> QED
    BY <1>1, <1>4, <2>1, QueueFrontier, CollectivesQueue
<1>6. w + 1 \in 1 .. Len(ready[a])
  BY <1>3
<1>7. ready[a][w + 1] \in CollectiveSets(a) /\ Rank(CollectiveSets(a), ready[a][w + 1]) = w + 1 - 1
  <2>1. CollectivesRanked
    BY DEF CreditInv, CreditsRanked
  <2>2. \A n \in 1 .. Len(ready[a]) :
          ready[a][n] \in CollectiveSets(a) /\ Rank(CollectiveSets(a), ready[a][n]) = n - 1
    BY <1>2, <2>1 DEF CollectivesRanked
  <2> HIDE DEF w
  <2> QED
    BY <1>3, <1>6, <2>2
<1> HIDE DEF w
<1>8. Rank(CollectiveSets(a), ready[a][w + 1]) = Rank(CollectiveWaits(OwnSlot(i)), i)
  BY <1>3, <1>5, <1>7
<1>9. \A j \in CollectiveSets(a) :
        Rank(CollectiveSets(a), j) = Rank(CollectiveSets(a), ready[a][w + 1]) => j = ready[a][w + 1]
  <2>1. CollectiveSets(a) \subseteq Tasks
    BY DEF CollectiveSets
  <2> QED
    BY <1>1, <1>7, <2>1, RankNames
<1>10. {j \in CollectiveSets(a) : Rank(CollectiveSets(a), j) = Rank(CollectiveWaits(OwnSlot(i)), i)}
         = {ready[a][w + 1]}
  BY <1>7, <1>8, <1>9
<1> QED
  BY <1>10 DEF w

\* PairedSets and PairedPhases in terms of the sets and waits of a flag.
LEMMA PairedForms ==
  ASSUME NEW i
  PROVE  /\ PairedSets(i) = UNION {{j \in Sets(k) : Rank(Sets(k), j) = Rank(Waits(k), i)} : k \in WaitKeys(i)}
         /\ IsCollectiveWait(i) =>
              PairedPhases(i) =
                UNION {{j \in CollectiveSets(a) :
                          Rank(CollectiveSets(a), j) = Rank(CollectiveWaits(OwnSlot(i)), i)} : a \in ReleaseSlots(i)}
         /\ ~IsCollectiveWait(i) => PairedPhases(i) = {}
BY DEF PairedSets, PairedPhases, Sets, Waits, CollectiveSets, CollectiveWaits

\* evaluate waits for exactly the sets that the program pairs with the task.
LEMMA ProducersPaired ==
  ASSUME CreditInv, SetsQueue, ~Raised, NEW i \in Tasks \ done, OrderedBefore(i) \subseteq done,
         FlagsAvailable(i)
  PROVE  FlagProducers(i) = PairedSets(i) \cup PairedPhases(i)
<1>1. \A k \in WaitKeys(i) :
        {j \in Sets(k) : Rank(Sets(k), j) = Rank(Waits(k), i)} = {Head(tokens[k])}
  BY HeadIsPaired DEF FlagsAvailable, FlagQueues
<1>2. PairedSets(i) = {Head(tokens[k]) : k \in WaitKeys(i)}
  BY <1>1, PairedForms
<1>3. CASE IsCollectiveWait(i)
  <2>1. \A a \in ReleaseSlots(i) :
          {j \in CollectiveSets(a) : Rank(CollectiveSets(a), j) = Rank(CollectiveWaits(OwnSlot(i)), i)}
            = {ready[a][waited[OwnSlot(i)] + 1]}
    BY <1>3, PhaseIsPaired DEF FlagsAvailable
  <2>2. PairedPhases(i) = {ready[a][waited[OwnSlot(i)] + 1] : a \in ReleaseSlots(i)}
    BY <1>3, <2>1, PairedForms
  <2> QED
    BY <1>2, <1>3, <2>2 DEF FlagProducers
<1>4. CASE ~IsCollectiveWait(i)
  BY <1>2, <1>4, PairedForms DEF FlagProducers
<1> QED
  BY <1>3, <1>4

-----------------------------------------------------------------------------
(* A rendezvous that is complete has all of its members. *)

\* Programs that reset refuses are never scheduled.
NotRefused == status # "invalid" => ~ResetRejects

\* A sync_all has participants, all of them of its scope.
LEMMA ParticipantsOfScope ==
  ASSUME prog \in Programs, NEW k \in SyncAllTasks
  PROVE  /\ SyncAllTaskParticipants(k) # {}
         /\ SyncAllTaskParticipants(k) \subseteq SyncAllParticipants(SyncAllScope(k))
<1>1. k \in Tasks /\ prog[k] \in Task
  BY ProgramFacts DEF SyncAllTasks
<1>2. prog[k].core \in Cores /\ prog[k].lane \in Lanes
  BY <1>1 DEF Task
<1>3. CASE prog[k].lane = "control"
  <2>1. <<prog[k].core, "cube">> \in SyncAllTaskParticipants(k)
    BY <1>3 DEF SyncAllTaskParticipants, CoreLanes
  <2>2. SyncAllTaskParticipants(k) \subseteq Cores \X CoreLanes
    BY <1>2, <1>3 DEF SyncAllTaskParticipants
  <2>3. SyncAllParticipants(SyncAllScope(k)) = Cores \X CoreLanes
    BY <1>3 DEF SyncAllParticipants, SyncAllScope, VectorLanes
  <2> QED
    BY <2>1, <2>2, <2>3
<1>4. CASE prog[k].lane = "cube"
  BY <1>2, <1>4 DEF SyncAllTaskParticipants, SyncAllParticipants, SyncAllScope, Participant
<1>5. CASE prog[k].lane \in VectorLanes
  <2>1. prog[k].lane # "cube" /\ prog[k].lane # "control"
    BY <1>5 DEF VectorLanes
  <2> QED
    BY <1>2, <1>5, <2>1 DEF SyncAllTaskParticipants, SyncAllParticipants, SyncAllScope, Participant
<1> QED
  BY <1>2, <1>3, <1>4, <1>5 DEF Lanes, CoreLanes

\* reset puts all participants of a sync_all that it accepts in one phase.
LEMMA OnePhase ==
  ASSUME prog \in Programs, ~ResetRejects, NEW k \in SyncAllTasks
  PROVE  \E n : SyncAllPhases(k) = {n}
<1>1. k \in Tasks /\ Tasks = 1 .. Len(prog) /\ Len(prog) \in Nat
  BY ProgramFacts DEF SyncAllTasks
<1>2. SyncAllPhases(k) \subseteq 0 .. Len(prog)
  <2> SUFFICES ASSUME NEW a PROVE SyncAllPhase(k, a) \in 0 .. Len(prog)
    BY DEF SyncAllPhases
  <2> DEFINE S == {j \in SyncAllTasks : j < k /\ a \in SyncAllTaskParticipants(j)}
  <2>1. S \subseteq Tasks
    BY DEF SyncAllTasks
  <2>2. IsFiniteSet(Tasks) /\ Cardinality(Tasks) = Len(prog)
    <3>1. IsFiniteSet(1 .. Len(prog))
      BY <1>1, FS_Interval
    <3>2. Cardinality(1 .. Len(prog)) = IF 1 > Len(prog) THEN 0 ELSE Len(prog) - 1 + 1
      BY <1>1, FS_Interval
    <3> QED
      BY <1>1, <3>1, <3>2
  <2> HIDE DEF S
  <2>3. Cardinality(S) <= Len(prog) /\ Cardinality(S) \in Nat
    BY <2>1, <2>2, FS_Subset, TasksFinite
  <2> QED
    BY <1>1, <2>3 DEF SyncAllPhase, S
<1>3. IsFiniteSet(SyncAllPhases(k))
  <2>1. IsFiniteSet(0 .. Len(prog))
    BY <1>1, FS_Interval
  <2> QED
    BY <1>2, <2>1, FS_Subset
<1>4. Cardinality(SyncAllPhases(k)) \in Nat /\ ~(Cardinality(SyncAllPhases(k)) > 1)
  BY <1>3, FS_CardinalityType DEF ResetRejects
<1>5. SyncAllPhases(k) # {}
  BY ParticipantsOfScope DEF SyncAllPhases
<1>6. Cardinality(SyncAllPhases(k)) = 1
  BY <1>3, <1>4, <1>5, FS_EmptySet
<1> QED
  BY <1>3, <1>6, FS_Singleton, Zenon

\* When the arrivals cover the participants, every member has arrived.
LEMMA RendezvousComplete ==
  ASSUME prog \in Programs, ~ResetRejects, NEW j \in SyncAllTasks, AllArrived(j)
  PROVE  {k \in SyncAllTasks : SyncAllKey(k) = SyncAllKey(j)} = Arrivals(j)
<1>1. ASSUME NEW k \in SyncAllTasks, SyncAllKey(k) = SyncAllKey(j)
      PROVE  k \in done
  <2>1. PICK a \in SyncAllTaskParticipants(k) : a \in SyncAllParticipants(SyncAllScope(k))
    BY ParticipantsOfScope
  <2>2. SyncAllScope(k) = SyncAllScope(j)
    BY <1>1 DEF SyncAllKey
  <2>3. PICK m \in Arrivals(j) : a \in SyncAllTaskParticipants(m)
    BY <2>1, <2>2 DEF AllArrived
  <2>4. m \in SyncAllTasks /\ m \in done /\ SyncAllPhases(m) = SyncAllPhases(k)
    BY <1>1, <2>3 DEF Arrivals, SyncAllKey
  <2>5. SyncAllPhase(m, a) = SyncAllPhase(k, a)
    <3>1. PICK n : SyncAllPhases(k) = {n}
      BY OnePhase, Zenon
    <3> QED
      BY <2>1, <2>3, <2>4, <3>1 DEF SyncAllPhases
  <2> DEFINE S == {x \in SyncAllTasks : a \in SyncAllTaskParticipants(x)}
  <2>6. S \subseteq Tasks /\ m \in S /\ k \in S
    BY <2>1, <2>3, <2>4 DEF SyncAllTasks
  <2>7. \A x : SyncAllPhase(x, a) = Rank(S, x)
    <3> SUFFICES ASSUME NEW x
                 PROVE  {y \in SyncAllTasks : y < x /\ a \in SyncAllTaskParticipants(y)}
                          = {y \in S : y < x}
      BY DEF SyncAllPhase, Rank
    <3> QED
      OBVIOUS
  <2> HIDE DEF S
  <2>8. m = k
    BY <2>5, <2>6, <2>7, RankNames
  <2> QED
    BY <2>4, <2>8
<1> QED
  BY <1>1 DEF Arrivals

-----------------------------------------------------------------------------
(***************************************************************************)
(* The invariant of the refinement: credits are counted and in order, the  *)
(* program was accepted, and a completed task that follows a rendezvous    *)
(* started after all members of it.                                        *)
(***************************************************************************)
RendezvousKept ==
  \A i \in done : \A k \in Rendezvous(i) : k \in done /\ en[k] <= st[i]

PipelineInv == CreditInv /\ NotRefused /\ RendezvousKept

\* A task follows at most one last sync_all.
LEMMA OneRelease ==
  ASSUME prog \in Programs, NEW i, NEW r \in SyncAllRelease(i)
  PROVE  r \in SyncAllTasks /\ \A m \in SyncAllRelease(i) : m = r
<1>1. \A m \in SyncAllTasks : m \in Int
  BY ProgramFacts DEF SyncAllTasks
<1>2. \A m \in SyncAllRelease(i) : m \in SyncAllTasks /\ m <= r /\ r <= m
  BY DEF SyncAllRelease, Last
<1> QED
  BY <1>1, <1>2

\* The members that a rendezvous has are those that have arrived.
LEMMA RendezvousArrived ==
  ASSUME prog \in Programs, ~ResetRejects, NEW i \in Tasks, Schedulable(i)
  PROVE  Rendezvous(i) = UNION {Arrivals(j) : j \in SyncAllRelease(i)}
<1>1. \A j \in SyncAllRelease(i) : j \in SyncAllTasks /\ AllArrived(j)
  BY DEF SyncAllRelease, Last, Schedulable, SyncReady
<1>2. \A j \in SyncAllRelease(i) : {k \in SyncAllTasks : SyncAllKey(k) = SyncAllKey(j)} = Arrivals(j)
  BY <1>1, RendezvousComplete
<1> QED
  BY <1>2 DEF Rendezvous

\* What the code looks at is among what the program puts before the task.
LEMMA LookedAtIsBefore ==
  ASSUME NEW i \in Tasks
  PROVE  /\ Required(i) \subseteq OrderedBefore(i)
         /\ OrderingDependencies(i) \subseteq OrderedBefore(i)
         /\ SyncAllRelease(i) = {} => BarrierDependencies(i) \subseteq OrderedBefore(i)
BY DEF Required, FifoPredecessor, OrderingDependencies, BarrierDependencies, Tails, Last, OrderedBefore

\* A task that is scheduled has what it waits for, and starts when the last of
\* it has ended.
LEMMA ScheduledIsIssuable ==
  ASSUME PipelineInv, SetsQueue, status = "running", NEW i \in Tasks \ done, Schedulable(i),
         NEW s \in StartCycle(i)
  PROVE  Issuable(i) /\ s \in LatestEnd(HappensBefore(i))
<1>1. CreditInv /\ OrderInv /\ TypeInv /\ prog \in Programs /\ ~ResetRejects /\ ~Raised
  BY DEF PipelineInv, CreditInv, OrderInv, TypeInv, NotRefused, Raised
<1>2. \A j \in OrderedBefore(i) : j \in done /\ en[j] <= s
  BY <1>1, PredecessorsEnded
<1>3. s \in Nat /\ \A j \in Required(i) \cup SyncSources(i) : en[j] <= s
  BY <1>1, StartFacts
<1>4. SyncReady(i)
  BY DEF Schedulable
<1>5. /\ HappensBefore(i) \subseteq done
      /\ Matched(i)
      /\ Required(i) \cup SyncSources(i) \subseteq HappensBefore(i)
      /\ HappensBefore(i) \subseteq OrderedBefore(i) \cup SyncSources(i)
  <2>1. CASE SyncAllRelease(i) = {}
    <3>1. FlagsAvailable(i)
      BY <1>4, <2>1 DEF SyncReady
    <3>2. FlagProducers(i) = PairedSets(i) \cup PairedPhases(i)
      BY <1>1, <1>2, <3>1, ProducersPaired
    <3>3. HappensBefore(i) = OrderedBefore(i) \cup FlagProducers(i)
      BY <2>1, <3>2 DEF HappensBefore
    <3>4. SyncSources(i) = OrderingDependencies(i) \cup FlagProducers(i) \cup BarrierDependencies(i)
      BY <2>1 DEF SyncSources
    <3>5. PairedSets(i) \subseteq done
      <4> SUFFICES ASSUME NEW k \in WaitKeys(i),
                          NEW j \in {x \in Sets(k) : Rank(Sets(k), x) = Rank(Waits(k), i)}
                   PROVE  j \in done
        BY PairedForms
      <4>1. tokens[k] # <<>> /\ k \in FlagKeys
        BY <3>1 DEF FlagsAvailable, FlagKeys
      <4>2. j = Head(tokens[k])
        BY <1>1, <1>2, <4>1, HeadIsPaired DEF FlagQueues
      <4>3. tokens[k] \in Seq(Tasks)
        BY <1>1, <4>1 DEF TypeInv, TypeOK, SyncTypeOK
      <4>4. 1 \in 1 .. Len(tokens[k]) /\ Head(tokens[k]) = tokens[k][1]
        BY <4>1, <4>3
      <4> QED
        BY <1>1, <4>1, <4>2, <4>4, Zenon DEF CreditInv, CreditsRanked, FlagsRanked, FlagQueues
    <3>6. ASSUME IsCollectiveWait(i), NEW a \in ReleaseSlots(i)
          PROVE  /\ ready[a][waited[OwnSlot(i)] + 1] \in CollectiveSets(a) \cap done
                 /\ ready[a][waited[OwnSlot(i)] + 1] \in PairedPhases(i)
      <4> DEFINE w == waited[OwnSlot(i)]
      <4>1. a \in CollectiveSlots /\ OwnSlot(i) \in CollectiveSlots
        BY <1>1, <3>6, SlotsTyped
      <4>2. ready[a] \in Seq(Tasks) /\ w \in Nat /\ Len(ready[a]) > w
        BY <1>1, <3>1, <3>6, <4>1 DEF TypeInv, TypeOK, SyncTypeOK, FlagsAvailable
      <4>3. {j \in CollectiveSets(a) :
               Rank(CollectiveSets(a), j) = Rank(CollectiveWaits(OwnSlot(i)), i)} = {ready[a][w + 1]}
        BY <1>1, <1>2, <3>6, <4>2, PhaseIsPaired
      <4>4. \A n \in 1 .. Len(ready[a]) : ready[a][n] \in CollectiveSets(a) \cap done
        BY <1>1, <4>1 DEF CreditInv, CreditsRanked, CollectivesRanked
      <4> HIDE DEF w
      <4>5. ready[a][w + 1] \in CollectiveSets(a) \cap done
        BY <4>2, <4>4
      <4>6. ready[a][w + 1] \in PairedPhases(i)
        BY <3>6, <4>3, PairedForms
      <4> QED
        BY <4>5, <4>6 DEF w
    <3>7. PairedPhases(i) \subseteq done
      <4>1. CASE IsCollectiveWait(i)
        <5>1. \A a \in ReleaseSlots(i) :
                {j \in CollectiveSets(a) : Rank(CollectiveSets(a), j) = Rank(CollectiveWaits(OwnSlot(i)), i)}
                  = {ready[a][waited[OwnSlot(i)] + 1]}
          BY <1>1, <1>2, <3>1, <4>1, PhaseIsPaired, SMTT(20) DEF FlagsAvailable
        <5> QED
          BY <3>6, <4>1, <5>1, PairedForms, SMTT(20)
      <4>2. CASE ~IsCollectiveWait(i)
        BY <4>2, PairedForms
      <4> QED
        BY <4>1, <4>2
    <3>8. ASSUME NEW k \in WaitKeys(i) PROVE \E j \in PairedSets(i) : k \in SetKeys(j)
      <4>1. tokens[k] # <<>>
        BY <3>1 DEF FlagsAvailable
      <4>2. {j \in Sets(k) : Rank(Sets(k), j) = Rank(Waits(k), i)} = {Head(tokens[k])}
        BY <1>1, <1>2, <4>1, HeadIsPaired DEF FlagQueues
      <4>3. Head(tokens[k]) \in Sets(k) /\ Head(tokens[k]) \in PairedSets(i)
        BY <4>2, PairedForms
      <4> QED
        BY <4>3 DEF Sets
    <3>9. ASSUME IsCollectiveWait(i), NEW a \in ReleaseSlots(i)
          PROVE  \E j \in PairedPhases(i) : OwnSlot(j) = a
      BY <3>6, <3>9 DEF CollectiveSets
    <3>10. Matched(i)
      BY <2>1, <3>1, <3>8, <3>9 DEF Matched, FlagsAvailable
    <3>11. HappensBefore(i) \subseteq done
      BY <1>2, <3>2, <3>3, <3>5, <3>7
    <3> QED
      BY <2>1, <3>3, <3>4, <3>10, <3>11, LookedAtIsBefore
  <2>2. CASE SyncAllRelease(i) # {}
    <3>1. Rendezvous(i) = UNION {Arrivals(j) : j \in SyncAllRelease(i)}
      BY <1>1, RendezvousArrived
    <3>2. HappensBefore(i) = OrderedBefore(i) \cup Rendezvous(i)
      BY <2>2 DEF HappensBefore
    <3>3. SyncSources(i) = OrderingDependencies(i) \cup Rendezvous(i)
      BY <2>2, <3>1 DEF SyncSources
    <3>4. Rendezvous(i) \subseteq done
      BY <3>1 DEF Arrivals
    <3>5. ASSUME NEW j \in SyncAllRelease(i)
          PROVE  SyncAllParticipants(SyncAllScope(j))
                   \subseteq UNION {SyncAllTaskParticipants(k) : k \in Rendezvous(i)}
      <4>1. AllArrived(j)
        BY <1>4, <2>2 DEF SyncReady
      <4>2. Arrivals(j) \subseteq Rendezvous(i)
        BY <3>1
      <4> QED
        BY <4>1, <4>2 DEF AllArrived
    <3>6. Matched(i)
      BY <2>2, <3>5 DEF Matched
    <3> QED
      BY <1>2, <3>2, <3>3, <3>4, <3>6, LookedAtIsBefore
  <2> QED
    BY <2>1, <2>2
<1>6. Issuable(i)
  BY <1>5 DEF Issuable
<1>7. \A j \in HappensBefore(i) : en[j] <= s
  BY <1>2, <1>3, <1>5
<1>8. s = 0 \/ \E j \in HappensBefore(i) : s = en[j]
  <2>1. s = 0 \/ \E j \in Required(i) \cup SyncSources(i) : s = en[j]
    BY DEF StartCycle, LatestEnd
  <2> QED
    BY <1>5, <2>1
<1>9. s \in LatestEnd(HappensBefore(i))
  BY <1>3, <1>7, <1>8 DEF LatestEnd
<1> QED
  BY <1>6, <1>9

\* The members of a rendezvous, and what reset refuses, are fixed.
LEMMA RendezvousStatic ==
  ASSUME prog' = prog
  PROVE  (\A i : Rendezvous(i)' = Rendezvous(i)) /\ ResetRejects' = ResetRejects
<1>1. ASSUME NEW i PROVE Rendezvous(i)' = Rendezvous(i)
  BY DEF Rendezvous, SyncAllRelease, Last, SyncAllTasks, SyncAllKey, SyncAllScope, SyncAllPhases,
         SyncAllPhase, SyncAllTaskParticipants, Participant, SameLane, Tasks
<1>2. ResetRejects' = ResetRejects
  BY DEF ResetRejects, CrossSets, CrossModes, CrossTargetKind, LaneKind, SyncAllTasks, SyncAllPhases,
         SyncAllPhase, SyncAllTaskParticipants, Participant, Tasks
<1> QED
  BY <1>1, <1>2, SMTT(20)

\* Every step of the pass loop keeps the invariant.
LEMMA PipelineStep == PipelineInv /\ [Next]_vars => PipelineInv'
<1> SUFFICES ASSUME PipelineInv, [Next]_vars PROVE PipelineInv'
  OBVIOUS
<1>1. CreditInv /\ CreditInv' /\ OrderInv /\ TypeInv
  BY CreditStep DEF PipelineInv, CreditInv, OrderInv
<1>2. prog' = prog
  BY <1>1, StepCases
<1>3. NotRefused'
  <2>1. status # "invalid" \/ status' = "invalid"
    BY DEF Next, Run, Returned, BeginPass, EndPass, Finish, WallTimeout, Blocked, Schedule,
           CycleLimit, Visiting, vars
  <2> QED
    BY <1>2, <2>1, RendezvousStatic DEF PipelineInv, NotRefused
<1>4. ASSUME NEW i \in Tasks, Schedule(i) PROVE RendezvousKept'
  <2>1. i \in Tasks \ done /\ Schedulable(i) /\ status = "running" /\ done' = done \cup {i}
    BY <1>1, <1>4, ScheduleFacts
  <2>2. PICK s \in StartCycle(i) : Complete(i, s)
    BY <1>1, <1>4, ScheduleFacts
  <2>3. st'[i] = s /\ \A k \in done : st'[k] = st[k] /\ en'[k] = en[k]
    BY <1>1, <2>1, <2>2 DEF Complete, TypeInv, TypeOK
  <2>4. Rendezvous(i) = UNION {Arrivals(j) : j \in SyncAllRelease(i)}
    BY <1>1, <2>1, RendezvousArrived DEF PipelineInv, NotRefused, TypeInv
  <2>5. Rendezvous(i) \subseteq done
    BY <2>4 DEF Arrivals
  <2>6. Rendezvous(i) \subseteq SyncSources(i)
    BY <2>4 DEF SyncSources
  <2>7. \A k \in Rendezvous(i) : en[k] <= s
    BY <1>1, <2>1, <2>6, StartFacts
  <2>8. ASSUME NEW x \in done', NEW k \in Rendezvous(x)
        PROVE  k \in done' /\ en'[k] <= st'[x]
    <3>1. CASE x = i
      BY <2>1, <2>3, <2>5, <2>7, <2>8, <3>1
    <3>2. CASE x \in done
      <4>1. k \in done /\ en[k] <= st[x]
        BY <2>8, <3>2 DEF PipelineInv, RendezvousKept
      <4> QED
        BY <2>1, <2>3, <3>2, <4>1
    <3> QED
      BY <2>1, <2>8, <3>1, <3>2
  <2> QED
    BY <1>2, <2>8, RendezvousStatic DEF RendezvousKept
<1>5. ASSUME UNCHANGED <<schedule, syncVars>> PROVE RendezvousKept'
  BY <1>2, <1>5, RendezvousStatic DEF PipelineInv, RendezvousKept, schedule
<1>6. RendezvousKept'
  BY <1>1, <1>4, <1>5, StepCases
<1> QED
  BY <1>1, <1>3, <1>6 DEF PipelineInv

\* reset, and the head of run(), establish it.
LEMMA PipelineInit == Init => PipelineInv
BY CreditInit DEF Init, PipelineInv, NotRefused, RendezvousKept

\* A step of the scheduler is a step of PipelineOrder or leaves the schedule be.
LEMMA StepImplements ==
  PipelineInv /\ [Next]_vars => [SetsQueue => \E i \in Tasks : Issue(i)]_orderVars
<1> SUFFICES ASSUME PipelineInv, [Next]_vars, SetsQueue
             PROVE  (\E i \in Tasks : Issue(i)) \/ UNCHANGED orderVars
  OBVIOUS
<1>1. TypeInv /\ prog' = prog
  BY StepCases DEF PipelineInv, CreditInv, OrderInv
<1>2. ASSUME NEW i \in Tasks, Schedule(i) PROVE Issue(i)
  <2>1. i \in Tasks \ done /\ Schedulable(i) /\ status = "running"
    BY <1>1, <1>2, ScheduleFacts
  <2>2. PICK s \in StartCycle(i) : Complete(i, s)
    BY <1>1, <1>2, ScheduleFacts
  <2>3. Issuable(i) /\ s \in LatestEnd(HappensBefore(i))
    BY <2>1, ScheduledIsIssuable
  <2>4. st'[i] = s
    BY <1>1, <2>2 DEF Complete, TypeInv, TypeOK
  <2> QED
    BY <1>1, <2>2, <2>3, <2>4, Zenon DEF Issue, Complete
<1>3. ASSUME UNCHANGED <<schedule, syncVars>> PROVE UNCHANGED orderVars
  BY <1>1, <1>3 DEF schedule, orderVars
<1> QED
  BY <1>1, <1>2, <1>3, StepCases

\* run() implements PipelineOrder, for every set of programs and every
\* configuration: where the sets of each flag queue, a task is scheduled only
\* when everything that the program puts before it has completed, and starts
\* in the very cycle in which the last of it ends, whatever the passes did.
THEOREM SchedulerImplementsOrder == Spec => OrderSpec
<1>1. Init => OrderInit
  BY DEF Init, OrderInit
<1> QED
  BY <1>1, PipelineInit, PipelineStep, StepImplements, PTL DEF Spec, OrderSpec

-----------------------------------------------------------------------------
(* The first rendezvous separates. *)

\* Members of a first rendezvous have drained their lanes when they start.
LEMMA FirstMemberDrains ==
  ASSUME OrderInv, NEW k \in SyncAllTasks, k \in done, SyncAllPhases(k) = {0},
         NEW j \in Earlier(k), SameLane(j, k)
  PROVE  j \in done /\ en[j] <= st[k]
<1>1. prog \in Programs /\ k \in Tasks
  BY DEF OrderInv, TypeInv, SyncAllTasks
<1>2. SyncAllRelease(k) = {}
  <2> SUFFICES ASSUME NEW m \in SyncAllTasks, m < k, SameLane(k, m)
               PROVE  FALSE
    BY DEF SyncAllRelease, Last
  <2>1. PICK a : a \in SyncAllTaskParticipants(k)
    BY <1>1, ParticipantsOfScope
  <2>2. a \in SyncAllTaskParticipants(m)
    BY <2>1 DEF SyncAllTaskParticipants, Participant, SameLane
  <2> DEFINE S == {x \in SyncAllTasks : x < k /\ a \in SyncAllTaskParticipants(x)}
  <2>3. Cardinality(S) = 0
    BY <2>1, Zenon DEF SyncAllPhases, SyncAllPhase
  <2>4. m \in S /\ S \subseteq Tasks
    BY <2>2 DEF SyncAllTasks
  <2> HIDE DEF S
  <2>5. IsFiniteSet(S)
    BY <1>1, <2>4, TasksFinite
  <2> QED
    BY <2>3, <2>4, <2>5, FS_EmptySet
<1>3. j \in OrderedBefore(k)
  <2>1. j \in DrainedBy(k)
    BY DEF DrainedBy, SyncAllTasks, SameLane
  <2> QED
    BY <1>2, <2>1 DEF OrderedBefore
<1> QED
  BY <1>3 DEF OrderInv, OrderKept

\* A task that follows the first sync_all of its lane starts after the end of
\* everything that any lane of that rendezvous had issued before joining it.
THEOREM RendezvousSeparates == Spec => []FirstRendezvousSeparates
<1>1. PipelineInv => FirstRendezvousSeparates
  <2> SUFFICES ASSUME PipelineInv, NEW i \in done, NEW r \in SyncAllRelease(i),
                      SyncAllPhases(r) = {0}, NEW k \in Rendezvous(i),
                      NEW j \in Earlier(k) \cup {k}, SameLane(j, k)
               PROVE  j \in done /\ en[j] <= st[i]
    BY DEF FirstRendezvousSeparates
  <2>1. OrderInv /\ TypeInv /\ done \subseteq Tasks
    BY DEF PipelineInv, CreditInv, OrderInv, TypeInv, TypeOK
  <2>2. k \in done /\ en[k] <= st[i]
    BY DEF PipelineInv, RendezvousKept
  <2>3. r \in SyncAllTasks /\ \A m \in SyncAllRelease(i) : m = r
    BY <2>1, OneRelease DEF TypeInv
  <2>4. k \in SyncAllTasks /\ SyncAllKey(k) = SyncAllKey(r)
    BY <2>3 DEF Rendezvous
  <2>5. SyncAllPhases(k) = {0}
    BY <2>4 DEF SyncAllKey
  <2>6. CASE j = k
    BY <2>2, <2>6
  <2>7. CASE j \in Earlier(k)
    <3>1. j \in done /\ en[j] <= st[k]
      BY <2>1, <2>2, <2>4, <2>5, <2>7, FirstMemberDrains
    <3>2. st[k] <= en[k]
      BY <2>1, <2>2 DEF OrderInv, EndsAfterStart
    <3>3. en[j] \in Nat /\ st[k] \in Nat /\ en[k] \in Nat /\ st[i] \in Nat
      BY <2>1, <2>2, <3>1 DEF TypeInv, TypeOK
    <3> QED
      BY <2>2, <3>1, <3>2, <3>3, SMTT(20)
  <2> QED
    BY <2>6, <2>7
<1> QED
  BY <1>1, PipelineInit, PipelineStep, PTL DEF Spec

-----------------------------------------------------------------------------
(***************************************************************************)
(* A deadlock is inherent in the program.  Conversely to the above, what   *)
(* PipelineOrder would issue the code would schedule: the paired set has   *)
(* completed, all sets before it have too, and as many waits as there are  *)
(* sets before it have taken a credit, so that its own is still there.     *)
(***************************************************************************)

\* A completed member of a queue is preceded by the completed ones before it.
LEMMA CompletedRank ==
  ASSUME OrderInv, NEW S, S \subseteq Tasks, \A x, y \in S : SameResource(x, y),
         NEW j \in S, j \in done
  PROVE  Rank(S, j) < Cardinality(S \cap done)
<1> DEFINE A == {x \in S : x < j}
           B == S \cap done
<1>1. prog \in Programs /\ Tasks \subseteq Int
  BY ProgramFacts DEF OrderInv, TypeInv
<1>2. ASSUME NEW x \in A PROVE x \in done
  <2>1. x \in OrderedBefore(j)
    BY DEF OrderedBefore, Earlier
  <2> QED
    BY <2>1 DEF OrderInv, OrderKept
<1>3. A \cup {j} \subseteq B /\ j \notin A
  <2>1. A \subseteq B
    BY <1>2
  <2>2. ~(j < j)
    BY <1>1
  <2> QED
    BY <2>1, <2>2
<1>4. IsFiniteSet(A) /\ IsFiniteSet(B) /\ Cardinality(A) \in Nat /\ Cardinality(B) \in Nat
  BY <1>1, TasksFinite, Zenon
<1> HIDE DEF A, B
<1>5. Cardinality(A \cup {j}) = Cardinality(A) + 1
  BY <1>3, <1>4, FS_AddElement, Zenon
<1>6. Cardinality(A \cup {j}) <= Cardinality(B)
  BY <1>3, <1>4, FS_Subset
<1>7. Cardinality(A) < Cardinality(B)
  BY <1>4, <1>5, <1>6
<1> QED
  BY <1>7 DEF Rank, A, B

\* A wait and a set have at most one flag in common.
LEMMA OneFlagInCommon ==
  ASSUME prog \in Programs, NEW i \in Tasks, NEW j \in Tasks,
         NEW k \in WaitKeys(i) \cap SetKeys(j), NEW m \in WaitKeys(i) \cap SetKeys(j)
  PROVE  k = m
<1>1. CASE prog[i].op = "wait_flag"
  BY <1>1 DEF WaitKeys
<1>2. CASE prog[i].op # "wait_flag"
  <2>1. k \in CrossWaitKeys(i) /\ m \in CrossWaitKeys(i)
    BY <1>2 DEF WaitKeys
  <2>2. k[1] = "cross" /\ m[1] = "cross"
    BY <2>1 DEF CrossWaitKeys, CrossKeys
  <2>3. k \in CrossSetKeys(j) /\ m \in CrossSetKeys(j)
    BY <2>2 DEF SetKeys, LocalFlagKey
  <2>4. CASE prog[i].lane # "cube"
    BY <2>1, <2>4 DEF CrossWaitKeys, CrossKeys
  <2>5. CASE prog[i].lane = "cube"
    <3>1. k[3] = "v2c"
      BY <2>1, <2>5 DEF CrossWaitKeys, CrossKeys
    <3>2. prog[j].lane # "cube"
      BY <2>3, <3>1 DEF CrossSetKeys, CrossKeys
    <3> QED
      BY <2>3, <3>2 DEF CrossSetKeys, CrossKeys
  <2> QED
    BY <2>4, <2>5
<1> QED
  BY <1>1, <1>2

\* Without depths, the code admits every task that PipelineOrder may issue.
LEMMA IssuableIsSchedulable ==
  ASSUME CreditInv, SetsQueue, ~Raised, ~FlagBlocking, NEW i \in Tasks, Issuable(i)
  PROVE  Schedulable(i)
<1>1. OrderInv /\ TypeInv /\ prog \in Programs
  BY DEF CreditInv, OrderInv, TypeInv
<1>2. i \notin done /\ Matched(i) /\ HappensBefore(i) \subseteq done /\ OrderedBefore(i) \subseteq done
  BY DEF Issuable, HappensBefore
<1>3. Required(i) \subseteq done /\ OrderingDependencies(i) \subseteq done
  BY <1>2, LookedAtIsBefore
<1>4. CASE SyncAllRelease(i) = {}
  <2>1. FlagDepthFree(i) /\ BarrierDependencies(i) \subseteq done
    BY <1>2, <1>4, LookedAtIsBefore DEF FlagDepthFree
  <2>2. PairedSets(i) \cup PairedPhases(i) \subseteq done
    BY <1>2, <1>4 DEF HappensBefore
  <2>3. ASSUME NEW k \in WaitKeys(i) PROVE tokens[k] # <<>>
    <3>1. PICK j \in PairedSets(i) : k \in SetKeys(j)
      BY <1>2, <1>4 DEF Matched
    <3>2. PICK m \in WaitKeys(i) : j \in Sets(m) /\ Rank(Sets(m), j) = Rank(Waits(m), i)
      BY <3>1, PairedForms
    <3>3. k = m
      BY <1>1, <3>1, <3>2, OneFlagInCommon DEF Sets
    <3>4. Sets(k) \subseteq Tasks /\ Waits(k) \subseteq Tasks /\ i \in Waits(k) /\ j \in Sets(k) /\ k \in FlagKeys
      BY <3>2, <3>3 DEF Sets, Waits, FlagKeys
    <3>5. Rank(Sets(k), j) < Cardinality(Sets(k) \cap done)
      BY <1>1, <2>2, <3>1, <3>4, CompletedRank, SetsOfFlagQueue, SMTT(20) DEF FlagQueues
    <3>6. Cardinality(Waits(k) \cap done) = Rank(Waits(k), i)
      BY <1>1, <1>2, <3>4, QueueFrontier, WaitsOfFlagQueue
    <3>7. Len(tokens[k]) + Cardinality(Waits(k) \cap done) = Cardinality(Sets(k) \cap done)
      BY <3>4, Zenon DEF CreditInv, CreditsCounted, FlagsCounted
    <3>8. tokens[k] \in Seq(Tasks)
      BY <1>1, <3>4 DEF TypeInv, TypeOK, SyncTypeOK
    <3>9. Cardinality(Waits(k) \cap done) \in Nat /\ Cardinality(Sets(k) \cap done) \in Nat
      BY <1>1, <3>4, TasksFinite
    <3>10. Len(tokens[k]) \in Nat /\ Len(tokens[k]) # 0
      BY <3>2, <3>3, <3>5, <3>6, <3>7, <3>8, <3>9
    <3> QED
      BY <3>10, SMTT(20)
  <2>4. ASSUME IsCollectiveWait(i), NEW a \in ReleaseSlots(i)
        PROVE  Len(ready[a]) > waited[OwnSlot(i)]
    <3>1. PICK j \in PairedPhases(i) : OwnSlot(j) = a
      BY <1>2, <1>4, <2>4 DEF Matched
    <3>2. /\ j \in CollectiveSets(a)
          /\ Rank(CollectiveSets(a), j) = Rank(CollectiveWaits(OwnSlot(i)), i)
      <4>1. PICK b \in ReleaseSlots(i) :
              /\ j \in CollectiveSets(b)
              /\ Rank(CollectiveSets(b), j) = Rank(CollectiveWaits(OwnSlot(i)), i)
        BY <2>4, <3>1, PairedForms
      <4>2. b = a
        BY <3>1, <4>1 DEF CollectiveSets
      <4> QED
        BY <4>1, <4>2
    <3>3. CollectiveSets(a) \subseteq Tasks
      BY DEF CollectiveSets
    <3>4. CollectiveWaits(OwnSlot(i)) \subseteq Tasks /\ i \in CollectiveWaits(OwnSlot(i))
      BY <2>4 DEF CollectiveWaits
    <3>5. a \in CollectiveSlots /\ OwnSlot(i) \in CollectiveSlots
      BY <1>1, <2>4, SlotsTyped
    <3>6. Rank(CollectiveSets(a), j) < Cardinality(CollectiveSets(a) \cap done)
      BY <1>1, <2>2, <3>1, <3>2, <3>3, CompletedRank, CollectivesQueue, SMTT(20)
    <3>7. Cardinality(CollectiveWaits(OwnSlot(i)) \cap done) = Rank(CollectiveWaits(OwnSlot(i)), i)
      BY <1>1, <1>2, <3>4, QueueFrontier, CollectivesQueue
    <3>8. /\ Len(ready[a]) = Cardinality(CollectiveSets(a) \cap done)
          /\ waited[OwnSlot(i)] = Cardinality(CollectiveWaits(OwnSlot(i)) \cap done)
      BY <3>5, Zenon DEF CreditInv, CreditsCounted, CollectivesCounted
    <3>9. /\ Cardinality(CollectiveWaits(OwnSlot(i)) \cap done) \in Nat
          /\ Cardinality(CollectiveSets(a) \cap done) \in Nat
      BY <1>1, <3>3, <3>4, TasksFinite
    <3> QED
      BY <3>2, <3>6, <3>7, <3>8, <3>9, SMTT(20)
  <2>5. FlagsAvailable(i)
    BY <1>2, <1>4, <2>3, <2>4 DEF FlagsAvailable, Matched
  <2> QED
    BY <1>3, <1>4, <2>1, <2>5 DEF Schedulable, SyncReady
<1>5. CASE SyncAllRelease(i) # {}
  <2>1. ASSUME NEW j \in SyncAllRelease(i) PROVE AllArrived(j)
    <3>1. Rendezvous(i) \subseteq done
      BY <1>2, <1>5 DEF HappensBefore
    <3>2. \A m \in SyncAllRelease(i) : m = j
      BY <1>1, OneRelease
    <3>3. Rendezvous(i) \subseteq Arrivals(j)
      BY <3>1, <3>2, SMTT(20) DEF Rendezvous, Arrivals
    <3>4. SyncAllParticipants(SyncAllScope(j))
            \subseteq UNION {SyncAllTaskParticipants(k) : k \in Rendezvous(i)}
      BY <1>2, <1>5, Zenon DEF Matched
    <3> QED
      BY <3>3, <3>4 DEF AllArrived
  <2> QED
    BY <1>3, <1>5, <2>1 DEF Schedulable, SyncReady
<1> QED
  BY <1>4, <1>5

\* A deadlock that run() reports is a fact about the program: without flag
\* depths, and where the sets of each flag queue, no pending task has all that
\* the program puts before it, whatever order the passes took the tasks in.
THEOREM DeadlockInherent == Spec => []DeadlockIsInherent
<1>1. CreditInv /\ DeadlockIsGlobal => DeadlockIsInherent
  <2> SUFFICES ASSUME CreditInv, DeadlockIsGlobal, ~FlagBlocking, SetsQueue, status = "deadlock",
                      NEW i \in Pending, Issuable(i)
               PROVE  FALSE
    BY DEF DeadlockIsInherent, DeadlockIsGlobal
  <2>1. ~Raised /\ i \in Tasks
    BY DEF Raised, Pending
  <2> QED
    BY <2>1, IssuableIsSchedulable DEF DeadlockIsGlobal
<1> QED
  BY <1>1, CreditInit, CreditStep, DeadlockGlobal, PTL DEF Spec

=============================================================================
