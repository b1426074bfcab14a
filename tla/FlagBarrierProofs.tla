------------------------- MODULE FlagBarrierProofs -------------------------
(***************************************************************************)
(* Proofs about the credits of FlagBarrierSynchronizationModel: that they  *)
(* count the sets and waits completed so far, so that audit_flag_balance   *)
(* is exact; and that they are consumed in the order of the program.       *)
(***************************************************************************)
EXTENDS EventSchedulerProofs, FiniteSetTheorems

-----------------------------------------------------------------------------
(* Counting tasks. *)

\* A program has finitely many tasks.
LEMMA TasksFinite ==
  ASSUME prog \in Programs, NEW S, S \subseteq Tasks
  PROVE  IsFiniteSet(S) /\ Cardinality(S) \in Nat
<1>1. Tasks = 1 .. Len(prog) /\ Len(prog) \in Nat
  BY ProgramFacts
<1>2. IsFiniteSet(Tasks)
  BY <1>1, FS_Interval
<1>3. IsFiniteSet(S)
  BY <1>2, FS_Subset
<1> QED
  BY <1>3, FS_CardinalityType

\* Completing a task adds it to the count of those sets that it belongs to.
LEMMA CountCompleted ==
  ASSUME prog \in Programs, NEW S, S \subseteq Tasks, NEW D, NEW i, i \notin D
  PROVE  Cardinality(S \cap (D \cup {i})) =
           IF i \in S THEN Cardinality(S \cap D) + 1 ELSE Cardinality(S \cap D)
<1>1. IsFiniteSet(S \cap D)
  BY TasksFinite
<1>2. CASE i \in S
  <2>1. S \cap (D \cup {i}) = (S \cap D) \cup {i} /\ i \notin S \cap D
    BY <1>2
  <2> QED
    BY <1>1, <1>2, <2>1, FS_AddElement, Zenon
<1>3. CASE i \notin S
  <2>1. S \cap (D \cup {i}) = S \cap D
    BY <1>3
  <2> QED
    BY <1>3, <2>1
<1> QED
  BY <1>2, <1>3

\* Later members of a set have a higher rank in it.
LEMMA RankGrows ==
  ASSUME prog \in Programs, NEW S, S \subseteq Tasks, NEW i \in S, NEW j \in Tasks, i < j
  PROVE  Rank(S, i) < Rank(S, j)
<1> DEFINE A == {x \in S : x < i}
           B == {x \in S : x < j}
<1>1. Tasks \subseteq Int
  BY ProgramFacts
<1>2. A \cup {i} \subseteq B /\ i \notin A
  <2>1. i \in B
    OBVIOUS
  <2>2. ASSUME NEW x \in A PROVE x \in B
    <3>1. x \in S /\ x < i /\ x \in Int /\ i \in Int /\ j \in Int
      BY <1>1
    <3> QED
      BY <3>1
  <2>3. i \notin A
    BY <1>1
  <2> QED
    BY <2>1, <2>2, <2>3
<1>3. IsFiniteSet(A) /\ IsFiniteSet(B) /\ Cardinality(A) \in Nat /\ Cardinality(B) \in Nat
  BY TasksFinite
<1> HIDE DEF A, B
<1>4. Cardinality(A \cup {i}) = Cardinality(A) + 1
  BY <1>2, <1>3, FS_AddElement, Zenon
<1>5. Cardinality(A \cup {i}) <= Cardinality(B)
  BY <1>2, <1>3, FS_Subset
<1>6. Cardinality(A) < Cardinality(B)
  BY <1>3, <1>4, <1>5
<1> QED
  BY <1>6 DEF Rank, A, B

\* The rank of a task in a set that it belongs to names it.
LEMMA RankNames ==
  ASSUME prog \in Programs, NEW S, S \subseteq Tasks, NEW i \in S, NEW j \in S,
         Rank(S, i) = Rank(S, j)
  PROVE  i = j
<1>1. i \in Int /\ j \in Int /\ Rank(S, i) \in Nat
  BY ProgramFacts, TasksFinite DEF Rank
<1>2. (i < j => Rank(S, i) < Rank(S, j)) /\ (j < i => Rank(S, j) < Rank(S, i))
  BY RankGrows
<1> QED
  BY <1>1, <1>2

-----------------------------------------------------------------------------
(***************************************************************************)
(* The credits count what was set and waited for.  on_scheduled adds one   *)
(* per completed set and takes one per completed wait, unless it raises.   *)
(***************************************************************************)
CollectiveSets(a) == {j \in Tasks : IsCollectiveSet(j) /\ OwnSlot(j) = a}
CollectiveWaits(a) == {j \in Tasks : IsCollectiveWait(j) /\ OwnSlot(j) = a}

Raised == status \in {"overflow", "missing"}

FlagsCounted ==
  \A k \in FlagKeys :
    Len(tokens[k]) + Cardinality(Waits(k) \cap done) = Cardinality(Sets(k) \cap done)

CollectivesCounted ==
  \A a \in CollectiveSlots :
    /\ Len(ready[a]) = Cardinality(CollectiveSets(a) \cap done)
    /\ waited[a] = Cardinality(CollectiveWaits(a) \cap done)

CreditsCounted == ~Raised => FlagsCounted /\ CollectivesCounted

\* The sets and waits of a flag are fixed by the program.
LEMMA SetsStatic ==
  ASSUME prog' = prog, NEW k
  PROVE  /\ Sets(k)' = Sets(k) /\ Waits(k)' = Waits(k)
         /\ CollectiveSets(k)' = CollectiveSets(k) /\ CollectiveWaits(k)' = CollectiveWaits(k)
<1>1. Sets(k)' = Sets(k)
  BY DEF Sets, SetKeys, LocalFlagKey, CrossSetKeys, CrossKeys, Tasks
<1>2. Waits(k)' = Waits(k)
  BY DEF Waits, WaitKeys, LocalFlagKey, CrossWaitKeys, CrossKeys, CrossWaitMode, CrossModes,
         CrossSets, CrossTargetKind, LaneKind, Tasks
<1>3. CollectiveSets(k)' = CollectiveSets(k)
  BY DEF CollectiveSets, IsCollectiveSet, OwnSlot, CollectiveKey, CollectiveMode, CrossWaitMode,
         CrossModes, CrossSets, CrossTargetKind, LaneKind, Participant, Tasks
<1>4. CollectiveWaits(k)' = CollectiveWaits(k)
  BY DEF CollectiveWaits, IsCollectiveWait, OwnSlot, CollectiveKey, CollectiveMode, CrossWaitMode,
         CrossModes, CrossSets, CrossTargetKind, LaneKind, Participant, Tasks
<1> QED
  BY <1>1, <1>2, <1>3, <1>4

\* No task both sets and waits for flags.
LEMMA SetsAreNotWaits ==
  ASSUME NEW i, NEW k
  PROVE  /\ ~(k \in SetKeys(i) /\ k \in WaitKeys(i))
         /\ ~(IsCollectiveSet(i) /\ IsCollectiveWait(i))
BY DEF SetKeys, WaitKeys, IsCollectiveSet, IsCollectiveWait

\* on_scheduled keeps the counts of what is completed.
LEMMA CountedStep ==
  ASSUME TypeInv, FlagsCounted, CollectivesCounted, NEW i \in Tasks \ done,
         OnScheduled(i), ~WaitMissing(i), prog' = prog, done' = done \cup {i}
  PROVE  FlagsCounted' /\ CollectivesCounted'
<1>1. FlagKeys' = FlagKeys /\ CollectiveSlots' = CollectiveSlots
  BY FlagKeysStatic, CollectiveSlotsStatic
<1>2. prog \in Programs /\ tokens \in [FlagKeys -> Seq(Tasks)]
      /\ ready \in [CollectiveSlots -> Seq(Tasks)] /\ waited \in [CollectiveSlots -> Nat]
  BY DEF TypeInv, TypeOK, SyncTypeOK
<1>3. ASSUME NEW k \in FlagKeys
      PROVE  Len(tokens'[k]) + Cardinality(Waits(k) \cap done') = Cardinality(Sets(k) \cap done')
  <2>1. tokens[k] \in Seq(Tasks) /\ Len(tokens[k]) \in Nat
    BY <1>2
  <2>2. tokens'[k] = IF k \in SetKeys(i) THEN Append(tokens[k], i)
                     ELSE IF k \in WaitKeys(i) THEN Tail(tokens[k]) ELSE tokens[k]
    BY <1>2 DEF OnScheduled
  <2>3. i \in Sets(k) <=> k \in SetKeys(i)
    BY DEF Sets
  <2>4. i \in Waits(k) <=> k \in WaitKeys(i)
    BY DEF Waits
  <2>5. Cardinality(Sets(k) \cap done') =
          IF k \in SetKeys(i) THEN Cardinality(Sets(k) \cap done) + 1 ELSE Cardinality(Sets(k) \cap done)
    BY <1>2, <2>3, CountCompleted, Zenon DEF Sets
  <2>6. Cardinality(Waits(k) \cap done') =
          IF k \in WaitKeys(i) THEN Cardinality(Waits(k) \cap done) + 1 ELSE Cardinality(Waits(k) \cap done)
    BY <1>2, <2>4, CountCompleted, Zenon DEF Waits
  <2>7. Cardinality(Sets(k) \cap done) \in Nat /\ Cardinality(Waits(k) \cap done) \in Nat
    BY <1>2, TasksFinite DEF Sets, Waits
  <2>8. Len(tokens[k]) + Cardinality(Waits(k) \cap done) = Cardinality(Sets(k) \cap done)
    BY Zenon DEF FlagsCounted
  <2>9. CASE k \in SetKeys(i)
    <3>1. k \notin WaitKeys(i)
      BY <2>9, SetsAreNotWaits
    <3>2. Len(tokens'[k]) = Len(tokens[k]) + 1
      BY <2>1, <2>2, <2>9
    <3> QED
      BY <2>1, <2>5, <2>6, <2>7, <2>8, <2>9, <3>1, <3>2
  <2>10. CASE k \in WaitKeys(i)
    <3>1. k \notin SetKeys(i) /\ tokens[k] # <<>>
      BY <2>10, SetsAreNotWaits DEF WaitMissing
    <3>2. Len(tokens'[k]) = Len(tokens[k]) - 1
      BY <2>1, <2>2, <2>10, <3>1
    <3> QED
      BY <2>1, <2>5, <2>6, <2>7, <2>8, <2>10, <3>1, <3>2
  <2>11. CASE k \notin SetKeys(i) /\ k \notin WaitKeys(i)
    BY <2>2, <2>5, <2>6, <2>8, <2>11
  <2> QED
    BY <2>9, <2>10, <2>11
<1>4. ASSUME NEW a \in CollectiveSlots
      PROVE  /\ Len(ready'[a]) = Cardinality(CollectiveSets(a) \cap done')
             /\ waited'[a] = Cardinality(CollectiveWaits(a) \cap done')
  <2>1. ready[a] \in Seq(Tasks) /\ waited[a] \in Nat
    BY <1>2
  <2>2. /\ ready'[a] = IF IsCollectiveSet(i) /\ a = OwnSlot(i) THEN Append(ready[a], i) ELSE ready[a]
        /\ waited'[a] = IF IsCollectiveWait(i) /\ a = OwnSlot(i) THEN waited[a] + 1 ELSE waited[a]
    BY <1>2 DEF OnScheduled
  <2>3. i \in CollectiveSets(a) <=> (IsCollectiveSet(i) /\ a = OwnSlot(i))
    BY DEF CollectiveSets
  <2>4. i \in CollectiveWaits(a) <=> (IsCollectiveWait(i) /\ a = OwnSlot(i))
    BY DEF CollectiveWaits
  <2>5. Cardinality(CollectiveSets(a) \cap done') =
          IF i \in CollectiveSets(a) THEN Cardinality(CollectiveSets(a) \cap done) + 1
                                     ELSE Cardinality(CollectiveSets(a) \cap done)
    BY <1>2, CountCompleted, Zenon DEF CollectiveSets
  <2>6. Cardinality(CollectiveWaits(a) \cap done') =
          IF i \in CollectiveWaits(a) THEN Cardinality(CollectiveWaits(a) \cap done) + 1
                                      ELSE Cardinality(CollectiveWaits(a) \cap done)
    BY <1>2, CountCompleted, Zenon DEF CollectiveWaits
  <2>7. /\ Len(ready[a]) = Cardinality(CollectiveSets(a) \cap done)
        /\ waited[a] = Cardinality(CollectiveWaits(a) \cap done)
    BY Zenon DEF CollectivesCounted
  <2>8. Len(ready'[a]) = IF i \in CollectiveSets(a) THEN Len(ready[a]) + 1 ELSE Len(ready[a])
    BY <2>1, <2>2, <2>3
  <2> QED
    BY <2>2, <2>4, <2>5, <2>6, <2>7, <2>8
<1>5. FlagsCounted'
  BY <1>1, <1>3, SetsStatic, Zenon DEF FlagsCounted
<1>6. CollectivesCounted'
  BY <1>1, <1>4, SetsStatic, Zenon DEF CollectivesCounted
<1> QED
  BY <1>5, <1>6


\* Only on_scheduled touches credits, and only with the task it completes.
LEMMA StepCases ==
  ASSUME TypeInv, [Next]_vars
  PROVE  /\ prog' = prog
         /\ \/ \E i \in Tasks : Schedule(i)
            \/ UNCHANGED <<schedule, syncVars>>
BY DEF Next, Run, Returned, BeginPass, EndPass, Finish, WallTimeout, Blocked, Schedule,
       CycleLimit, vars, schedule, syncVars

\* A task is scheduled once, while run() is running.
LEMMA ScheduleFacts ==
  ASSUME TypeInv, NEW i \in Tasks, Schedule(i)
  PROVE  /\ i \in Tasks \ done /\ Schedulable(i) /\ status = "running"
         /\ done' = done \cup {i}
         /\ \E s \in StartCycle(i) : Complete(i, s)
         /\ \/ Raised' /\ UNCHANGED syncVars
            \/ OnScheduled(i) /\ ~SetOverflows(i) /\ ~WaitMissing(i) /\ status' = "running"
BY Zenon DEF Schedule, Visiting, Pending, Complete, Raised, syncVars

\* Credits stay counted.
LEMMA CountedNext ==
  ASSUME TypeInv, CreditsCounted, [Next]_vars
  PROVE  CreditsCounted'
<1>1. ASSUME NEW i \in Tasks, Schedule(i) PROVE CreditsCounted'
  <2>1. FlagsCounted /\ CollectivesCounted
    BY <1>1, ScheduleFacts DEF CreditsCounted, Raised
  <2>2. prog' = prog
    BY StepCases
  <2>3. CASE Raised'
    BY <2>3 DEF CreditsCounted
  <2>4. CASE OnScheduled(i) /\ ~WaitMissing(i)
    BY <1>1, <2>1, <2>2, <2>4, ScheduleFacts, CountedStep DEF CreditsCounted
  <2> QED
    BY <1>1, <2>3, <2>4, ScheduleFacts
<1>2. ASSUME UNCHANGED <<schedule, syncVars>>, prog' = prog PROVE CreditsCounted'
  <2>1. FlagKeys' = FlagKeys /\ CollectiveSlots' = CollectiveSlots
    BY <1>2, FlagKeysStatic, CollectiveSlotsStatic
  <2>2. done' = done /\ tokens' = tokens /\ ready' = ready /\ waited' = waited
    BY <1>2 DEF schedule, syncVars
  <2>3. FlagsCounted => FlagsCounted'
    BY <1>2, <2>1, <2>2, SetsStatic, Zenon DEF FlagsCounted
  <2>4. CollectivesCounted => CollectivesCounted'
    BY <1>2, <2>1, <2>2, SetsStatic, Zenon DEF CollectivesCounted
  <2>5. Raised => Raised'
    BY DEF Raised, Next, Run, Returned, BeginPass, EndPass, Finish, WallTimeout, Blocked,
           Schedule, CycleLimit, Visiting, vars
  <2> QED
    BY <2>3, <2>4, <2>5 DEF CreditsCounted
<1> QED
  BY <1>1, <1>2, StepCases

-----------------------------------------------------------------------------
(* The audit. *)

\* When every task has completed, a flag has credits left if and only if it is
\* set more often than it is waited for.
LEMMA ResidualExact ==
  ASSUME TypeInv, FlagsCounted, CollectivesCounted, done = Tasks
  PROVE  Residual <=> Unbalanced
<1>1. prog \in Programs /\ tokens \in [FlagKeys -> Seq(Tasks)]
  BY DEF TypeInv, TypeOK, SyncTypeOK
<1>2. ASSUME NEW k \in FlagKeys
      PROVE  tokens[k] # <<>> <=> Cardinality(Sets(k)) # Cardinality(Waits(k))
  <2>1. tokens[k] \in Seq(Tasks)
    BY <1>1
  <2>2. Sets(k) \cap done = Sets(k) /\ Waits(k) \cap done = Waits(k)
    BY DEF Sets, Waits
  <2>3. Cardinality(Sets(k)) \in Nat /\ Cardinality(Waits(k)) \in Nat
    BY <1>1, TasksFinite DEF Sets, Waits
  <2>4. Len(tokens[k]) + Cardinality(Waits(k)) = Cardinality(Sets(k))
    BY <2>2 DEF FlagsCounted
  <2>5. tokens[k] # <<>> <=> Len(tokens[k]) # 0
    BY <2>1
  <2> QED
    BY <2>1, <2>3, <2>4, <2>5
<1>3. ASSUME NEW i \in Tasks, IsCollectiveWait(i)
      PROVE  Len(ready[OwnSlot(i)]) # waited[OwnSlot(i)]
               <=> Cardinality(CollectiveWaits(OwnSlot(i))) # Cardinality(CollectiveSets(OwnSlot(i)))
  <2>1. OwnSlot(i) \in CollectiveSlots
    BY <1>1, <1>3, SlotsTyped
  <2>2. CollectiveSets(OwnSlot(i)) \cap done = CollectiveSets(OwnSlot(i))
        /\ CollectiveWaits(OwnSlot(i)) \cap done = CollectiveWaits(OwnSlot(i))
    BY DEF CollectiveSets, CollectiveWaits
  <2> QED
    BY <2>1, <2>2 DEF CollectivesCounted
<1>4. ASSUME NEW i \in SyncAllTasks
      PROVE  AllArrived(i) <=>
               SyncAllParticipants(SyncAllScope(i)) \subseteq
                 UNION {SyncAllTaskParticipants(j) : j \in {k \in SyncAllTasks : SyncAllKey(k) = SyncAllKey(i)}}
  <2>1. Arrivals(i) = {k \in SyncAllTasks : SyncAllKey(k) = SyncAllKey(i)}
    BY DEF Arrivals, SyncAllTasks
  <2> QED
    BY <2>1 DEF AllArrived
<1>5. \A i \in Tasks : prog[i].op = "set_flag" => LocalFlagKey(i) \in FlagKeys
  BY DEF FlagKeys, SetKeys
<1>6. \A i \in Tasks : \A k \in WaitKeys(i) : k \in FlagKeys /\ Waits(k) # {}
  BY DEF FlagKeys, Waits
<1>7. ASSUME NEW k \in FlagKeys
      PROVE  k[1] = "local" \/ Waits(k) # {} <=>
               \/ \E i \in Tasks : prog[i].op = "set_flag" /\ k = LocalFlagKey(i)
               \/ \E i \in Tasks : k \in WaitKeys(i)
  <2>1. (\E i \in Tasks : k \in WaitKeys(i)) <=> Waits(k) # {}
    BY DEF Waits
  <2>2. \A i : LocalFlagKey(i)[1] = "local"
    BY DEF LocalFlagKey
  <2>3. ASSUME NEW i \in Tasks, k \in SetKeys(i), prog[i].op # "set_flag"
        PROVE  k[1] = "cross"
    BY <2>3 DEF SetKeys, CrossSetKeys, CrossKeys
  <2>4. PICK i \in Tasks : k \in SetKeys(i) \cup WaitKeys(i)
    BY DEF FlagKeys
  <2>5. k[1] = "local" /\ k \in SetKeys(i) => prog[i].op = "set_flag" /\ k = LocalFlagKey(i)
    BY <2>3, <2>4 DEF SetKeys
  <2> QED
    BY <2>1, <2>2, <2>4, <2>5
<1>8. (\E k \in FlagKeys : /\ k[1] = "local" \/ Waits(k) # {}
                           /\ Cardinality(Sets(k)) # Cardinality(Waits(k)))
        <=> \/ \E i \in Tasks : prog[i].op = "set_flag" /\ tokens[LocalFlagKey(i)] # <<>>
            \/ \E i \in Tasks : \E k \in WaitKeys(i) : tokens[k] # <<>>
  BY <1>2, <1>5, <1>6, <1>7, Zenon
<1>9. (\E i \in Tasks : IsCollectiveWait(i) /\ Len(ready[OwnSlot(i)]) # waited[OwnSlot(i)])
        <=> \E i \in Tasks :
              /\ IsCollectiveWait(i)
              /\ Cardinality({j \in Tasks : IsCollectiveWait(j) /\ OwnSlot(j) = OwnSlot(i)})
                 # Cardinality({j \in Tasks : IsCollectiveSet(j) /\ OwnSlot(j) = OwnSlot(i)})
  BY <1>3, Zenon DEF CollectiveSets, CollectiveWaits
<1> QED
  BY <1>4, <1>8, <1>9, Zenon DEF Residual, Unbalanced

\* Whether a program is balanced is a fact about the program.
LEMMA UnbalancedStatic == prog' = prog => Unbalanced' = Unbalanced
<1> SUFFICES ASSUME prog' = prog PROVE Unbalanced' = Unbalanced
  OBVIOUS
<1>1. Tasks' = Tasks /\ CrossSets' = CrossSets /\ SyncAllTasks' = SyncAllTasks
  BY DEF Tasks, CrossSets, SyncAllTasks
<1>2. ASSUME NEW i
      PROVE  /\ LaneKind(i)' = LaneKind(i) /\ CrossTargetKind(i)' = CrossTargetKind(i)
             /\ Participant(i)' = Participant(i) /\ LocalFlagKey(i)' = LocalFlagKey(i)
             /\ SyncAllScope(i)' = SyncAllScope(i)
  BY DEF LaneKind, CrossTargetKind, Participant, LocalFlagKey, SyncAllScope
<1>3. ASSUME NEW f, NEW kind, NEW c PROVE CrossModes(f, kind, c)' = CrossModes(f, kind, c)
  BY <1>1, <1>2 DEF CrossModes
<1>4. ASSUME NEW i PROVE CrossWaitMode(i)' = CrossWaitMode(i)
  BY <1>2, <1>3 DEF CrossWaitMode
<1>5. ASSUME NEW i PROVE SetKeys(i)' = SetKeys(i) /\ WaitKeys(i)' = WaitKeys(i)
  BY <1>2, <1>4 DEF SetKeys, WaitKeys, CrossSetKeys, CrossWaitKeys, CrossKeys
<1>6. FlagKeys' = FlagKeys
  BY <1>1, <1>5 DEF FlagKeys
<1>7. ASSUME NEW k PROVE Sets(k)' = Sets(k) /\ Waits(k)' = Waits(k)
  BY <1>1, <1>5 DEF Sets, Waits
<1>8. ASSUME NEW i
      PROVE  /\ IsCollectiveSet(i)' <=> IsCollectiveSet(i)
             /\ IsCollectiveWait(i)' <=> IsCollectiveWait(i)
             /\ OwnSlot(i)' = OwnSlot(i)
  BY <1>2, <1>4 DEF IsCollectiveSet, IsCollectiveWait, OwnSlot, CollectiveKey, CollectiveMode
<1>9. ASSUME NEW i PROVE SyncAllTaskParticipants(i)' = SyncAllTaskParticipants(i)
  BY <1>2 DEF SyncAllTaskParticipants
<1>10. ASSUME NEW i PROVE SyncAllKey(i)' = SyncAllKey(i)
  BY <1>1, <1>2, <1>9 DEF SyncAllKey, SyncAllPhases, SyncAllPhase
<1>11. ASSUME NEW scope PROVE SyncAllParticipants(scope)' = SyncAllParticipants(scope)
  BY DEF SyncAllParticipants
<1>12. (\E k \in FlagKeys : /\ k[1] = "local" \/ Waits(k) # {}
                           /\ Cardinality(Sets(k)) # Cardinality(Waits(k)))'
       <=> \E k \in FlagKeys : /\ k[1] = "local" \/ Waits(k) # {}
                               /\ Cardinality(Sets(k)) # Cardinality(Waits(k))
  BY <1>6, <1>7
<1>13. ASSUME NEW i
       PROVE  /\ {j \in Tasks : IsCollectiveWait(j) /\ OwnSlot(j) = OwnSlot(i)}'
                 = {j \in Tasks : IsCollectiveWait(j) /\ OwnSlot(j) = OwnSlot(i)}
              /\ {j \in Tasks : IsCollectiveSet(j) /\ OwnSlot(j) = OwnSlot(i)}'
                 = {j \in Tasks : IsCollectiveSet(j) /\ OwnSlot(j) = OwnSlot(i)}
  BY <1>1, <1>8
<1>14. ASSUME NEW i
       PROVE  (UNION {SyncAllTaskParticipants(j) : j \in {k \in SyncAllTasks : SyncAllKey(k) = SyncAllKey(i)}})'
              = UNION {SyncAllTaskParticipants(j) : j \in {k \in SyncAllTasks : SyncAllKey(k) = SyncAllKey(i)}}
  BY <1>1, <1>9, <1>10
<1> QED
  BY <1>1, <1>2, <1>8, <1>11, <1>12, <1>13, <1>14 DEF Unbalanced

AuditInv == TypeInv /\ CreditsCounted /\ AuditIsExact

\* Every step keeps the audit exact.
LEMMA AuditStep == AuditInv /\ [Next]_vars => AuditInv'
<1> SUFFICES ASSUME AuditInv, [Next]_vars PROVE AuditInv'
  OBVIOUS
<1>1. TypeInv /\ TypeInv' /\ CreditsCounted /\ CreditsCounted' /\ prog' = prog
  BY TypeStep, CountedNext, StepCases DEF AuditInv
<1>2. Unbalanced' = Unbalanced
  BY <1>1, UnbalancedStatic
<1>3. CASE Finish
  <2>1. FlagsCounted /\ CollectivesCounted /\ done = Tasks
    BY <1>1, <1>3, Zenon DEF Finish, CreditsCounted, Raised, Pending, TypeInv, TypeOK
  <2>2. Residual <=> Unbalanced
    BY <1>1, <2>1, ResidualExact
  <2>3. status' = IF FlagBalanceCheck = "error" /\ Residual THEN "unbalanced" ELSE "done"
    BY <1>3 DEF Finish
  <2> QED
    BY <1>1, <1>2, <2>2, <2>3 DEF AuditInv, AuditIsExact
<1>4. CASE status' \notin {"unbalanced", "done"}
  BY <1>1, <1>4 DEF AuditInv, AuditIsExact
<1>5. CASE status' = status
  BY <1>1, <1>2, <1>5 DEF AuditInv, AuditIsExact
<1>6. Finish \/ status' \notin {"unbalanced", "done"} \/ status' = status
  BY DEF Next, Run, Returned, BeginPass, EndPass, WallTimeout, Blocked, Schedule, CycleLimit, vars
<1> QED
  BY <1>3, <1>4, <1>5, <1>6

\* For every program and configuration: audit_flag_balance refuses a completed
\* run if and only if the program's sets and waits do not balance.
THEOREM AuditExact == Spec => []AuditIsExact
<1>1. Init => AuditInv
  <2> SUFFICES ASSUME Init PROVE AuditInv
    OBVIOUS
  <2>1. TypeInv /\ prog \in Programs /\ done = {} /\ status \in {"running", "invalid"}
    BY TypeInit DEF Init
  <2>2. FlagsCounted /\ CollectivesCounted
    <3>1. \A S : S \cap done = {}
      BY <2>1
    <3> QED
      BY <3>1, FS_EmptySet DEF Init, SyncInit, FlagsCounted, CollectivesCounted
  <2> QED
    BY <2>1, <2>2 DEF AuditInv, CreditsCounted, AuditIsExact
<1>2. AuditInv => AuditIsExact
  BY DEF AuditInv
<1> QED
  BY <1>1, <1>2, AuditStep, PTL DEF Spec

-----------------------------------------------------------------------------
(***************************************************************************)
(* Credits are in program order.  The sets of a flag are queued on one     *)
(* pipe, and so are its waits, hence both complete in order, and the n-th  *)
(* outstanding credit is that of the set whose rank is n - 1 more than the *)
(* number of completed waits.  Local flags need no assumption for this;    *)
(* cross flags and collective phases need that the sets of a lane queue.   *)
(***************************************************************************)
FlagQueues(k) == k[1] = "local" \/ SetsQueue

FlagsRanked ==
  \A k \in FlagKeys : FlagQueues(k) => \A n \in 1 .. Len(tokens[k]) :
    /\ tokens[k][n] \in Sets(k) \cap done
    /\ Rank(Sets(k), tokens[k][n]) = Cardinality(Waits(k) \cap done) + n - 1

CollectivesRanked ==
  \A a \in CollectiveSlots : \A n \in 1 .. Len(ready[a]) :
    /\ ready[a][n] \in CollectiveSets(a) \cap done
    /\ Rank(CollectiveSets(a), ready[a][n]) = n - 1

CreditsRanked == ~Raised => FlagsRanked /\ (SetsQueue => CollectivesRanked)

\* What a local flag marker looks like.
LEMMA LocalMarker ==
  ASSUME prog \in Programs, NEW i \in Tasks, prog[i].op \in {"set_flag", "wait_flag"}
  PROVE  prog[i].pipe = IF prog[i].op = "set_flag" THEN prog[i].src ELSE prog[i].dst
<1>1. prog[i] \in Task /\ ValidTask(prog[i]) /\ prog[i].pipe = SyncTaskPipe(prog[i])
  BY ProgramFacts
<1>2. prog[i].lane # "control"
  <2>1. PipesOf["control"] = {"s"}
    BY DEF PipesOf, Lanes
  <2> QED
    BY <1>1, <2>1 DEF ValidTask
<1> QED
  BY <1>1, <1>2 DEF SyncTaskPipe, SetOps

\* The sets of a flag are queued on one pipe.
LEMMA SetsOfFlagQueue ==
  ASSUME prog \in Programs, NEW k, FlagQueues(k), NEW i \in Sets(k), NEW j \in Sets(k)
  PROVE  SameResource(i, j)
<1>1. i \in Tasks /\ j \in Tasks /\ k \in SetKeys(i) /\ k \in SetKeys(j)
  BY DEF Sets
<1>2. ASSUME NEW x \in Tasks, k \in SetKeys(x), prog[x].op = "set_flag"
      PROVE  /\ k[1] = "local" /\ k[2] = prog[x].core /\ k[3] = prog[x].lane
             /\ k[4] = prog[x].pipe
  <2>1. k = <<"local", prog[x].core, prog[x].lane, prog[x].src, prog[x].dst, prog[x].id>>
    BY <1>2 DEF SetKeys, LocalFlagKey
  <2>2. prog[x].pipe = prog[x].src
    BY <1>2, LocalMarker
  <2> QED
    BY <2>1, <2>2
<1>3. ASSUME NEW x \in Tasks, k \in SetKeys(x), prog[x].op # "set_flag"
      PROVE  /\ x \in CrossSets /\ prog[x].mode = 2
             /\ k[1] = "cross" /\ k[2] = prog[x].core /\ k[5] = prog[x].id
             /\ IF k[3] = "c2v" THEN prog[x].lane = "cube" ELSE prog[x].lane = k[4]
  <2>1. prog[x].op = "set_cross_flag" /\ prog[x].mode = 2 /\ k \in CrossSetKeys(x)
    BY <1>3 DEF SetKeys
  <2>2. CASE prog[x].lane = "cube"
    <3>1. PICK l \in VectorLanes : k = <<"cross", prog[x].core, "c2v", l, prog[x].id>>
      BY <2>1, <2>2 DEF CrossSetKeys, CrossKeys
    <3> QED
      BY <1>3, <2>1, <2>2, <3>1 DEF CrossSets
  <2>3. CASE prog[x].lane # "cube"
    <3>1. k = <<"cross", prog[x].core, "v2c", prog[x].lane, prog[x].id>>
      BY <2>1, <2>3 DEF CrossSetKeys, CrossKeys
    <3> QED
      BY <1>3, <2>1, <3>1 DEF CrossSets
  <2> QED
    BY <2>2, <2>3
<1>4. CASE k[1] = "local"
  <2>1. prog[i].op = "set_flag" /\ prog[j].op = "set_flag"
    BY <1>1, <1>3, <1>4
  <2> QED
    BY <1>1, <1>2, <2>1 DEF SameResource, SameLane
<1>5. CASE k[1] # "local"
  <2>1. prog[i].op # "set_flag" /\ prog[j].op # "set_flag"
    BY <1>1, <1>2, <1>5
  <2>2. SameLane(i, j) /\ prog[i].id = prog[j].id /\ prog[i].mode = prog[j].mode
        /\ i \in CrossSets /\ j \in CrossSets
    BY <1>1, <1>3, <2>1 DEF SameLane
  <2> QED
    BY <1>5, <2>2 DEF FlagQueues, SetsQueue, SameResource
<1> QED
  BY <1>4, <1>5

\* A wait_cross_flag is queued on the scalar pipe of its lane.
LEMMA CrossWaitPipe ==
  ASSUME prog \in Programs, NEW i \in Tasks, prog[i].op = "wait_cross_flag"
  PROVE  prog[i].pipe = "s" /\ prog[i].lane \in CoreLanes
<1>1. prog[i] \in Task /\ ValidTask(prog[i]) /\ prog[i].pipe = SyncTaskPipe(prog[i])
  BY ProgramFacts
<1>2. prog[i].lane \in CoreLanes
  BY <1>1 DEF ValidTask, Task, Lanes
<1> QED
  BY <1>1, <1>2 DEF SyncTaskPipe, SetOps

\* The waits of a flag are queued on one pipe.
LEMMA WaitsOfFlagQueue ==
  ASSUME prog \in Programs, NEW k, NEW i \in Waits(k), NEW j \in Waits(k)
  PROVE  SameResource(i, j)
<1>1. i \in Tasks /\ j \in Tasks /\ k \in WaitKeys(i) /\ k \in WaitKeys(j)
  BY DEF Waits
<1>2. ASSUME NEW x \in Tasks, k \in WaitKeys(x), prog[x].op = "wait_flag"
      PROVE  /\ k[1] = "local" /\ k[2] = prog[x].core /\ k[3] = prog[x].lane
             /\ k[5] = prog[x].pipe
  <2>1. k = <<"local", prog[x].core, prog[x].lane, prog[x].src, prog[x].dst, prog[x].id>>
    BY <1>2 DEF WaitKeys, LocalFlagKey
  <2>2. prog[x].pipe = prog[x].dst
    BY <1>2, LocalMarker
  <2> QED
    BY <2>1, <2>2
<1>3. ASSUME NEW x \in Tasks, k \in WaitKeys(x), prog[x].op # "wait_flag"
      PROVE  /\ k[1] = "cross" /\ k[2] = prog[x].core /\ prog[x].pipe = "s"
             /\ IF k[3] = "v2c" THEN prog[x].lane = "cube" ELSE prog[x].lane = k[4]
  <2>1. prog[x].op = "wait_cross_flag" /\ k \in CrossWaitKeys(x)
    BY <1>3 DEF WaitKeys
  <2>2. prog[x].pipe = "s"
    BY <1>3, <2>1, CrossWaitPipe
  <2>3. CASE prog[x].lane = "cube"
    <3>1. PICK l \in VectorLanes : k = <<"cross", prog[x].core, "v2c", l, prog[x].id>>
      BY <2>1, <2>3 DEF CrossWaitKeys, CrossKeys
    <3> QED
      BY <2>2, <2>3, <3>1
  <2>4. CASE prog[x].lane # "cube"
    <3>1. k = <<"cross", prog[x].core, "c2v", prog[x].lane, prog[x].id>>
      BY <2>1, <2>4 DEF CrossWaitKeys, CrossKeys
    <3> QED
      BY <2>2, <3>1
  <2> QED
    BY <2>3, <2>4
<1>4. CASE k[1] = "local"
  <2>1. prog[i].op = "wait_flag" /\ prog[j].op = "wait_flag"
    BY <1>1, <1>3, <1>4, SMTT(20)
  <2> QED
    BY <1>1, <1>2, <2>1 DEF SameResource, SameLane
<1>5. CASE k[1] # "local"
  <2>1. prog[i].op # "wait_flag" /\ prog[j].op # "wait_flag"
    BY <1>1, <1>2, <1>5
  <2> QED
    BY <1>1, <1>3, <2>1 DEF SameResource, SameLane
<1> QED
  BY <1>4, <1>5

\* So are the sets and the waits of a participant of a collective flag.
LEMMA CollectivesQueue ==
  ASSUME prog \in Programs, NEW a
  PROVE  /\ SetsQueue => \A i, j \in CollectiveSets(a) : SameResource(i, j)
         /\ \A i, j \in CollectiveWaits(a) : SameResource(i, j)
<1>1. ASSUME NEW i \in Tasks, NEW j \in Tasks, OwnSlot(i) = OwnSlot(j)
      PROVE  SameLane(i, j) /\ CollectiveKey(i) = CollectiveKey(j)
  <2>1. OwnSlot(i)[1] = OwnSlot(j)[1] /\ OwnSlot(i)[2][1] = OwnSlot(j)[2][1]
        /\ OwnSlot(i)[2][2] = OwnSlot(j)[2][2]
    BY <1>1
  <2> QED
    BY <2>1 DEF OwnSlot, Participant, SameLane
<1>2. ASSUME NEW i \in Tasks, IsCollectiveSet(i)
      PROVE  /\ i \in CrossSets
             /\ CollectiveKey(i)[1] = prog[i].mode /\ CollectiveKey(i)[4] = prog[i].id
  BY <1>2 DEF IsCollectiveSet, CrossSets, CollectiveKey, CollectiveMode
<1>3. ASSUME SetsQueue, NEW i \in CollectiveSets(a), NEW j \in CollectiveSets(a)
      PROVE  SameResource(i, j)
  <2>1. i \in Tasks /\ j \in Tasks /\ IsCollectiveSet(i) /\ IsCollectiveSet(j)
        /\ OwnSlot(i) = OwnSlot(j)
    BY DEF CollectiveSets
  <2>2. SameLane(i, j) /\ CollectiveKey(i) = CollectiveKey(j)
    BY <1>1, <2>1, SMTT(20)
  <2>3. i \in CrossSets /\ j \in CrossSets /\ prog[i].mode = prog[j].mode /\ prog[i].id = prog[j].id
    BY <1>2, <2>1, <2>2
  <2> QED
    BY <1>3, <2>2, <2>3 DEF SetsQueue, SameResource
<1>4. ASSUME NEW i \in CollectiveWaits(a), NEW j \in CollectiveWaits(a)
      PROVE  SameResource(i, j)
  <2>1. i \in Tasks /\ j \in Tasks /\ prog[i].op = "wait_cross_flag" /\ prog[j].op = "wait_cross_flag"
        /\ OwnSlot(i) = OwnSlot(j)
    BY DEF CollectiveWaits, IsCollectiveWait
  <2> QED
    BY <1>1, <2>1, CrossWaitPipe DEF SameResource
<1> QED
  BY <1>3, <1>4


\* Of a queue, the tasks before the next one to complete have completed, and
\* none after it.
LEMMA QueueFrontier ==
  ASSUME OrderInv, NEW S, S \subseteq Tasks, \A x, y \in S : SameResource(x, y),
         NEW i \in S, i \notin done, OrderedBefore(i) \subseteq done
  PROVE  /\ S \cap done = {j \in S : j < i}
         /\ Cardinality(S \cap done) = Rank(S, i)
<1>1. Tasks \subseteq Int
  BY ProgramFacts DEF OrderInv, TypeInv
<1>2. ASSUME NEW j \in S, j < i PROVE j \in done
  <2>1. j \in OrderedBefore(i)
    BY <1>2 DEF OrderedBefore, Earlier
  <2> QED
    BY <2>1
<1>3. ASSUME NEW j \in S, j \in done PROVE j < i
  <2>1. i < j => i \in OrderedBefore(j)
    BY DEF OrderedBefore, Earlier
  <2>2. ~(i < j)
    BY <1>3, <2>1 DEF OrderInv, OrderKept
  <2>3. i \in Int /\ j \in Int /\ i # j
    BY <1>1, <1>3
  <2> QED
    BY <2>2, <2>3
<1>4. S \cap done = {j \in S : j < i}
  BY <1>2, <1>3, SMTT(20)
<1> QED
  BY <1>4 DEF Rank

\* Whether the sets of a flag queue is a fact about the program.
LEMMA FlagQueuesStatic ==
  prog' = prog => SetsQueue' = SetsQueue /\ \A k : FlagQueues(k)' = FlagQueues(k)
<1> SUFFICES ASSUME prog' = prog PROVE SetsQueue' = SetsQueue /\ \A k : FlagQueues(k)' = FlagQueues(k)
  OBVIOUS
<1>1. SetsQueue' = SetsQueue
  BY DEF SetsQueue, CrossSets, SameLane, Tasks
<1> QED
  BY <1>1 DEF FlagQueues

\* on_scheduled keeps the credits of flags in program order.
LEMMA FlagsRankedStep ==
  ASSUME OrderInv, FlagsCounted, FlagsRanked, NEW i \in Tasks \ done,
         OrderedBefore(i) \subseteq done, OnScheduled(i), ~WaitMissing(i),
         prog' = prog, done' = done \cup {i}
  PROVE  FlagsRanked'
<1>1. FlagKeys' = FlagKeys
  BY FlagKeysStatic
<1>2. prog \in Programs /\ tokens \in [FlagKeys -> Seq(Tasks)]
  BY DEF OrderInv, TypeInv, TypeOK, SyncTypeOK
<1>3. ASSUME NEW k \in FlagKeys, FlagQueues(k), NEW n \in 1 .. Len(tokens'[k])
      PROVE  /\ tokens'[k][n] \in Sets(k) \cap done'
             /\ Rank(Sets(k), tokens'[k][n]) = Cardinality(Waits(k) \cap done') + n - 1
  <2>1. tokens[k] \in Seq(Tasks) /\ Len(tokens[k]) \in Nat
    BY <1>2, SMTT(20)
  <2>2. tokens'[k] = IF k \in SetKeys(i) THEN Append(tokens[k], i)
                     ELSE IF k \in WaitKeys(i) THEN Tail(tokens[k]) ELSE tokens[k]
    BY <1>2, Zenon DEF OnScheduled
  <2>3. Cardinality(Waits(k) \cap done') =
          IF k \in WaitKeys(i) THEN Cardinality(Waits(k) \cap done) + 1 ELSE Cardinality(Waits(k) \cap done)
    <3>1. i \in Waits(k) <=> k \in WaitKeys(i)
      BY DEF Waits
    <3> QED
      BY <1>2, <3>1, CountCompleted, Zenon DEF Waits
  <2>4. Cardinality(Waits(k) \cap done) \in Nat
    BY <1>2, TasksFinite DEF Waits
  <2>5. \A m \in 1 .. Len(tokens[k]) :
          /\ tokens[k][m] \in Sets(k) \cap done
          /\ Rank(Sets(k), tokens[k][m]) = Cardinality(Waits(k) \cap done) + m - 1
    BY <1>3, Zenon DEF FlagsRanked
  <2>6. CASE k \in SetKeys(i)
    <3>1. k \notin WaitKeys(i)
      BY <2>6, SetsAreNotWaits
    <3>2. i \in Sets(k) /\ Sets(k) \subseteq Tasks
      BY <2>6 DEF Sets
    <3>3. Rank(Sets(k), i) = Cardinality(Sets(k) \cap done)
      BY <1>2, <1>3, <3>2, QueueFrontier, SetsOfFlagQueue
    <3>4. Rank(Sets(k), i) = Len(tokens[k]) + Cardinality(Waits(k) \cap done)
      BY <3>3, Zenon DEF FlagsCounted
    <3>5. CASE n = Len(tokens[k]) + 1
      <4>1. tokens'[k][n] = i
        BY <2>1, <2>2, <2>6, <3>5, SMTT(20)
      <4> QED
        BY <2>1, <2>3, <2>4, <3>1, <3>2, <3>4, <3>5, <4>1
    <3>6. CASE n # Len(tokens[k]) + 1
      <4>1. n \in 1 .. Len(tokens[k]) /\ tokens'[k][n] = tokens[k][n]
        BY <1>3, <2>1, <2>2, <2>6, <3>6
      <4> QED
        BY <2>3, <2>5, <3>1, <4>1, Zenon
    <3> QED
      BY <3>5, <3>6
  <2>7. CASE k \in WaitKeys(i)
    <3>1. k \notin SetKeys(i) /\ tokens[k] # <<>>
      BY <2>7, SetsAreNotWaits DEF WaitMissing
    <3>2. tokens'[k] = Tail(tokens[k])
      BY <2>2, <2>7, <3>1, SMTT(20)
    <3>3. n + 1 \in 1 .. Len(tokens[k]) /\ tokens'[k][n] = tokens[k][n + 1]
      BY <1>3, <2>1, <3>1, <3>2, SMTT(20)
    <3>4. Rank(Sets(k), tokens[k][n + 1]) = Cardinality(Waits(k) \cap done) + (n + 1) - 1
      BY <2>5, <3>3, Zenon
    <3> QED
      BY <2>3, <2>4, <2>5, <2>7, <3>3, <3>4, SMTT(20)
  <2>8. CASE k \notin SetKeys(i) /\ k \notin WaitKeys(i)
    BY <1>3, <2>2, <2>3, <2>5, <2>8, Zenon
  <2> QED
    BY <2>6, <2>7, <2>8
<1>4. \A k : Sets(k)' = Sets(k) /\ Waits(k)' = Waits(k)
  BY SetsStatic
<1> QED
  BY <1>1, <1>3, <1>4, FlagQueuesStatic, Zenon DEF FlagsRanked, Rank

\* It keeps the phases of each participant of a collective flag in order.
LEMMA CollectivesRankedStep ==
  ASSUME OrderInv, SetsQueue, CollectivesCounted, CollectivesRanked, NEW i \in Tasks \ done,
         OrderedBefore(i) \subseteq done, OnScheduled(i),
         prog' = prog, done' = done \cup {i}
  PROVE  CollectivesRanked'
<1>1. CollectiveSlots' = CollectiveSlots
  BY CollectiveSlotsStatic
<1>2. prog \in Programs /\ ready \in [CollectiveSlots -> Seq(Tasks)]
  BY DEF OrderInv, TypeInv, TypeOK, SyncTypeOK
<1>3. ASSUME NEW a \in CollectiveSlots, NEW n \in 1 .. Len(ready'[a])
      PROVE  /\ ready'[a][n] \in CollectiveSets(a) \cap done'
             /\ Rank(CollectiveSets(a), ready'[a][n]) = n - 1
  <2>1. ready[a] \in Seq(Tasks) /\ Len(ready[a]) \in Nat
    BY <1>2
  <2>2. ready'[a] = IF IsCollectiveSet(i) /\ a = OwnSlot(i) THEN Append(ready[a], i) ELSE ready[a]
    BY <1>2, SMTT(20) DEF OnScheduled
  <2>3. \A m \in 1 .. Len(ready[a]) :
          ready[a][m] \in CollectiveSets(a) \cap done /\ Rank(CollectiveSets(a), ready[a][m]) = m - 1
    BY Zenon DEF CollectivesRanked
  <2>4. CASE IsCollectiveSet(i) /\ a = OwnSlot(i) /\ n = Len(ready[a]) + 1
    <3>1. i \in CollectiveSets(a) /\ CollectiveSets(a) \subseteq Tasks /\ ready'[a][n] = i
      BY <2>1, <2>2, <2>4, SMTT(20) DEF CollectiveSets
    <3>2. Rank(CollectiveSets(a), i) = Cardinality(CollectiveSets(a) \cap done)
      BY <1>2, <3>1, QueueFrontier, CollectivesQueue
    <3>3. Rank(CollectiveSets(a), i) = Len(ready[a])
      BY <3>2, Zenon DEF CollectivesCounted
    <3> QED
      BY <2>1, <2>4, <3>1, <3>3, SMTT(20)
  <2>5. CASE ~(IsCollectiveSet(i) /\ a = OwnSlot(i) /\ n = Len(ready[a]) + 1)
    <3>1. n \in 1 .. Len(ready[a]) /\ ready'[a][n] = ready[a][n]
      BY <1>3, <2>1, <2>2, <2>5
    <3> QED
      BY <2>3, <3>1
  <2> QED
    BY <2>4, <2>5
<1>4. \A a : CollectiveSets(a)' = CollectiveSets(a)
  BY SetsStatic
<1> QED
  BY <1>1, <1>3, <1>4, Zenon DEF CollectivesRanked, Rank

CreditInv == OrderInv /\ CreditsCounted /\ CreditsRanked

\* Every step of the pass loop keeps credits counted and in order.
LEMMA CreditStep == CreditInv /\ [Next]_vars => CreditInv'
<1> SUFFICES ASSUME CreditInv, [Next]_vars PROVE CreditInv'
  OBVIOUS
<1>1. OrderInv /\ OrderInv' /\ TypeInv
  BY OrderStep DEF CreditInv, OrderInv
<1>2. CreditsCounted /\ CreditsCounted' /\ prog' = prog
  BY <1>1, CountedNext, StepCases DEF CreditInv
<1>3. SetsQueue' = SetsQueue
  BY <1>2, FlagQueuesStatic
<1>4. ASSUME NEW i \in Tasks, Schedule(i) PROVE CreditsRanked'
  <2>1. i \in Tasks \ done /\ status = "running" /\ done' = done \cup {i}
    BY <1>1, <1>4, ScheduleFacts
  <2>2. OrderedBefore(i) \subseteq done
    BY <1>1, <1>4, <2>1, ScheduleFacts, PredecessorsEnded
  <2>3. CASE Raised'
    BY <2>3 DEF CreditsRanked
  <2>4. CASE OnScheduled(i) /\ ~WaitMissing(i)
    <3>1. FlagsCounted /\ CollectivesCounted
      BY <1>2, <2>1 DEF CreditsCounted, Raised
    <3>2. FlagsRanked /\ (SetsQueue => CollectivesRanked)
      BY <2>1 DEF CreditInv, CreditsRanked, Raised
    <3>3. FlagsRanked'
      BY <1>1, <1>2, <2>1, <2>2, <2>4, <3>1, <3>2, FlagsRankedStep, SMTT(20)
    <3>4. SetsQueue => CollectivesRanked'
      BY <1>1, <1>2, <2>1, <2>2, <2>4, <3>1, <3>2, CollectivesRankedStep
    <3> QED
      BY <1>3, <3>3, <3>4 DEF CreditsRanked
  <2> QED
    BY <1>1, <1>4, <2>3, <2>4, ScheduleFacts
<1>5. ASSUME UNCHANGED <<schedule, syncVars>> PROVE CreditsRanked'
  <2>1. FlagKeys' = FlagKeys /\ CollectiveSlots' = CollectiveSlots
    BY <1>2, FlagKeysStatic, CollectiveSlotsStatic
  <2>2. done' = done /\ tokens' = tokens /\ ready' = ready
    BY <1>5 DEF schedule, syncVars
  <2>3. \A k : Sets(k)' = Sets(k) /\ Waits(k)' = Waits(k) /\ CollectiveSets(k)' = CollectiveSets(k)
    BY <1>2, SetsStatic
  <2>4. ASSUME FlagsRanked PROVE FlagsRanked'
    <3>1. ASSUME NEW k \in FlagKeys, FlagQueues(k), NEW n \in 1 .. Len(tokens[k])
          PROVE  /\ tokens[k][n] \in Sets(k)' \cap done'
                 /\ Rank(Sets(k), tokens[k][n])' = Cardinality(Waits(k) \cap done)' + n - 1
      BY <2>2, <2>3, <2>4, <3>1, Zenon DEF FlagsRanked, Rank
    <3> QED
      BY <1>2, <2>1, <2>2, <3>1, FlagQueuesStatic, Zenon DEF FlagsRanked
  <2>5. CollectivesRanked => CollectivesRanked'
    BY <2>1, <2>2, <2>3 DEF CollectivesRanked, Rank
  <2>6. Raised => Raised'
    BY DEF Raised, Next, Run, Returned, BeginPass, EndPass, Finish, WallTimeout, Blocked,
           Schedule, CycleLimit, Visiting, vars
  <2> QED
    BY <1>3, <2>4, <2>5, <2>6 DEF CreditInv, CreditsRanked
<1>6. CreditsRanked'
  BY <1>1, <1>4, <1>5, StepCases
<1> QED
  BY <1>1, <1>2, <1>6 DEF CreditInv

\* At the start nothing is completed and no flag is set.
LEMMA CreditInit == Init => CreditInv
<1> SUFFICES ASSUME Init PROVE CreditInv
  OBVIOUS
<1>1. OrderInv /\ done = {}
  BY TypeInit DEF Init, OrderInv, EndsAfterStart, OrderKept
<1>2. FlagsCounted /\ CollectivesCounted
  <2>1. \A S : S \cap done = {}
    BY <1>1
  <2> QED
    BY <2>1, FS_EmptySet DEF Init, SyncInit, FlagsCounted, CollectivesCounted
<1>3. FlagsRanked /\ CollectivesRanked
  BY DEF Init, SyncInit, FlagsRanked, CollectivesRanked
<1> QED
  BY <1>1, <1>2, <1>3 DEF CreditInv, CreditsCounted, CreditsRanked

\* The credit at the head of a flag is that of the set paired with the wait.
LEMMA HeadIsPaired ==
  ASSUME CreditInv, ~Raised, NEW i \in Tasks \ done, OrderedBefore(i) \subseteq done,
         NEW k \in WaitKeys(i), FlagQueues(k), tokens[k] # <<>>
  PROVE  {j \in Sets(k) : Rank(Sets(k), j) = Rank(Waits(k), i)} = {Head(tokens[k])}
<1>1. OrderInv /\ prog \in Programs /\ k \in FlagKeys /\ i \in Waits(k)
  BY DEF CreditInv, OrderInv, TypeInv, FlagKeys, Waits
<1>2. tokens[k] \in Seq(Tasks)
  BY <1>1 DEF OrderInv, TypeInv, TypeOK, SyncTypeOK
<1>3. Cardinality(Waits(k) \cap done) = Rank(Waits(k), i)
  BY <1>1, QueueFrontier, WaitsOfFlagQueue DEF Waits
<1>4. 1 \in 1 .. Len(tokens[k]) /\ Head(tokens[k]) = tokens[k][1]
  BY <1>2
<1>5. /\ tokens[k][1] \in Sets(k)
      /\ Rank(Sets(k), tokens[k][1]) = Cardinality(Waits(k) \cap done) + 1 - 1
  BY <1>1, <1>4, Zenon DEF CreditInv, CreditsRanked, FlagsRanked
<1>6. Cardinality(Waits(k) \cap done) \in Nat
  BY <1>1, TasksFinite DEF Waits
<1>7. Rank(Sets(k), Head(tokens[k])) = Rank(Waits(k), i)
  BY <1>3, <1>4, <1>5, <1>6
<1>8. \A j \in Sets(k) : Rank(Sets(k), j) = Rank(Sets(k), Head(tokens[k])) => j = Head(tokens[k])
  <2>1. Sets(k) \subseteq Tasks
    BY DEF Sets
  <2> QED
    BY <1>1, <1>4, <1>5, <2>1, RankNames
<1> QED
  BY <1>4, <1>5, <1>7, <1>8

=============================================================================
