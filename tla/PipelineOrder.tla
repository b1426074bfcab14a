---------------------------- MODULE PipelineOrder ----------------------------
(***************************************************************************)
(* What a schedule promises, with no flags, passes or scan order: a task   *)
(* starts exactly when the last of the tasks that the program puts before  *)
(* it has ended.  Which tasks those are depends on the program alone, so   *)
(* the schedule is unique whatever order the tasks are taken in; provided  *)
(* that the sets of a flag are queued, as those of a local flag always     *)
(* are, and those of a cross flag when one pipe of the lane issues them.   *)
(***************************************************************************)
EXTENDS SyncTables

VARIABLES
  done,  \* the completed tasks
  st,    \* st[i] is the start cycle of completed task i
  en     \* en[i] is its end cycle

orderVars == <<prog, done, st, en>>

\* Queueing, fences and drained barriers.  A barrier after a sync_all of its
\* lane is released by that rendezvous instead.
OrderedBefore(i) ==
  {j \in Earlier(i) : SameResource(i, j)}
    \cup ExecutionDependencies(i)
    \cup LaneFences(i) \cup PipeFences(i) \cup SourcePipeTasks(i)
    \cup (IF SyncAllRelease(i) = {} THEN DrainedBy(i) ELSE {})

\* How many tasks of S precede i in program order.
Rank(S, i) == Cardinality({j \in S : j < i})

\* The sets that a wait is paired with: on each flag, the one of equal rank.
PairedSets(i) ==
  UNION {LET sets == {j \in Tasks : k \in SetKeys(j)}
             waits == {j \in Tasks : k \in WaitKeys(j)}
         IN  {j \in sets : Rank(sets, j) = Rank(waits, i)} : k \in WaitKeys(i)}

\* A collective wait is paired with the set of equal rank of each participant.
PairedPhases(i) ==
  LET sets(a) == {j \in Tasks : IsCollectiveSet(j) /\ OwnSlot(j) = a}
      waits == {j \in Tasks : IsCollectiveWait(j) /\ OwnSlot(j) = OwnSlot(i)}
  IN  IF ~IsCollectiveWait(i) THEN {}
      ELSE UNION {{j \in sets(a) : Rank(sets(a), j) = Rank(waits, i)} : a \in ReleaseSlots(i)}

\* Every member of the rendezvous that the last sync_all of the lane joined.
Rendezvous(i) ==
  UNION {{k \in SyncAllTasks : SyncAllKey(k) = SyncAllKey(j)} : j \in SyncAllRelease(i)}

HappensBefore(i) ==
  OrderedBefore(i) \cup
    IF SyncAllRelease(i) = {} THEN PairedSets(i) \cup PairedPhases(i) ELSE Rendezvous(i)

\* The program has what task i waits for: a set for each flag of a wait, one of
\* each participant, or all the members of its rendezvous.
Matched(i) ==
  IF SyncAllRelease(i) # {}
  THEN \A j \in SyncAllRelease(i) :
         SyncAllParticipants(SyncAllScope(j))
           \subseteq UNION {SyncAllTaskParticipants(k) : k \in Rendezvous(i)}
  ELSE /\ \A k \in WaitKeys(i) : \E j \in PairedSets(i) : k \in SetKeys(j)
       /\ prog[i].op = "wait_cross_flag" => CrossWaitMode(i) # {}
       /\ IsCollectiveWait(i) =>
            \A a \in ReleaseSlots(i) : \E j \in PairedPhases(i) : OwnSlot(j) = a

Issuable(i) == i \notin done /\ Matched(i) /\ HappensBefore(i) \subseteq done

LatestEnd(S) ==
  LET ends == {0} \cup {en[j] : j \in S} IN {c \in ends : \A d \in ends : d <= c}

\* A lane sets a cross flag from one pipe only.
SetsQueue ==
  \A i, j \in CrossSets :
    SameLane(i, j) /\ prog[i].id = prog[j].id /\ prog[i].mode = prog[j].mode
      => prog[i].pipe = prog[j].pipe

OrderInit ==
  /\ prog \in Programs
  /\ done = {}
  /\ st = [i \in Tasks |-> 0]
  /\ en = [i \in Tasks |-> 0]

Issue(i) ==
  /\ Issuable(i)
  /\ done' = done \cup {i}
  /\ st'[i] \in LatestEnd(HappensBefore(i))
  /\ st' = [st EXCEPT ![i] = st'[i]]
  /\ en' = [en EXCEPT ![i] = st'[i] + prog[i].dur]
  /\ UNCHANGED prog

OrderSpec == OrderInit /\ [][SetsQueue => \E i \in Tasks : Issue(i)]_orderVars

=============================================================================
