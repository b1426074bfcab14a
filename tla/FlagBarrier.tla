----------------------------- MODULE FlagBarrier -----------------------------
(***************************************************************************)
(* FlagBarrierSynchronizationModel of tilelang/simulator/sync.py: flags,   *)
(* cross-core flags, barriers and sync_all as seen by the scheduler, which *)
(* calls evaluate before and on_scheduled after it schedules a task.       *)
(*                                                                         *)
(* A credit is represented by the task that produced it; the cycle the     *)
(* code stores next to it is the end of that task.                         *)
(***************************************************************************)
EXTENDS PipelineOrder

CONSTANTS
  FlagBlocking,      \* flag_blocking: a full flag stalls its setter
  LocalFlagDepth,    \* local_flag_depth, used when FlagBlocking
  CrossFlagDepth,    \* cross_flag_depth, used when FlagBlocking
  MaxCrossCredits    \* _MAX_CROSS_FLAG_CREDITS, used otherwise

ASSUME FlagAssumption ==
  /\ FlagBlocking \in BOOLEAN
  /\ LocalFlagDepth \in Nat \ {0}
  /\ CrossFlagDepth \in Nat \ {0}
  /\ MaxCrossCredits \in Nat \ {0}

VARIABLES
  tokens,    \* _tokens: the outstanding credits of each flag, oldest first
  ready,     \* _collective_ready: per flag and participant, all its sets
  waited     \* _collective_wait_phase: per flag and participant, its waits

syncVars == <<tokens, ready, waited>>

-----------------------------------------------------------------------------
\* _sync_all_arrivals: the completed sync_all tasks of j's rendezvous.
Arrivals(j) == {k \in SyncAllTasks \cap done : SyncAllKey(k) = SyncAllKey(j)}

\* Mutant: the first arrival releases everyone.
AnyArrived(j) == Arrivals(j) # {}

AllArrived(j) ==
  SyncAllParticipants(SyncAllScope(j))
    \subseteq UNION {SyncAllTaskParticipants(k) : k \in Arrivals(j)}

\* flag_blocking: a set stalls while one of its flags is at its depth.
FlagDepthFree(i) ==
  FlagBlocking => \A k \in SetKeys(i) :
    Len(tokens[k]) < IF prog[i].op = "set_flag" THEN LocalFlagDepth ELSE CrossFlagDepth

\* Mutant: an off-by-one in the number of credits that a wait needs.
FlagsAvailableTwo(i) ==
  /\ \A k \in WaitKeys(i) : Len(tokens[k]) > 1
  /\ prog[i].op = "wait_cross_flag" => CrossWaitMode(i) # {}
  /\ IsCollectiveWait(i) => \A a \in ReleaseSlots(i) : Len(ready[a]) > waited[OwnSlot(i)] + 1

\* A wait needs a credit on each of its flags, or the next collective phase.
FlagsAvailable(i) ==
  /\ \A k \in WaitKeys(i) : tokens[k] # <<>>
  /\ prog[i].op = "wait_cross_flag" => CrossWaitMode(i) # {}
  /\ IsCollectiveWait(i) => \A a \in ReleaseSlots(i) : Len(ready[a]) > waited[OwnSlot(i)]

FlagProducers(i) ==
  {Head(tokens[k]) : k \in WaitKeys(i)} \cup
    IF IsCollectiveWait(i) THEN {ready[a][waited[OwnSlot(i)] + 1] : a \in ReleaseSlots(i)}
                           ELSE {}

(***************************************************************************)
(* evaluate: whether task i may be scheduled, and the tasks whose ends     *)
(* determine ready_cycle.  After a sync_all of its own lane a task only    *)
(* waits for its ordering edges and that rendezvous: evaluate returns      *)
(* before it looks at flags, depths or barriers.                           *)
(***************************************************************************)
SyncReady(i) ==
  /\ OrderingDependencies(i) \subseteq done
  /\ IF SyncAllRelease(i) # {}
     THEN \A j \in SyncAllRelease(i) : AllArrived(j)
     ELSE /\ FlagDepthFree(i)
          /\ FlagsAvailable(i)
          /\ BarrierDependencies(i) \subseteq done

SyncSources(i) ==
  OrderingDependencies(i) \cup
    IF SyncAllRelease(i) # {}
    THEN UNION {Arrivals(j) : j \in SyncAllRelease(i)}
    ELSE FlagProducers(i) \cup BarrierDependencies(i)

-----------------------------------------------------------------------------
\* on_scheduled raises: a credit too many, ...
SetOverflows(i) ==
  \/ /\ ~FlagBlocking
     /\ prog[i].op = "set_cross_flag"
     /\ \E k \in SetKeys(i) : Len(tokens[k]) >= MaxCrossCredits
  \/ /\ IsCollectiveSet(i)
     /\ \E a \in ReleaseSlots(i) : Len(ready[OwnSlot(i)]) - waited[a] >= MaxCrossCredits

\* ... or one that is not there.
WaitMissing(i) ==
  \/ \E k \in WaitKeys(i) : tokens[k] = <<>>
  \/ prog[i].op = "wait_cross_flag" /\ CrossWaitMode(i) = {}

\* Mutant: credits are taken last-in first-out.
OnScheduledLifo(i) ==
  /\ tokens' = [k \in DOMAIN tokens |->
                  IF k \in SetKeys(i) THEN <<i>> \o tokens[k]
                  ELSE IF k \in WaitKeys(i) THEN Tail(tokens[k]) ELSE tokens[k]]
  /\ ready' = [a \in DOMAIN ready |->
                 IF IsCollectiveSet(i) /\ a = OwnSlot(i) THEN Append(ready[a], i) ELSE ready[a]]
  /\ waited' = [a \in DOMAIN waited |->
                  IF IsCollectiveWait(i) /\ a = OwnSlot(i) THEN waited[a] + 1 ELSE waited[a]]

OnScheduled(i) ==
  /\ tokens' = [k \in DOMAIN tokens |->
                  IF k \in SetKeys(i) THEN Append(tokens[k], i)
                  ELSE IF k \in WaitKeys(i) THEN Tail(tokens[k]) ELSE tokens[k]]
  /\ ready' = [a \in DOMAIN ready |->
                 IF IsCollectiveSet(i) /\ a = OwnSlot(i) THEN Append(ready[a], i) ELSE ready[a]]
  /\ waited' = [a \in DOMAIN waited |->
                  IF IsCollectiveWait(i) /\ a = OwnSlot(i) THEN waited[a] + 1 ELSE waited[a]]

\* Mutant: the audit forgets flags that nothing waits for, and sync_all.
ResidualWaited ==
  \/ \E i \in Tasks : \E k \in WaitKeys(i) : tokens[k] # <<>>
  \/ \E i \in Tasks : IsCollectiveWait(i) /\ Len(ready[OwnSlot(i)]) # waited[OwnSlot(i)]

\* audit_flag_balance: what is left live when every task has completed.
Residual ==
  \/ \E i \in Tasks : prog[i].op = "set_flag" /\ tokens[LocalFlagKey(i)] # <<>>
  \/ \E i \in Tasks : \E k \in WaitKeys(i) : tokens[k] # <<>>
  \/ \E i \in Tasks : IsCollectiveWait(i) /\ Len(ready[OwnSlot(i)]) # waited[OwnSlot(i)]
  \/ \E i \in SyncAllTasks : ~AllArrived(i)

SyncInit ==
  /\ tokens = [k \in FlagKeys |-> <<>>]
  /\ ready = [a \in CollectiveSlots |-> <<>>]
  /\ waited = [a \in CollectiveSlots |-> 0]

SyncTypeOK ==
  /\ tokens \in [FlagKeys -> Seq(Tasks)]
  /\ ready \in [CollectiveSlots -> Seq(Tasks)]
  /\ waited \in [CollectiveSlots -> Nat]

=============================================================================
