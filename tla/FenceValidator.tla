--------------------------- MODULE FenceValidator ---------------------------
(***************************************************************************)
(* validate_memory_synchronization of tilelang/simulator/sync.py: the      *)
(* static check that the adapter makes before it schedules a program.  An  *)
(* inferred memory edge between two pipes of a lane is accepted when a     *)
(* UnitFlag edge, a full barrier or a chain of local flags lies between    *)
(* its ends.                                                               *)
(***************************************************************************)
EXTENDS EventScheduler

Between(d, i) == {j \in Tasks : d < j /\ j < i /\ prog[j].core = prog[i].core}

\* The edges that are looked at; the others are FIFO, foreign or backwards.
CheckedEdges(i) ==
  {d \in prog[i].mem : /\ d < i
                       /\ SameLane(d, i)
                       /\ prog[d].pipe # prog[i].pipe}

UnitFlagFence(d, i) ==
  \E h \in prog[i].unit : /\ SameLane(h, d) /\ prog[h].pipe = prog[d].pipe
                          /\ d <= h /\ h < i

HasFullBarrierBetween(d, i) == \E j \in Between(d, i) : FullBarrier(j)

Signature(j) == <<prog[j].src, prog[j].dst, prog[j].id>>

\* Mutant: a wait makes its pipe reachable whatever its set followed.
FlagFenceStepUntracked(r, j) ==
  LET sig == Signature(j) IN
  IF prog[j].op = "set_flag" THEN [r EXCEPT !.pending = @ \cup {sig}]
  ELSE IF prog[j].op = "wait_flag" /\ sig \in r.pending
  THEN [r EXCEPT !.pending = @ \ {sig}, !.reachable = @ \cup {prog[j].dst}]
  ELSE r

(***************************************************************************)
(* _has_local_flag_fence_between: one pass over the flag events of the     *)
(* lane.  pending holds the signatures set so far, live those of them      *)
(* whose source pipe was reachable from the producer.                      *)
(***************************************************************************)
FlagFenceStep(r, j) ==
  LET sig == Signature(j) IN
  IF prog[j].op = "set_flag"
  THEN [r EXCEPT !.pending = @ \cup {sig},
                 !.live = IF prog[j].src \in r.reachable THEN @ \cup {sig} ELSE @ \ {sig}]
  ELSE IF prog[j].op = "wait_flag" /\ sig \in r.pending
  THEN [pending |-> r.pending \ {sig}, live |-> r.live \ {sig},
        reachable |-> r.reachable \cup (IF sig \in r.live THEN {prog[j].dst} ELSE {})]
  ELSE r

FlagFenceScan(d, i) ==
  LET scan[j \in d .. i - 1] ==
        IF j = d THEN [reachable |-> {prog[d].pipe}, pending |-> {}, live |-> {}]
        ELSE IF SameLane(j, i) THEN FlagFenceStep(scan[j - 1], j) ELSE scan[j - 1]
  IN  scan[i - 1]

HasLocalFlagFenceBetween(d, i) == prog[i].pipe \in FlagFenceScan(d, i).reachable

Accepted(d, i) ==
  UnitFlagFence(d, i) \/ HasFullBarrierBetween(d, i) \/ HasLocalFlagFenceBetween(d, i)

-----------------------------------------------------------------------------
\* Each flag is set and waited for in turn, so that no older credit is left
\* for a wait to consume.
FlagsAlternate ==
  \A k \in FlagKeys : \A i \in Tasks :
    /\ k \in SetKeys(i) => Rank(Sets(k), i) = Rank(Waits(k), i)
    /\ k \in WaitKeys(i) => Rank(Sets(k), i) = Rank(Waits(k), i) + 1

OrderedInTime(d, i) == i \in done => d \in done /\ en[d] <= st[i]

(***************************************************************************)
(* The validator is sound where flags alternate, no lane has joined a      *)
(* sync_all, and the barrier it relied on is one of the lane itself: in    *)
(* every schedule the producer has ended before the consumer starts,       *)
(* although the scheduler ignores the memory edge.                         *)
(***************************************************************************)
AcceptedEdgesOrdered ==
  FlagsAlternate /\ SyncAllTasks = {} =>
    \A i \in Tasks : \A d \in CheckedEdges(i) :
      /\ Accepted(d, i)
      /\ \A j \in Between(d, i) : FullBarrier(j) => SameLane(j, i)
      => OrderedInTime(d, i)

(***************************************************************************)
(* The docstring of validate_memory_synchronization: "Accept an edge only  *)
(* when pipe FIFO suffices, a full PIPE_ALL lies between the accesses, or  *)
(* a matching local set/wait flag pair connects the producer and consumer  *)
(* pipes", so an accepted edge has a hardware fence.                       *)
(***************************************************************************)
AcceptedEdgesAreFenced ==
  \A i \in Tasks : \A d \in CheckedEdges(i) : Accepted(d, i) => OrderedInTime(d, i)

=============================================================================
