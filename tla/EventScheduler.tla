--------------------------- MODULE EventScheduler ---------------------------
(***************************************************************************)
(* DiscreteEventScheduler.run of tilelang/simulator/scheduler.py: passes   *)
(* over the program in its stable order, each of which schedules every     *)
(* pending task whose predecessors have completed and which the            *)
(* synchronization model admits, until nothing is pending or a pass        *)
(* schedules nothing.                                                      *)
(***************************************************************************)
EXTENDS FlagBarrier

CONSTANTS
  DeadlockDetect,    \* config.deadlock_detect
  FlagBalanceCheck,  \* config.flag_balance_check
  MaxCycles          \* config.max_cycles, or NoLimit

NoLimit == 0

ASSUME ConfigAssumption ==
  /\ DeadlockDetect \in BOOLEAN
  /\ FlagBalanceCheck \in {"error", "warn", "off"}
  /\ MaxCycles \in Nat

VARIABLES
  pos,       \* where the current pass is; 0 at the head of the loop
  progress,  \* made_progress
  status     \* "running", or how run() ended

vars == <<prog, done, en, tokens, ready, waited, st, pos, progress, status>>

schedule == <<done, st, en>>

Failures == {"invalid",     \* ProgramValidationError from reset
             "overflow",    \* ProgramValidationError: a credit too many
             "missing",     \* ProgramValidationError: wait without a credit
             "limit",       \* SimulationLimitError: max_cycles
             "timeout",     \* SimulationLimitError: execution_timeout_s
             "deadlock",    \* SimulationDeadlockError: global no-progress
             "unbalanced"}  \* SimulationDeadlockError: flag accounting

Pending == Tasks \ done

Init ==
  /\ prog \in Programs
  /\ done = {}
  /\ st = [i \in Tasks |-> 0]
  /\ en = [i \in Tasks |-> 0]
  /\ SyncInit
  /\ pos = 0
  /\ progress = FALSE
  /\ status = IF ResetRejects THEN "invalid" ELSE "running"

-----------------------------------------------------------------------------
\* The task that the pass looks at: the first pending one from pos on.
Visiting(i) ==
  /\ status = "running"
  /\ pos > 0
  /\ i \in Pending
  /\ i >= pos
  /\ \A j \in Pending : j >= pos => i <= j

\* Execution edges and the FIFO predecessor come before synchronization.
Required(i) == ExecutionDependencies(i) \cup FifoPredecessor(i)

Schedulable(i) == Required(i) \subseteq done /\ SyncReady(i)

\* Mutant: the task after a blocked one is not looked at.
BlockedSkips(i) ==
  /\ Visiting(i)
  /\ ~Schedulable(i)
  /\ pos' = i + 2
  /\ UNCHANGED <<prog, schedule, syncVars, progress, status>>

Blocked(i) ==
  /\ Visiting(i)
  /\ ~Schedulable(i)
  /\ pos' = i + 1
  /\ UNCHANGED <<prog, schedule, syncVars, progress, status>>

\* Mutant: ready_cycle of the synchronization model is ignored.
StartCycleUnsynced(i) == LatestEnd(Required(i))

\* start_cycle is the latest end of everything that task i waited for.
StartCycle(i) == LatestEnd(Required(i) \cup SyncSources(i))

Exceeds(i, s) == MaxCycles # NoLimit /\ s + prog[i].dur > MaxCycles

Complete(i, s) ==
  /\ done' = done \cup {i}
  /\ st' = [st EXCEPT ![i] = s]
  /\ en' = [en EXCEPT ![i] = s + prog[i].dur]

(***************************************************************************)
(* The visited task completes; a raise in on_scheduled ends the run after  *)
(* its record has been added.                                              *)
(***************************************************************************)
Schedule(i) ==
  /\ Visiting(i)
  /\ Schedulable(i)
  /\ \E s \in StartCycle(i) : ~Exceeds(i, s) /\ Complete(i, s)
  /\ IF SetOverflows(i) \/ WaitMissing(i)
     THEN /\ status' = IF SetOverflows(i) THEN "overflow" ELSE "missing"
          /\ UNCHANGED <<syncVars, pos, progress>>
     ELSE /\ OnScheduled(i)
          /\ pos' = i + 1
          /\ progress' = TRUE
          /\ UNCHANGED status
  /\ UNCHANGED prog

CycleLimit(i) ==
  /\ Visiting(i)
  /\ Schedulable(i)
  /\ \E s \in StartCycle(i) : Exceeds(i, s)
  /\ status' = "limit"
  /\ UNCHANGED <<prog, schedule, syncVars, pos, progress>>

-----------------------------------------------------------------------------
\* The head of "while pending" ...
BeginPass ==
  /\ status = "running" /\ pos = 0 /\ Pending # {}
  /\ pos' = 1
  /\ progress' = FALSE
  /\ UNCHANGED <<prog, schedule, syncVars, status>>

\* Mutant: the clock is read only after a pass that made progress.
WallTimeoutAfterProgress ==
  /\ status = "running" /\ pos = 0 /\ Pending # {} /\ progress
  /\ status' = "timeout"
  /\ UNCHANGED <<prog, schedule, syncVars, pos, progress>>

\* ... which first reads the wall clock: execution_timeout_s may have passed.
WallTimeout ==
  /\ status = "running" /\ pos = 0 /\ Pending # {}
  /\ status' = "timeout"
  /\ UNCHANGED <<prog, schedule, syncVars, pos, progress>>

\* Mutant: a pass that leaves tasks pending is taken for a deadlock.
EndPassImpatient ==
  /\ status = "running" /\ pos > 0
  /\ \A i \in Pending : i < pos
  /\ IF Pending # {} /\ DeadlockDetect THEN status' = "deadlock" /\ UNCHANGED pos
                                       ELSE pos' = 0 /\ UNCHANGED status
  /\ UNCHANGED <<prog, schedule, syncVars, progress>>

\* The end of a pass; without deadlock_detect an idle pass is repeated.
EndPass ==
  /\ status = "running" /\ pos > 0
  /\ \A i \in Pending : i < pos
  /\ IF ~progress /\ DeadlockDetect THEN status' = "deadlock" /\ UNCHANGED pos
                                    ELSE pos' = 0 /\ UNCHANGED status
  /\ UNCHANGED <<prog, schedule, syncVars, progress>>

\* Nothing is pending: audit the flags and return the result.
Finish ==
  /\ status = "running" /\ pos = 0 /\ Pending = {}
  /\ status' = IF FlagBalanceCheck = "error" /\ Residual THEN "unbalanced" ELSE "done"
  /\ UNCHANGED <<prog, schedule, syncVars, pos, progress>>

Returned == status # "running" /\ UNCHANGED vars

Run ==
  \/ BeginPass \/ EndPass \/ Finish
  \/ \E i \in Tasks : Blocked(i) \/ Schedule(i) \/ CycleLimit(i)

Next == Run \/ WallTimeout \/ Returned

Spec == Init /\ [][Next]_vars

\* The thread in run() is not suspended for ever, and a loop that reads the
\* clock again and again finds execution_timeout_s exceeded in the end.
FairSpec == Spec /\ WF_vars(Run) /\ SF_vars(WallTimeout)

-----------------------------------------------------------------------------
TypeOK ==
  /\ prog \in Seq(Task)
  /\ done \subseteq Tasks
  /\ st \in [Tasks -> Nat]
  /\ en \in [Tasks -> Nat]
  /\ SyncTypeOK
  /\ pos \in 0 .. Len(prog) + 1
  /\ progress \in BOOLEAN
  /\ status \in Failures \cup {"running", "done"}

(***************************************************************************)
(* Every completed task was preceded by all that the program puts before   *)
(* it: the earlier tasks of its pipe, its execution edges, every earlier   *)
(* fence of its lane or pipe, and everything that its barrier drains.  The *)
(* code checks only FIFO tails, the last fence and the last task of a      *)
(* pipe; the rest must follow.                                             *)
(***************************************************************************)
OrderKept ==
  \A i \in done : \A j \in OrderedBefore(i) : j \in done /\ en[j] <= st[i]

Sets(k) == {i \in Tasks : k \in SetKeys(i)}
Waits(k) == {i \in Tasks : k \in WaitKeys(i)}

(***************************************************************************)
(* audit_flag_balance decides exactly whether the program is balanced: a   *)
(* completed run is refused if and only if some local flag, or some waited *)
(* for cross flag, has unequal numbers of sets and waits, or a rendezvous  *)
(* lacks a participant.                                                    *)
(***************************************************************************)
Unbalanced ==
  \/ \E k \in FlagKeys : /\ k[1] = "local" \/ Waits(k) # {}
                         /\ Cardinality(Sets(k)) # Cardinality(Waits(k))
  \/ \E i \in Tasks : /\ IsCollectiveWait(i)
                      /\ Cardinality({j \in Tasks : IsCollectiveWait(j) /\ OwnSlot(j) = OwnSlot(i)})
                         # Cardinality({j \in Tasks : IsCollectiveSet(j) /\ OwnSlot(j) = OwnSlot(i)})
  \/ \E i \in SyncAllTasks :
       ~ SyncAllParticipants(SyncAllScope(i)) \subseteq
           UNION {SyncAllTaskParticipants(j) : j \in {k \in SyncAllTasks : SyncAllKey(k) = SyncAllKey(i)}}

AuditIsExact ==
  /\ status = "unbalanced" => Unbalanced
  /\ status = "done" /\ FlagBalanceCheck = "error" => ~Unbalanced

(***************************************************************************)
(* A deadlock is a fact about the program, not about the order in which    *)
(* the passes took the tasks: when it is reported, every pending task      *)
(* still lacks a predecessor or a match that the program itself fixes.     *)
(* Holds without flag_blocking, which adds the depths of the flags, and    *)
(* where the sets of each flag queue, so that credits have an order.       *)
(***************************************************************************)
DeadlockIsInherent ==
  ~FlagBlocking /\ SetsQueue /\ status = "deadlock" => Pending # {} /\ \A i \in Pending : ~Issuable(i)

(***************************************************************************)
(* With flag_blocking too, no pending task could be scheduled when a       *)
(* deadlock is reported: what the idle pass saw of the earlier tasks still *)
(* holds at its end.                                                       *)
(***************************************************************************)
DeadlockIsGlobal ==
  status = "deadlock" => Pending # {} /\ \A i \in Pending : ~Schedulable(i)

(***************************************************************************)
(* A task after the first sync_all of its lane starts after everything     *)
(* that any participating lane issued before joining that rendezvous.      *)
(***************************************************************************)
FirstRendezvousSeparates ==
  \A i \in done : \A r \in SyncAllRelease(i) :
    SyncAllPhases(r) = {0} =>
      \A k \in Rendezvous(i) : \A j \in Earlier(k) \cup {k} :
        SameLane(j, k) => j \in done /\ en[j] <= st[i]

(***************************************************************************)
(* Every call of run() returns or raises.                                  *)
(***************************************************************************)
Terminates == <>(status # "running")

=============================================================================
