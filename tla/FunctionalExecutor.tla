-------------------------- MODULE FunctionalExecutor --------------------------
(***************************************************************************)
(* FunctionalSimulator.run of tilelang/simulator/executor.py: the schedule *)
(* of EventScheduler, and then the operations themselves, one after the    *)
(* other in an order that heeds all Task.dependencies, the inferred memory *)
(* edges included, which the scheduler leaves to the program's flags.      *)
(***************************************************************************)
EXTENDS EventScheduler

VARIABLES
  ordered,  \* the tasks executed, in their order
  outcome   \* "none", "executed", or "unsupported" (UnsupportedSimOpError)

Executed == {ordered[k] : k \in DOMAIN ordered}

\* _execute has a branch for every marker except sync_all.
Supported(i) == prog[i].op # "sync_all"

\* The heap: tasks with no dependency left.
Ready == {i \in Tasks \ Executed : prog[i].deps \subseteq Executed}

\* Mutant: the heap is keyed by the end of the tasks.
EndsFirst(i, j) == en[i] < en[j] \/ (en[i] = en[j] /\ st[i] <= st[j])

\* schedule_rank, up to the task ids that break the ties.
RankedBefore(i, j) == st[i] < st[j] \/ (st[i] = st[j] /\ en[i] <= en[j])

Execute(i) ==
  /\ status = "done" /\ outcome = "none"
  /\ i \in Ready
  /\ \A j \in Ready : RankedBefore(i, j)
  /\ IF Supported(i)
     THEN /\ ordered' = Append(ordered, i)
          /\ outcome' = IF Len(ordered') = Len(prog) THEN "executed" ELSE outcome
     ELSE outcome' = "unsupported" /\ UNCHANGED ordered
  /\ UNCHANGED vars

\* The order of no tasks at all.
ExecuteNothing ==
  /\ status = "done" /\ outcome = "none" /\ Tasks = {}
  /\ outcome' = "executed"
  /\ UNCHANGED <<vars, ordered>>

ExecutionInit == Init /\ ordered = <<>> /\ outcome = "none"

\* The schedule is complete before anything is executed, and a scheduler that
\* raises ends run().
Ended == status # "running" /\ (status = "done" => outcome # "none")

ExecutionNext ==
  \/ (Run \/ WallTimeout) /\ UNCHANGED <<ordered, outcome>>
  \/ ExecuteNothing
  \/ \E i \in Tasks : Execute(i)
  \/ Ended /\ UNCHANGED <<vars, ordered, outcome>>

ExecutionSpec == ExecutionInit /\ [][ExecutionNext]_<<vars, ordered, outcome>>

-----------------------------------------------------------------------------
\* The schedule violates no dependency, inferred ones included.
Undisturbed == \A i \in Tasks : \A d \in prog[i].deps : en[d] <= st[i]

(***************************************************************************)
(* The values are those of the schedule: when the program's flags and      *)
(* barriers alone keep every inferred dependency, operations are applied   *)
(* in the order in which the schedule starts them, so a task that the      *)
(* hardware would order after another is executed after it.  Only a        *)
(* schedule that breaks an inferred edge is executed in another order.     *)
(***************************************************************************)
ExecutedAsScheduled ==
  status = "done" /\ Undisturbed =>
    \A k, l \in DOMAIN ordered :
      k < l => /\ st[ordered[k]] <= st[ordered[l]]
               /\ ordered[l] \notin OrderedBefore(ordered[k])

=============================================================================
