---------------------------- MODULE SoftwarePipeline ----------------------------
(***************************************************************************)
(* The passes PipelinePlanning and InjectSoftwarePipeline, on the program  *)
(* of one core.  Planning gives every statement of a pipelined loop a      *)
(* stage, the number of iterations it lags behind, and an order within     *)
(* them: copies from global memory run ahead of the work that uses them.   *)
(* Injection checks the plan, keeps several versions of the buffers that   *)
(* live across stages, and emits the loop as a prologue, a body and an     *)
(* epilogue.                                                               *)
(***************************************************************************)
EXTENDS CrossCorePipeline, CombineCV

\* What a core executes of a statement; the rest are no-ops.
OpsOn(stmt, core) == SelectSeq(OpsIn(<<stmt>>), LAMBDA op : Emitted(op, core))
Reads(stmt, core) == UNION {op.reads : op \in ToSet(OpsOn(stmt, core))}
Writes(stmt, core) == UNION {op.writes : op \in ToSet(OpsOn(stmt, core))}

\* GetGlobalCopyPattern: a buffer is written after global memory has been read.
CopyStage(stmt, core) ==
  LET ops == OpsOn(stmt, core)
  IN \E i, j \in DOMAIN ops :
       i <= j /\ ops[i].reads \ Local # {} /\ ops[j].writes \cap Local # {}

HasOnlyEmptyStageBodies(s, core) == \A i \in DOMAIN s : OpsOn(s[i], core) = <<>>

\* A loop with buffers of its own has a block, and its statements may be under
\* one condition there.
UnderCondition(loop, body) ==
  /\ Len(loop.body) = 1 /\ loop.body[1].kind = "if"
  /\ DeclaredIn(loop, body) \cap UsedIn(loop.body) # {}

PipelineBody(loop, body) ==
  IF UnderCondition(loop, body) THEN loop.body[1].then ELSE loop.body

-----------------------------------------------------------------------------
\* PipelinePlanning.  The last statement that reads what statement i copies; 0 if
\* none does, or if it is no copy.
LastUseStage(s, core, i) ==
  LET users == {j \in i + 1 .. Len(s) : Writes(s[i], core) \cap Reads(s[j], core) # {}}
  IN IF CopyStage(s[i], core) /\ users # {} THEN Max(users) ELSE 0

WrittenAgain(s, core) ==
  \E i, j \in DOMAIN s :
    i < j /\ CopyStage(s[i], core) /\ Writes(s[i], core) \cap Writes(s[j], core) # {}

\* Statements in the order of the main stage, each followed by the copies that it
\* is the last to use.
MainOrder(s, core) ==
  FlattenSeq([i \in DOMAIN s |->
    IF LastUseStage(s, core, i) # 0 THEN <<>>
    ELSE <<i>> \o SetToSortSeq({k \in DOMAIN s : LastUseStage(s, core, k) = i}, <)])

\* Copies that only other copies use come first.  The orders of the statements
\* are shifted from a position on, not from an order on.
PlaceUnassigned(orders) ==
  LET Place(a, k) ==
        IF a.order[k] # a.next THEN a
        ELSE [order |-> [i \in DOMAIN a.order |->
                           IF i > a.next + 1 THEN a.order[i] + 1 ELSE a.order[i]],
              next  |-> a.next + 1,
              count |-> a.count + 1]
  IN FoldLeft(Place, [order |-> orders, next |-> -1, count |-> 0],
              [k \in DOMAIN orders |-> k])

\* A copy with a later use is in stage 0, and the work is num_stages behind.
Scheduled(s, core, stages, main) ==
  LET placed == PlaceUnassigned([i \in DOMAIN s |->
                  IF i \in ToSet(main) THEN CHOOSE n \in 0 .. Len(s) - 1 : main[n + 1] = i
                  ELSE -1])
  IN [ok    |-> Len(s) > 1 /\ ~WrittenAgain(s, core) /\ Len(main) + placed.count = Len(s),
      order |-> placed.order,
      stage |-> [i \in DOMAIN s |-> IF LastUseStage(s, core, i) # 0 THEN 0 ELSE stages]]

CopiesAtEnd(order, copies) ==
  /\ \A i \in copies : order[i] > 0
  /\ \A i \in copies, j \in DOMAIN order \ copies : order[i] > order[j]

\* When all copies are at the end, they are moved to the beginning, and the other
\* statements lag by one iteration less.
MoveCopies(stages, plan, copies) ==
  IF stages >= 2 /\ copies # {} /\ CopiesAtEnd(plan.order, copies)
  THEN [plan EXCEPT !.order = [i \in DOMAIN @ |-> (@[i] + Cardinality(copies)) % Len(@)],
                    !.stage = [i \in DOMAIN @ |-> IF i \in copies THEN @[i] ELSE @[i] - 1]]
  ELSE plan

PlanLoop(s, core, stages) ==
  MoveCopies(stages, Scheduled(s, core, stages, MainOrder(s, core)),
             {i \in DOMAIN s : CopyStage(s[i], core)})

-----------------------------------------------------------------------------
\* InjectSoftwarePipeline.  Every statement runs after those before it that write
\* what it reads.
ValidatePipelineBody(s, core, plan) ==
  /\ IsInjective(plan.order)
  /\ \A i, j \in DOMAIN s :
       i < j /\ Writes(s[i], core) \cap Reads(s[j], core) # {} =>
         \/ plan.stage[i] < plan.stage[j]
         \/ plan.stage[i] = plan.stage[j] /\ plan.order[i] < plan.order[j]

\* Mutant: a version for each iteration between, and none for the one being written.
OneFewer(s, core, plan, b) ==
  LET writers == {i \in DOMAIN s : b \in Writes(s[i], core)}
      readers == {i \in DOMAIN s : b \in Reads(s[i], core)}
  IN IF writers = {} \/ readers = {} THEN 1
     ELSE Max({1, Max({plan.stage[i] : i \in readers}) - Min({plan.stage[i] : i \in writers})})

ComputeBufferVersions(s, core, plan, b) ==
  LET writers == {i \in DOMAIN s : b \in Writes(s[i], core)}
      readers == {i \in DOMAIN s : b \in Reads(s[i], core)}
      bound == Max({plan.stage[i] : i \in readers}) - Min({plan.stage[i] : i \in writers}) + 1
      written == \E i \in writers, j \in readers :
                   plan.order[i] < plan.order[j] /\ plan.stage[i] < plan.stage[j]
  IN IF writers = {} \/ readers = {} THEN 1
     ELSE Max({1, IF bound >= 2 /\ ~written THEN bound - 1 ELSE bound})

\* EmitImpl, for prologue, body and epilogue: at time t a statement executes the
\* iteration that lies its stage back, if there is one and the condition is true.
Emission(loop, body, plan) ==
  LET s == PipelineBody(loop, body)
      last == Max(ToSet(plan.stage))
      times == [n \in 1 .. last |-> n - 1]
                 \o [n \in 1 .. loop.extent - last |-> last + n - 1]
                 \o [n \in 1 .. last |-> loop.extent + n - 1]
      ordered == SetToSortSeq(DOMAIN s, LAMBDA i, j : plan.order[i] < plan.order[j])
      Executed(t) ==
        [n \in DOMAIN ordered |->
           [stmt |-> s[ordered[n]],
            at   |-> IF UnderCondition(loop, body) THEN <<1, 1, ordered[n]>> ELSE <<ordered[n]>>,
            turn |-> t - plan.stage[ordered[n]]]]
      InBound(e) ==
        /\ e.turn \in 0 .. loop.extent - 1
        /\ UnderCondition(loop, body) => loop.min + e.turn \in loop.body[1].when
  IN FlattenSeq([n \in DOMAIN times |-> SelectSeq(Executed(times[n]), InBound)])

-----------------------------------------------------------------------------
\* The pipelined loops that are left on a core, with statements of that core.
SoftwarePipelined(loop, core) ==
  loop.role = "pipelined" /\ ~HasOnlyEmptyStageBodies(loop.body, core)

PlanOf(loop, body, core) == PlanLoop(PipelineBody(loop, body), core, loop.stages)

Sound(loop, body, core, plan) ==
  /\ plan.ok
  /\ UnderCondition(loop, body) => loop.body[1].else = <<>>
  /\ ValidatePipelineBody(PipelineBody(loop, body), core, plan)

RECURSIVE Injected(_, _, _)
Injected(s, body, core) ==
  [i \in DOMAIN s |->
    CASE s[i].kind = "op"  -> s[i]
      [] s[i].kind = "for" ->
           IF SoftwarePipelined(s[i], core)
           THEN [s[i] EXCEPT !.role = "injected",
                             !.emission = Emission(s[i], body, PlanOf(s[i], body, core))]
           ELSE [s[i] EXCEPT !.body = Injected(@, body, core)]
      [] s[i].kind = "if"  -> [s[i] EXCEPT !.then = Injected(@, body, core),
                                           !.else = Injected(@, body, core)]]

\* Both passes.  A buffer that is allocated in a pipelined loop has its versions.
SoftwarePass(body, core) ==
  LET loops == {loop \in ToSet(LoopsIn(body)) : SoftwarePipelined(loop, core)}
      Of(b) == {loop \in loops : b \in DeclaredIn(loop, body)}
      Versions(loop, b) ==
        ComputeBufferVersions(PipelineBody(loop, body), core, PlanOf(loop, body, core), b)
  IN IF \A loop \in loops : Sound(loop, body, core, PlanOf(loop, body, core))
     THEN [ok       |-> TRUE,
           body     |-> Injected(body, body, core),
           versions |-> [b \in Local |-> Max({Versions(loop, b) : loop \in Of(b)} \cup {1})]]
     ELSE [ok |-> FALSE, body |-> <<>>, versions |-> <<>>]
=============================================================================
