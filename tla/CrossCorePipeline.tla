--------------------------- MODULE CrossCorePipeline ---------------------------
(***************************************************************************)
(* The pass CrossCorePipeline.  A pipelined loop whose operations belong   *)
(* to both cores is cut into stages, one for each run of statements of one *)
(* core; every stage becomes a loop over num_stages iterations, inside an  *)
(* outer loop over the groups of them.  Workspaces, and the buffers that   *)
(* carry a value from one stage to another, get a copy per iteration of    *)
(* the group.                                                              *)
(***************************************************************************)
EXTENDS MixedProgram

checkBufferScope(b) ==
  IF b \in CubeBuffers THEN "cube" ELSE IF b \in VecBuffers THEN "vec" ELSE "invalid"

\* The scope of the first argument that has one; an operation without
\* arguments keeps the scope of the one before it.
ScopeOf(op, before) ==
  IF Uses(op) = {} THEN before
  ELSE IF Uses(op) \cap Local = {} THEN "invalid"
       ELSE checkBufferScope(CHOOSE b \in Uses(op) \cap Local : TRUE)

DetectScope(s) ==
  LET known == SelectSeq(OpsIn(s), LAMBDA op : ScopeOf(op, "invalid") # "invalid")
  IN IF known = <<>> THEN "invalid" ELSE ScopeOf(known[1], "invalid")

CrossesCores(loop) ==
  /\ loop.role = "pipelined"
  /\ {"cube", "vec"} \subseteq {ScopeOf(op, "invalid") : op \in ToSet(OpsIn(loop.body))}

\* LoopAnalyzer: the statements of the loop body with their scopes, and the
\* scope of the operation visited last.  An inner loop is one statement, of that
\* scope.  The statements of a branch are listed, and after them the branch
\* itself, unless its two sides belong to different cores.
RECURSIVE Analyze(_, _)
Analyze(s, state) ==
  LET Listed(a, stmt, scope) ==
        IF scope = "invalid" THEN a
        ELSE [a EXCEPT !.list = Append(@, [stmt |-> stmt, scope |-> scope])]
      VisitOp(a, op) ==
        LET scope == ScopeOf(op, a.scope) IN Listed([a EXCEPT !.scope = scope], op, scope)
      VisitFor(a, loop) ==
        LET inner == Analyze(loop.body, a)
        IN IF inner.list = a.list THEN inner
           ELSE [inner EXCEPT !.list = Append(a.list, [stmt |-> loop, scope |-> inner.scope])]
      VisitIf(a, branch) ==
        LET inner == Analyze(branch.else, Analyze(branch.then, a))
            scopes == {DetectScope(branch.then), DetectScope(branch.else)} \ {"invalid"}
        IN IF Cardinality(scopes) = 1
           THEN Listed(inner, branch, CHOOSE scope \in scopes : TRUE)
           ELSE inner
      Visit(a, stmt) ==
        CASE stmt.kind = "op"  -> VisitOp(a, stmt)
          [] stmt.kind = "for" -> VisitFor(a, stmt)
          [] stmt.kind = "if"  -> VisitIf(a, stmt)
  IN FoldLeft(Visit, state, s)

AllStatements(loop) == Analyze(loop.body, [list |-> <<>>, scope |-> "invalid"]).list

SplitIntoStages(list) ==
  LET Put(stages, info) ==
        IF stages # <<>> /\ Last(Last(stages)).scope = info.scope
        THEN [stages EXCEPT ![Len(stages)] = Append(@, info)]
        ELSE Append(stages, <<info>>)
  IN FoldLeft(Put, <<>>, list)

Body(stage) == [i \in DOMAIN stage |-> stage[i].stmt]

\* Whether a read of the target (the whole buffer, or a slice of it at an unknown
\* offset) can come before every write that covers it.
RECURSIVE CheckExposedRead(_, _, _, _)
CheckExposedRead(s, b, slice, covered) ==
  LET Visit(a, stmt) ==
        LET under == covered \/ a.kills
            then == CheckExposedRead(stmt.then, b, slice, under)
            else == CheckExposedRead(stmt.else, b, slice, under)
            found ==
              CASE stmt.kind = "op"  -> [exposed |-> b \in stmt.reads /\ ~under,
                                         kills   |-> b \in stmt.writes \ stmt.sliced /\ ~slice]
                [] stmt.kind = "for" -> CheckExposedRead(stmt.body, b, slice, under)
                [] stmt.kind = "if"  -> [exposed |-> then.exposed \/ else.exposed,
                                         kills   |-> then.kills /\ else.kills]
        IN [exposed |-> a.exposed \/ found.exposed, kills |-> a.kills \/ found.kills]
  IN FoldLeft(Visit, [exposed |-> FALSE, kills |-> FALSE], s)

StagesUsing(stages, b) == {i \in DOMAIN stages : b \in UsedIn(Body(stages[i]))}

\* Mutant: the stages that read a buffer before they write it are not looked for.
NothingCarried(stages) == {}

AnalyzeSharedBuffers(stages) ==
  {b \in Local :
     /\ Cardinality(StagesUsing(stages, b)) > 1
     /\ \E i \in StagesUsing(stages, b) :
          \E op \in ToSet(OpsIn(Body(stages[i]))) :
            /\ b \in op.reads
            /\ CheckExposedRead(Body(stages[i]), b, b \in op.sliced, FALSE).exposed}

-----------------------------------------------------------------------------
\* The workspaces of inner loops are not looked up.
GetAllBuffersToAdjust(loop) ==
  LET list == AllStatements(loop)
      ops == {list[i].stmt : i \in {j \in DOMAIN list : list[j].stmt.kind = "op"}}
  IN AnalyzeSharedBuffers(SplitIntoStages(list))
       \cup (UNION {Uses(op) : op \in ops} \cap Shared)

\* A buffer is declared in the block of the loop when it is used nowhere else.
DeclaredIn(loop, body) ==
  {b \in Local :
     \A op \in ToSet(OpsIn(body)) : b \in Uses(op) => op \in ToSet(OpsIn(loop.body))}

\* The arrays that are accessed at the copy of the iteration, in a stage loop.
AdjustBuffersAndAccess(loop, body) ==
  LET found == GetAllBuffersToAdjust(loop)
  IN IF found = {} THEN {} ELSE Shared \cup (found \cap DeclaredIn(loop, body))

\* The arrays that have num_stages copies: the workspaces (TransformBufferMap), and
\* the buffers of the loop that carry a value between stages.
ExtendAllBuffers(loop, body) ==
  Shared \cup (AnalyzeSharedBuffers(SplitIntoStages(AllStatements(loop)))
                 \cap DeclaredIn(loop, body))

ModifyOuterLoop(loop, inner) ==
  [For(loop.var,
       IF loop.symbolic THEN loop.extent * loop.stages ELSE loop.extent \div loop.stages,
       inner)
     EXCEPT !.role = "outer", !.min = loop.min, !.symbolic = loop.symbolic]

\* Mutant: one iteration more than there are copies.
OneMore(loop, stage) ==
  [For("i", loop.stages + 1, Body(stage))
     EXCEPT !.role = "stage", !.stages = loop.stages, !.interval = loop.interval]

CreateStagedLoop(loop, stage) ==
  [For("i", loop.stages, Body(stage))
     EXCEPT !.role = "stage", !.stages = loop.stages, !.interval = loop.interval]

\* Nothing is done to a loop that writes no global array.
Rewrites(loop) ==
  CrossesCores(loop) /\ \E op \in ToSet(OpsIn(loop.body)) : op.writes \ Local # {}

ProcessCrossCorePipeline(loop) ==
  LET stages == SplitIntoStages(AllStatements(loop))
  IN ModifyOuterLoop(loop, [i \in DOMAIN stages |-> CreateStagedLoop(loop, stages[i])])

CrossCorePipelines(body) == SelectSeq(LoopsIn(body), CrossesCores)

RECURSIVE Rewritten(_)
Rewritten(s) ==
  [i \in DOMAIN s |->
    CASE s[i].kind = "op"  -> s[i]
      [] s[i].kind = "for" -> IF Rewrites(s[i]) THEN ProcessCrossCorePipeline(s[i])
                              ELSE [s[i] EXCEPT !.body = Rewritten(@)]
      [] s[i].kind = "if"  -> [s[i] EXCEPT !.then = Rewritten(@), !.else = Rewritten(@)]]

\* The pass: at most one loop crosses the cores, or the compilation fails.
PipelinePass(body) ==
  LET loops == CrossCorePipelines(body)
      one == Len(loops) = 1
  IN [ok        |-> Len(loops) <= 1,
      body      |-> IF one THEN Rewritten(body) ELSE body,
      versioned |-> IF one /\ Rewritten(body) # body
                    THEN AdjustBuffersAndAccess(loops[1], body) ELSE {},
      copies    |-> [b \in Local \cup Shared |->
                       IF one /\ b \in ExtendAllBuffers(loops[1], body)
                       THEN loops[1].stages ELSE 1]]
=============================================================================
