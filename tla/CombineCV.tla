------------------------------- MODULE CombineCV -------------------------------
(***************************************************************************)
(* The pass CombineCV: every operation is given to the core whose buffers  *)
(* it uses, and the kernel becomes two programs with the same loops, one   *)
(* for the Cube core and one for the Vector cores.  Each access of one     *)
(* program to a workspace is paired with the access of the other program   *)
(* that answers it, and a flag that the writer sets and the reader waits   *)
(* for is put beside the two accesses, or beside enclosing loops that run  *)
(* equally often.                                                          *)
(***************************************************************************)
EXTENDS MixedProgram

Concrete(resource) == resource \in {"cube", "vec"}

\* ResourceForCall; "mixed" fails the compilation.
Resource(op) ==
  CASE op.class = "common" -> "none"
    [] op.class \in {"context", "opaque"} -> "explicit"
    [] op.class = "work" ->
         CASE Uses(op) \cap CubeBuffers = {} /\ Uses(op) \cap VecBuffers = {} -> "explicit"
           [] Uses(op) \cap CubeBuffers # {} /\ Uses(op) \cap VecBuffers # {} -> "mixed"
           [] Uses(op) \cap CubeBuffers # {} /\ Uses(op) \cap VecBuffers = {} -> "cube"
           [] Uses(op) \cap CubeBuffers = {} /\ Uses(op) \cap VecBuffers # {} -> "vec"

Owner(op) == IF op.scope # "none" THEN op.scope ELSE Resource(op)
TakesContext(op) == op.class = "context" /\ op.scope = "none"

\* ExactResourceCollector: the resource of a statement, and whether it has an
\* operation that waits for a context.
SummarizeResources(stmt) ==
  LET ops == ToSet(OpsIn(<<stmt>>))
      found == {Owner(op) : op \in {o \in ops : ~TakesContext(o)}} \ {"none"}
  IN [resource |-> CASE found = {} -> "none"
                     [] Cardinality(found) = 1 -> CHOOSE r \in found : TRUE
                     [] Cardinality(found) > 1 -> "explicit",
      context  |-> \E op \in ops : TakesContext(op)]

\* Mutant: the first operation with a core stands for all of the sequence.
FirstResource(summaries) ==
  LET known == {i \in DOMAIN summaries : summaries[i].resource # "none"}
  IN IF known = {} THEN "none" ELSE summaries[Min(known)].resource

RegionResource(summaries) ==
  LET found == {summaries[i].resource : i \in DOMAIN summaries} \ {"none"}
  IN CASE found = {} -> "none"
       [] found \in {{"cube"}, {"vec"}} -> CHOOSE r \in found : TRUE
       [] OTHER -> "explicit"

NearestBefore(summaries, i) ==
  LET known == {j \in 1 .. i - 1 : summaries[j].resource # "none"}
  IN IF known = {} THEN "none" ELSE summaries[Max(known)].resource

NearestAfter(summaries, i) ==
  LET known == {j \in i + 1 .. Len(summaries) : summaries[j].resource # "none"}
  IN IF known = {} THEN "none" ELSE summaries[Min(known)].resource

\* The context of the i-th statement of a sequence.
ChildContext(summaries, i, context) ==
  LET region == RegionResource(summaries)
      around == IF Concrete(region) THEN region ELSE context
      before == NearestBefore(summaries, i)
      after == NearestAfter(summaries, i)
  IN CASE Concrete(summaries[i].resource) -> summaries[i].resource
       [] /\ ~Concrete(summaries[i].resource) /\ ~Concrete(around)
          /\ summaries[i].resource = "none" /\ summaries[i].context
          /\ before = after /\ Concrete(before) -> before
       [] OTHER -> around

\* ContextualResourceResolver.
RECURSIVE Resolve(_, _)
Resolve(s, context) ==
  LET summaries == [i \in DOMAIN s |-> SummarizeResources(s[i])]
      Child(i) == ChildContext(summaries, i, context)
  IN [i \in DOMAIN s |->
       CASE s[i].kind = "op"  -> IF TakesContext(s[i]) /\ Concrete(Child(i))
                                 THEN [s[i] EXCEPT !.scope = Child(i)] ELSE s[i]
         [] s[i].kind = "for" -> [s[i] EXCEPT !.body = Resolve(@, Child(i))]
         [] s[i].kind = "if"  -> [s[i] EXCEPT !.then = Resolve(@, Child(i)),
                                              !.else = Resolve(@, Child(i))]]

\* AscendResourceScopeVerifier.
Verified(s) ==
  \A op \in ToSet(OpsIn(s)) :
    IF op.scope = "none" THEN Resource(op) \notin {"explicit", "mixed"}
    ELSE Resource(op) \in {"none", "explicit", op.scope}

\* Mutant: what belongs to no core in particular is left to one of them.
OnOneSide(op, core) == Owner(op) = core \/ (Owner(op) = "none" /\ core = "cube")

\* CVCombineEmitter: what is left of the operations on a core; loops and branches
\* are on both.
Emitted(op, core) == Owner(op) \in {core, "none"}

-----------------------------------------------------------------------------
\* CrossCoreSyncCollector: the accesses of a core to workspaces, in program order.
\* A path names a statement: its position in each enclosing sequence.
RECURSIVE SyncPoints(_, _, _, _)
SyncPoints(s, core, path, loops) ==
  FlattenSeq([i \in DOMAIN s |->
    LET here == Append(path, i)
        stage == SelectSeq(loops, LAMBDA l : l.role = "stage")
    IN CASE s[i].kind = "op" ->
              IF Emitted(s[i], core) /\ Uses(s[i]) \cap Shared # {}
              THEN <<[workspace |-> CHOOSE w \in Uses(s[i]) \cap Shared : TRUE,
                      writes    |-> s[i].writes \cap Shared # {},
                      loops     |-> loops,
                      at        |-> here,
                      interval  |-> IF stage = <<>> THEN 1 ELSE stage[1].interval]>>
              ELSE <<>>
         [] s[i].kind = "for" ->
              SyncPoints(s[i].body, core, here,
                         Append(loops, [var |-> s[i].var, extent |-> s[i].extent,
                                        symbolic |-> s[i].symbolic, role |-> s[i].role,
                                        interval |-> s[i].interval, at |-> here]))
         [] s[i].kind = "if" ->
              SyncPoints(s[i].then, core, Append(here, 1), loops)
                \o SyncPoints(s[i].else, core, Append(here, 2), loops)])

CollectNonConstSharedLoopIds(cube, vec) ==
  {cube[i].var : i \in {j \in DOMAIN cube \cap DOMAIN vec :
                          cube[j].symbolic /\ cube[j].var = vec[j].var}}

Known(loop, skip) == loop.var \in skip \/ ~loop.symbolic
GetLoopIterTimesWithSkip(loop, skip) == IF loop.var \in skip THEN 1 ELSE loop.extent

\* FindTargetLoopDepth: both lists of enclosing loops are walked from outside, the
\* one with fewer iterations so far first, and the last pair of depths at which
\* the products of the extents agree is kept.  ok is FALSE when the extent of a
\* loop on the way is not known.
RECURSIVE FindDepths(_, _, _, _)
FindDepths(cube, vec, skip, w) ==
  LET cubeNext == cube[w.cubeIdx + 1]
      vecNext == vec[w.vecIdx + 1]
      Paired(v) == IF v.cubeTimes # v.vecTimes THEN v
                   ELSE [v EXCEPT !.cube = v.cubeIdx, !.vec = v.vecIdx, !.last = v.cubeTimes]
      CubeGoes == /\ w.cubeIdx < Len(cube)
                  /\ w.cubeTimes <= w.vecTimes \/ GetLoopIterTimesWithSkip(cubeNext, skip) = 1
      VecGoes == /\ w.vecIdx < Len(vec)
                 /\ w.vecTimes <= w.cubeTimes \/ GetLoopIterTimesWithSkip(vecNext, skip) = 1
      CubeStep == [Paired(w) EXCEPT !.cubeIdx = @ + 1,
                                    !.cubeTimes = @ * GetLoopIterTimesWithSkip(cubeNext, skip),
                                    !.ok = @ /\ Known(cubeNext, skip)]
      Stepped == [Paired(w) EXCEPT !.vecIdx = @ + 1,
                                   !.vecTimes = @ * GetLoopIterTimesWithSkip(vecNext, skip),
                                   !.ok = @ /\ Known(vecNext, skip), !.turn = "vec"]
      VecStep == IF Stepped.vecTimes = Stepped.last
                 THEN [Stepped EXCEPT !.vec = Stepped.vecIdx] ELSE Stepped
  IN CASE ~w.ok -> w
       [] w.ok /\ w.turn = "cube" /\ CubeGoes -> FindDepths(cube, vec, skip, CubeStep)
       [] w.ok /\ ~(w.turn = "cube" /\ CubeGoes) /\ VecGoes ->
            FindDepths(cube, vec, skip, VecStep)
       [] w.ok /\ w.turn = "vec" /\ ~VecGoes /\ CubeGoes ->
            FindDepths(cube, vec, skip, [w EXCEPT !.turn = "cube"])
       [] w.ok /\ ~CubeGoes /\ ~VecGoes ->
            [Paired(w) EXCEPT
               !.ok = /\ w.cubeIdx < Len(cube) => Known(cubeNext, skip)
                      /\ w.vecIdx < Len(vec) => Known(vecNext, skip)]

\* Mutant: the flags stay beside the accesses, however often each side runs.
BesideTheAccesses(cube, vec) == [ok |-> TRUE, cube |-> Len(cube), vec |-> Len(vec)]

FindTargetLoopDepth(cube, vec) ==
  FindDepths(cube, vec, CollectNonConstSharedLoopIds(cube, vec),
             [cubeIdx |-> 0, vecIdx |-> 0, cubeTimes |-> 1, vecTimes |-> 1,
              cube |-> 0, vec |-> 0, last |-> 1, turn |-> "cube", ok |-> TRUE])

-----------------------------------------------------------------------------
OfWorkspace(points, w) == SelectSeq(points, LAMBDA sp : sp.workspace = w)
Ordinal(points, i) == Cardinality({j \in 1 .. i : points[j].workspace = points[i].workspace})
Partner(points, i, others) == OfWorkspace(others, points[i].workspace)[Ordinal(points, i)]

\* The i-th access to a workspace on one side is paired with the i-th on the other.
Consistent(cube, vec) ==
  \A w \in {cube[i].workspace : i \in DOMAIN cube} :
    LET c == OfWorkspace(cube, w)  v == OfWorkspace(vec, w)
    IN Len(c) = Len(v) /\ \A i \in DOMAIN c : c[i].writes # v[i].writes

\* Pairs are numbered by workspace, in the order of the names.
SyncFlagId(cube, points, i) ==
  LET Position(w) == CHOOSE n \in DOMAIN Workspaces : Workspaces[n] = w
      earlier == {j \in DOMAIN cube :
                    Position(cube[j].workspace) < Position(points[i].workspace)}
  IN Cardinality(earlier) + Ordinal(points, i) - 1

\* A flag beside the enclosing loop at the depth found, if there is one.  bound
\* is FALSE if its condition is outside the stage loop whose variable it names.
Placed(sp, id, depth) ==
  [flag     |-> id,
   writes   |-> sp.writes,
   interval |-> sp.interval,
   at       |-> IF depth < Len(sp.loops) THEN sp.loops[depth + 1].at ELSE sp.at,
   bound    |-> \/ sp.interval = 1
                \/ \E i \in 1 .. depth : sp.loops[i].role = "stage"]

CubeFlags(cube, vec) ==
  [i \in DOMAIN cube |->
     Placed(cube[i], SyncFlagId(cube, cube, i),
            FindTargetLoopDepth(cube[i].loops, Partner(cube, i, vec).loops).cube)]

\* Only the workspaces of the Cube side are paired: an access to another one keeps
\* the number it was collected with.
VecFlags(cube, vec) ==
  [i \in DOMAIN vec |->
     IF OfWorkspace(cube, vec[i].workspace) = <<>>
     THEN Placed(vec[i], i - 1, Len(vec[i].loops))
     ELSE Placed(vec[i], SyncFlagId(cube, vec, i),
                 FindTargetLoopDepth(Partner(vec, i, cube).loops, vec[i].loops).vec)]

DepthsFound(cube, vec) ==
  \A i \in DOMAIN cube : FindTargetLoopDepth(cube[i].loops, Partner(cube, i, vec).loops).ok

\* Mutant: the last iteration of a group sets its flag only if the group is full.
FullGroupsOnly(f, i, extent) ==
  IF f.writes THEN i % f.interval = f.interval - 1 ELSE i % f.interval = 0

GenSyncCondition(f, i, extent) ==
  IF f.writes THEN i % f.interval = f.interval - 1 \/ i = extent - 1
  ELSE i % f.interval = 0

AttachSyncStmt(f, code, i, extent) ==
  IF ~GenSyncCondition(f, i, extent) THEN code
  ELSE IF f.writes THEN code \o <<[kind |-> "set", flag |-> f.flag]>>
       ELSE <<[kind |-> "wait", flag |-> f.flag]>> \o code

\* A condition that names a variable it is not in the scope of fails when the code
\* is compiled.
Synchronized(resolved, cube, vec) ==
  LET flags == IF Consistent(cube, vec)
               THEN [cube |-> CubeFlags(cube, vec), vec |-> VecFlags(cube, vec)]
               ELSE [cube |-> <<>>, vec |-> <<>>]
  IN [ok    |-> /\ Verified(resolved) /\ Consistent(cube, vec) /\ DepthsFound(cube, vec)
                /\ \A flag \in ToSet(flags.cube) \cup ToSet(flags.vec) : flag.bound,
      body  |-> resolved,
      flags |-> flags]

\* The pass, with automatic cross-core synchronization.
Split(resolved) ==
  Synchronized(resolved, SyncPoints(resolved, "cube", <<>>, <<>>),
                         SyncPoints(resolved, "vec", <<>>, <<>>))

CombinePass(body) == Split(Resolve(body, "none"))
=============================================================================
