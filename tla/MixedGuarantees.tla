---------------------------- MODULE MixedGuarantees ----------------------------
(***************************************************************************)
(* What the passes rely on and do not check, as predicates on the      *)
(* source of a kernel, and what they then guarantee of its execution.      *)
(***************************************************************************)
EXTENDS MixedKernel

\* The operations of the source that access workspaces, in order.
Accesses(body) == SelectSeq(OpsIn(body), LAMBDA op : Uses(op) \cap Shared # {})

\* Every access to a workspace by a write is followed by a read of the other core.
HandsOver(body) ==
  \A w \in Shared :
    LET a == SelectSeq(OpsIn(body), LAMBDA op : w \in Uses(op))
    IN /\ Len(a) % 2 = 0
       /\ \A i \in 1 .. Len(a) \div 2 :
            /\ w \in a[2 * i - 1].writes /\ w \in a[2 * i].reads
            /\ Owner(a[2 * i - 1]) # Owner(a[2 * i])

\* Loops are recognised by their names.
DistinctLoops(body) ==
  LET loops == LoopsIn(body)
  IN \A i, j \in DOMAIN loops : loops[i].var = loops[j].var => i = j

\* What pairs the flags.
Paired(body) == HandsOver(body) /\ DistinctLoops(body)

\* The groups of num_stages iterations make up the loop.
Divides(loop) ==
  ~loop.symbolic /\ loop.min = 0 /\ loop.extent % loop.stages = 0

\* Every operation has a scope or follows one that has.
AllPlaced(loop) ==
  ToSet(OpsIn(Body(AllStatements(loop)))) = ToSet(OpsIn(loop.body))

\* The pipelined loops that CrossCorePipeline leaves as they are.
SoftwarePipelines(body) ==
  {loop \in ToSet(LoopsIn(body)) : loop.role = "pipelined" /\ ~Rewrites(loop)}

\* The source's iterations are the ones that the cores execute: a loop that is
\* shorter than its pipeline has a prologue and an epilogue that overlap.
Staged(body) ==
  /\ ~Branches(body)
  /\ \A loop \in SoftwarePipelines(body) : loop.extent >= loop.stages
  /\ \A i \in DOMAIN CrossCorePipelines(body) :
       Divides(CrossCorePipelines(body)[i]) /\ AllPlaced(CrossCorePipelines(body)[i])

\* A buffer of several stages that the loop writes is one of the loop alone, and
\* holds a value of the iteration that reads it.
OwnIteration(loop, source, b) ==
  \A i \in DOMAIN source :
    LET from == Expected(source, Instance(source[i]), b)
        Turns(it) == {n \in 0 .. loop.extent : <<loop.var, n>> \in ToSet(it)}
    IN Turns(source[i].it) # {} /\ b \in source[i].reads =>
         from # {} /\ \A x \in from : Turns(x[2]) = Turns(source[i].it)

LocalsKept(k) ==
  \A i \in DOMAIN CrossCorePipelines(BodyOf[k]) :
    LET loop == CrossCorePipelines(BodyOf[k])[i]
        stages == SplitIntoStages(AllStatements(loop))
    IN \A b \in Local :
         /\ Cardinality(StagesUsing(stages, b)) > 1
         /\ \E op \in ToSet(OpsIn(loop.body)) : b \in op.writes
         => b \in DeclaredIn(loop, BodyOf[k]) /\ OwnIteration(loop, SourceOf(k), b)

\* A buffer that a copy and another statement of a loop use is one of the loop
\* alone, is written by one of them, and holds a value of the iteration.
UsedAhead(s, core, b) ==
  LET users == {i \in DOMAIN s : b \in Reads(s[i], core) \cup Writes(s[i], core)}
  IN Cardinality(users) > 1 /\ \E i \in users : CopyStage(s[i], core)

KeptAhead(k) ==
  \A loop \in SoftwarePipelines(BodyOf[k]), core \in {"cube", "vec"}, b \in Local :
    LET s == PipelineBody(loop, BodyOf[k])
        writers == {i \in DOMAIN s : b \in Writes(s[i], core)}
    IN UsedAhead(s, core, b) /\ writers # {} =>
         /\ b \in DeclaredIn(loop, BodyOf[k])
         /\ Cardinality(writers) = 1
         /\ OwnIteration(loop, SourceOf(k), b)

\* All accesses to workspaces are directly in one loop.
OneLoop(body) ==
  \E s \in {body} \cup {LoopsIn(body)[i].body : i \in DOMAIN LoopsIn(body)} :
    SelectSeq(s, LAMBDA st : st.kind = "op" /\ Uses(st) \cap Shared # {}) = Accesses(body)

\* Between a read of a workspace and the next write to it, by the other core, in
\* this iteration or the next, that core reads what the reader writes afterwards.
Returns(body) ==
  LET a == Accesses(body) \o Accesses(body)
      Of(i) == CHOOSE w \in Uses(a[i]) \cap Shared : TRUE
      HandOver(i, j) ==
        /\ i < j /\ Of(i) = Of(j) /\ Of(i) \in a[i].writes
        /\ \A m \in i + 1 .. j - 1 : Of(m) # Of(i)
  IN \A i, j \in DOMAIN a :
       /\ i < j /\ Of(i) = Of(j) /\ Of(i) \in a[i].reads /\ Of(j) \in a[j].writes
       /\ \A m \in i + 1 .. j - 1 : Of(m) # Of(i)
       => \/ Owner(a[i]) = Owner(a[j])
          \/ \E m, n \in i + 1 .. j - 1 : HandOver(m, n) /\ Owner(a[m]) = Owner(a[i])

PairedKernels == {k \in Kernels : Paired(BodyOf[k])}
StagedKernels == {k \in Kernels : Staged(BodyOf[k])}

\* The source's values reach their readers, if nothing is overwritten too early.
DeliveringKernels == {k \in PairedKernels \cap StagedKernels : 
                          OneLoop(BodyOf[k]) /\ LocalsKept(k) /\ KeptAhead(k)}
ReturningKernels == {k \in DeliveringKernels : Returns(BodyOf[k])}
AheadKernels == {k \in Kernels : CrossCorePipelines(BodyOf[k]) = <<>> /\ KeptAhead(k)}

-----------------------------------------------------------------------------
\* Programs are executed in bounds, flags are counted, and no access goes to a copy
\* of an array that TransformBufferMap and ExtendAllBuffers did not make.
MixedTypeOK ==
  /\ kernel \in Kernels
  /\ phase \in {"source", "piped", "split", "running", "done", "hung", "failed"}
  /\ \A p \in Cores : pc[p] \in 1 .. Len(CodeOf(p)) + 1
  /\ IsABag(credits)
  /\ \A part \in DOMAIN memory :
       /\ part[1] \in Cores /\ part[2] \in Local \cup Shared
       /\ \/ part[3] \in 0 .. program.copies[part[2]] - 1
          \/ part[2] \in Local /\ part[3] \in 0 .. program.versions[part[2]] - 1

\* A kernel whose workspaces are handed over in turn never leaves a core waiting
\* for a flag that no one will set, and ends with every flag used: the loops that
\* FindTargetLoopDepth puts the two flags of a pair beside run equally often on
\* the two cores, and so do the conditions of GenSyncCondition.
FlagsMeet ==
  kernel \in PairedKernels =>
    /\ phase # "hung"
    /\ phase = "done" => credits = EmptyBag

Executed(p, id) ==
  Cardinality({i \in 1 .. pc[p] - 1 :
                 CodeOf(p)[i].kind = "op" /\ CodeOf(p)[i].id = id})
InAll(p, id) ==
  Cardinality({i \in DOMAIN CodeOf(p) :
                 CodeOf(p)[i].kind = "op" /\ CodeOf(p)[i].id = id})

\* The operation that writes what a read of a workspace is for.
WriterOf(e) ==
  LET a == Accesses(BodyOf[kernel])
      here == CHOOSE i \in DOMAIN a : a[i].id = e.id
  IN a[Max({i \in 1 .. here - 1 : Uses(a[i]) \cap Shared = e.reads \cap Shared})]

About(p) == phase = "running" /\ ~Ended(p) /\ Event(p).kind = "op"

\* Reading never runs ahead of writing: when a core begins the n-th of its N reads
\* of a workspace, every core that writes it has done at least n/N of its writes,
\* whatever the loops around the two accesses and whatever cross_interval.
ReadsFollowWrites ==
  \A p \in Cores :
    LET writer == WriterOf(Event(p))
        writers == IF p = 0 THEN Lanes ELSE {0}
    IN kernel \in PairedKernels /\ About(p) /\ Event(p).reads \cap Shared # {} =>
         \A q \in writers :
           (Executed(p, Event(p).id) + 1) * InAll(q, writer.id)
             <= Executed(q, writer.id) * InAll(p, Event(p).id)

Faithful(p, arrays) ==
  \A b \in Event(p).reads \cap arrays :
    \A part \in Parts(p, Event(p), b) :
      At(part) = Expected(SourceOf(kernel), Instance(Event(p)), b)

\* Splitting and pipelining are invisible: every operation of either core reads,
\* from each on-chip buffer and workspace, exactly what it reads when the source
\* is executed in order by one core.  It needs a handover back before a workspace
\* is written again, which the passes do not insert.
SameValues == kernel \in ReturningKernels => \A p \in Cores : About(p) => Faithful(p, Local \cup Shared)

\* Running ahead is invisible: where PipelinePlanning lets copies from global memory
\* run num_stages iterations before the work that uses them, every operation finds
\* the content of its own iteration in the on-chip buffers, in the prologue, the
\* body and the epilogue, so ComputeBufferVersions keeps enough versions.
AheadUnseen == kernel \in AheadKernels => \A p \in Cores : About(p) => Faithful(p, Local)

\* The executions of operations that core p performs, in order.
Performed(p) ==
  LET code == SelectSeq(CodeOf(p), LAMBDA e : e.kind = "op")
  IN [i \in DOMAIN code |-> Instance(code[i])]

OfClass(body, class) == {op.id : op \in {o \in ToSet(OpsIn(body)) : o.class = class}}
OfCore(body, core) ==
  LET has == IF core = "cube" THEN CubeBuffers ELSE VecBuffers
  IN OfClass(body, "common")
       \cup {op.id : op \in {o \in ToSet(OpsIn(body)) :
                              o.scope = core \/ Uses(o) \cap has # {}}}
Source(k) == {Instance(e) : e \in ToSet(SourceOf(k))}

\* No work is lost or repeated: at the end each core has performed, once in every
\* iteration of the source, the operations on its buffers, those of its T.Scope and
\* those of both cores.
WorkKept ==
  phase = "done" /\ kernel \in StagedKernels =>
    \A p \in Cores :
      /\ IsInjective(Performed(p))
      /\ {x \in ToSet(Performed(p)) : x[1] \notin OfClass(BodyOf[kernel], "context")}
           = {x \in Source(kernel) : x[1] \in OfCore(BodyOf[kernel], Side(p))}

\* Barriers between two operations of one core: before, the barrier, after.
RECURSIVE Guards(_)
Guards(s) ==
  {<<s[i - 1].id, s[i].id, s[i + 1].id>> :
     i \in {j \in 2 .. Len(s) - 1 :
              /\ s[j].kind = "op" /\ TakesContext(s[j])
              /\ s[j - 1].kind = "op" /\ s[j + 1].kind = "op"
              /\ ~\E core \in {"cube", "vec"} : \E n \in {j - 1, j + 1} : CopyStage(s[n], core)
              /\ Concrete(Owner(s[j - 1])) /\ Owner(s[j - 1]) = Owner(s[j + 1])}}
    \cup UNION {Guards(s[i].body) : i \in {j \in DOMAIN s : s[j].kind = "for"}}

GuardsOf == UNION {{k} \X Guards(BodyOf[k]) : k \in StagedKernels}

\* A barrier between two operations of one core is performed by that core between
\* them, in the same iteration, also when the loop around is split into stages and
\* the core was inferred from the neighbours.
BarriersStay ==
  \A g \in GuardsOf : \A p \in Cores :
    g[1] = kernel /\ About(p) /\ Event(p).id = g[2][3] =>
      \E i \in 1 .. pc[p] - 1 :
        /\ CodeOf(p)[i].kind = "op" /\ Instance(CodeOf(p)[i]) = <<g[2][2], Event(p).it>>
        /\ \A j \in i + 1 .. pc[p] - 1 : CodeOf(p)[j].kind # "op"
=============================================================================
