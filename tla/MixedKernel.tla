------------------------------ MODULE MixedKernel ------------------------------
(***************************************************************************)
(* A kernel for both cores, compiled by CrossCorePipeline, CombineCV and   *)
(* SoftwarePipeline, and executed: one Cube core and its Vector lanes,     *)
(* each in the order of its own program, joined only by the flags that the *)
(* compiler inserted.                                                      *)
(* Memory holds, for every array, the executions of operations that its    *)
(* content comes from.  Lane l has its own on-chip buffers and its own     *)
(* part of every workspace; the Cube core reads and writes all the parts.  *)
(***************************************************************************)
EXTENDS SoftwarePipeline, Bags

CONSTANTS Kernels, BodyOf, LanesOf    \* the kernels, and what each of them is

-----------------------------------------------------------------------------
\* The context of a statement: the iterations of the loops of the source that it
\* is in, that of the outer loop, the copy of the versioned arrays, and the
\* iteration of a software pipeline.
Outside == [it |-> <<>>, outer |-> 0, slot |-> 0, stages |-> 1, turn |-> 0]

Entered(x, loop, n) ==
  CASE loop.role \in {"plain", "pipelined"} -> [x EXCEPT !.it = Append(@, <<loop.var, n>>)]
    [] loop.role = "outer" -> [x EXCEPT !.outer = n, !.it = Append(@, <<loop.var, n>>)]
    [] loop.role = "injected" -> [x EXCEPT !.turn = n, !.it = Append(@, <<loop.var, n>>)]
    [] loop.role = "stage" ->
         [x EXCEPT !.slot = n, !.stages = loop.stages,
                   !.it = [@ EXCEPT ![Len(@)][2] = x.outer * loop.stages + n]]

\* What a core executes of a statement sequence: operations, each with its
\* iteration and its copies, and the flags.  The core "source" executes all of it.
RECURSIVE RunStmt(_, _, _, _, _)
Run(s, core, flags, path, x) ==
  FlattenSeq([i \in DOMAIN s |-> RunStmt(s[i], core, flags, Append(path, i), x)])

RunStmt(stmt, core, flags, here, x) ==
  LET Inside(n) == Run(stmt.body, core, flags, here, Entered(x, stmt, stmt.min + n - 1))
      Emit(e) == RunStmt(e.stmt, core, flags, here \o e.at, Entered(x, stmt, stmt.min + e.turn))
      code ==
        CASE stmt.kind = "op" ->
               IF core = "source" \/ Emitted(stmt, core)
               THEN <<[kind |-> "op", id |-> stmt.id, it |-> x.it, slot |-> x.slot, turn |-> x.turn,
                       reads |-> stmt.reads \cap (Local \cup Shared),
                       writes |-> stmt.writes \cap (Local \cup Shared),
                       sliced |-> stmt.sliced]>>
               ELSE <<>>
          [] stmt.kind = "for" ->
               IF stmt.role = "injected"
               THEN FlattenSeq([n \in DOMAIN stmt.emission |-> Emit(stmt.emission[n])])
               ELSE FlattenSeq([n \in 1 .. stmt.extent |-> Inside(n)])
          [] stmt.kind = "if" ->
               IF Last(x.it)[2] \in stmt.when
               THEN Run(stmt.then, core, flags, Append(here, 1), x)
               ELSE Run(stmt.else, core, flags, Append(here, 2), x)
      Attach(c, f) == IF f.at = here THEN AttachSyncStmt(f, c, x.slot, x.stages) ELSE c
  IN FoldLeft(Attach, code, flags)

Instance(e) == <<e.id, e.it>>

\* A write of a slice leaves the rest of the array as it was.
Content(old, e, b) == IF b \in e.sliced THEN old \cup {Instance(e)} ELSE {Instance(e)}

\* What an operation reads when the source is executed from top to bottom: the
\* last write of the whole array, and the writes of slices since.
Expected(source, x, b) ==
  LET now == {i \in DOMAIN source : Instance(source[i]) = x}
      before == {j \in DOMAIN source : b \in source[j].writes /\ \A i \in now : j < i}
  IN {Instance(source[j]) :
        j \in {m \in before : \A n \in before : n > m => b \in source[n].sliced}}

\* The programs of the two cores, each with its software pipelines.
Generated(split, cube, vec) ==
  IF ~(cube.ok /\ vec.ok) THEN [ok |-> FALSE]
  ELSE [ok       |-> TRUE,
        versions |-> [b \in Local |-> (IF b \in CubeBuffers THEN cube ELSE vec).versions[b]],
        cube     |-> Run(cube.body, "cube", split.flags.cube, <<>>, Outside),
        vec      |-> Run(vec.body, "vec", split.flags.vec, <<>>, Outside)]

SourceOf(k) == Run(BodyOf[k], "source", <<>>, <<>>, Outside)

-----------------------------------------------------------------------------
VARIABLES
  kernel,    \* the kernel of this behaviour
  program,   \* what it is compiled to, so far
  phase,     \* source, piped, split, running, done, hung, or failed to compile
  pc,        \* of the Cube core (0) and of each lane
  credits,   \* the flags that have been set and not waited for
  memory     \* of the parts of the arrays that were written

mixedVars == <<kernel, program, phase, pc, credits, memory>>

Lanes == 1 .. LanesOf[kernel]
Cores == 0 .. LanesOf[kernel]
Side(p) == IF p = 0 THEN "cube" ELSE "vec"
CodeOf(p) == program[Side(p)]
Ended(p) == pc[p] > Len(CodeOf(p))
Event(p) == CodeOf(p)[pc[p]]

\* The parts of array b that event e of core p accesses.
Parts(p, e, b) ==
  LET copy == CASE b \in program.versioned -> e.slot
                [] b \in Local \ program.versioned -> e.turn % program.versions[b]
                [] b \in Shared \ program.versioned -> 0
  IN {<<q, b, copy>> : q \in IF b \in Shared /\ p = 0 THEN Lanes ELSE {p}}

At(part) == IF part \in DOMAIN memory THEN memory[part] ELSE {}

\* A flag of the Cube core reaches every lane; the Cube core waits for all lanes.
Sent(p, flag) ==
  IF p = 0 THEN {<<"vec", flag, l>> : l \in Lanes} ELSE {<<"cube", flag, p>>}
Awaited(p, flag) ==
  IF p = 0 THEN {<<"cube", flag, l>> : l \in Lanes} ELSE {<<"vec", flag, p>>}

CanStep(p) ==
  /\ ~Ended(p)
  /\ Event(p).kind = "wait" => Awaited(p, Event(p).flag) \subseteq BagToSet(credits)

-----------------------------------------------------------------------------
Passed(next) == IF program'.ok THEN next ELSE "failed"

CrossCorePipelinePass ==
  /\ phase = "source"
  /\ program' = PipelinePass(BodyOf[kernel]) @@ program
  /\ phase' = Passed("piped")
  /\ UNCHANGED <<kernel, pc, credits, memory>>

CombineCVPass ==
  /\ phase = "piped"
  /\ program' = CombinePass(program.body) @@ program
  /\ phase' = Passed("split")
  /\ UNCHANGED <<kernel, pc, credits, memory>>

SoftwarePipelinePass ==
  /\ phase = "split"
  /\ program' = Generated(program, SoftwarePass(program.body, "cube"),
                                   SoftwarePass(program.body, "vec")) @@ program
  /\ phase' = Passed("running")
  /\ UNCHANGED <<kernel, pc, credits, memory>>

Advance(p) == pc' = [pc EXCEPT ![p] = @ + 1]

Execute(p) ==
  /\ phase = "running"
  /\ ~Ended(p)
  /\ Event(p).kind = "op"
  /\ LET written == UNION {Parts(p, Event(p), b) : b \in Event(p).writes}
     IN memory' = [part \in written |-> Content(At(part), Event(p), part[2])] @@ memory
  /\ Advance(p)
  /\ UNCHANGED <<kernel, program, phase, credits>>

SetFlag(p) ==
  /\ phase = "running"
  /\ ~Ended(p)
  /\ Event(p).kind = "set"
  /\ credits' = credits (+) SetToBag(Sent(p, Event(p).flag))
  /\ Advance(p)
  /\ UNCHANGED <<kernel, program, phase, memory>>

WaitFlag(p) ==
  /\ phase = "running"
  /\ ~Ended(p)
  /\ Event(p).kind = "wait"
  /\ CanStep(p)
  /\ credits' = credits (-) SetToBag(Awaited(p, Event(p).flag))
  /\ Advance(p)
  /\ UNCHANGED <<kernel, program, phase, memory>>

Stop ==
  /\ phase = "running"
  /\ \A p \in Cores : ~CanStep(p)
  /\ phase' = IF \A p \in Cores : Ended(p) THEN "done" ELSE "hung"
  /\ UNCHANGED <<kernel, program, pc, credits, memory>>

Rest == phase \in {"done", "hung", "failed"} /\ UNCHANGED mixedVars

MixedInit ==
  /\ kernel \in Kernels
  /\ program = [cube |-> <<>>, vec |-> <<>>]
  /\ phase = "source"
  /\ pc = [p \in Cores |-> 1]
  /\ credits = EmptyBag
  /\ memory = <<>>

MixedNext ==
  \/ CrossCorePipelinePass \/ CombineCVPass \/ SoftwarePipelinePass
  \/ \E p \in Cores : Execute(p) \/ SetFlag(p) \/ WaitFlag(p)
  \/ Stop
  \/ Rest

MixedSpec == MixedInit /\ [][MixedNext]_mixedVars
=============================================================================
