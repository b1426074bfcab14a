# Verification of tilelang-ascend

tilelang-ascend compiles tile programs for Ascend A2/A3 devices, whose Cube and Vector cores
run several pipes each, concurrently, joined by flags and barriers. This directory models in
TLA+ the parts of it that have a protocol or an algorithm of their own:

* the **CPU simulator** (`tilelang/simulator/`), which schedules a lowered kernel on the pipes,
  checks its synchronization and reports deadlocks;
* the **compiler passes** that make concurrency: memory planning and synchronization of one
  core, the split of a kernel over both kinds of core, pipelining;
* the **kernel cache** and the **auto-tuner**, used by threads of several processes.

Paths below are relative to the repository root.

## The system and its parts

| Part | Code | Here |
|---|---|---|
| Program IR, marker placement | `tilelang/simulator/program.py`, `bridge.py` (`_sync_task_pipe`) | `KernelProgram` |
| Flag and barrier model | `tilelang/simulator/sync.py` | `SyncTables`, `FlagBarrier` |
| Scheduler | `tilelang/simulator/scheduler.py` | `EventScheduler` |
| Fence validator | `validate_memory_synchronization` in `sync.py` | `FenceValidator` |
| Functional executor | `tilelang/simulator/executor.py` | `FunctionalExecutor` (order of execution) |
| Memory planning | `src/transform/ascend_memory_planning.cc` | `MemoryPlanning`, `LinearScan` |
| Synchronization insertion | `src/transform/ascend_sync_insert.cc` | `SyncInsert` |
| Cross-core pipeline | `src/transform/cross_core_pipeline.cc` | `CrossCorePipeline` |
| Cube/Vector split | `src/transform/ascend_combinecv.cc` | `CombineCV` |
| Software pipelining | `src/transform/pipeline_planning.cc`, `inject_pipeline.cc` | `SoftwarePipeline` |
| Kernel cache | `tilelang/cache/kernel_cache.py` | `CacheService`, `KernelCache` |
| Auto-tuner | `tilelang/autotuner/tuner.py`, `param.py` | `AutoTuner` |
| Bridge, memory runtime, reports, timing | rest of `tilelang/simulator/` | not modelled |
| Operators, layouts, code generators, front end, GPU passes | `src/op`, `src/layout`, `src/target`, `tilelang/language`, ... | not modelled |

How they interact.

* *Simulator.* The bridge emits tasks in program order, core after core; a synchronization
  marker is a task too, queued on the pipe that executes it. The adapter runs the fence
  validator over the inferred memory edges. `DiscreteEventScheduler.run` then calls `reset`
  once, and makes passes over the pending tasks in program order: for a task whose execution
  edges and FIFO predecessor have completed it calls `evaluate`; if the task is admitted it
  gets its cycles and `on_scheduled` moves the credits. A pass that schedules nothing is a
  deadlock; when nothing is pending the credits are audited. A functional run then executes
  the operations in an order of its own.
* *Compiler.* `tilelang/engine/phase.py` runs CrossCorePipeline, CombineCV and the software
  pipeline on a kernel for both cores, and memory planning before synchronization insertion,
  which relies on the planned addresses to see that two buffers share memory.
* *Run time.* A run of the auto-tuner compiles every configuration through the kernel cache,
  on a pool of threads, and keeps its result in a directory that other processes read and
  that clearing the kernel cache removes.

What makes this hard to get right:

* In the scheduler, times and scan order are different things: credits are moved in scan order,
  and only the last fence and the FIFO tails are kept, so that most of the ordering holds by
  transitivity through tasks the code never compares. Flags are counted, and each wait
  must be paired with the right sets.
* A deadlock report and the final audit are verdicts on the kernel: they must be facts about
  the program, not artefacts of the scan.
* A pass on loops reasons about one walk over the body; the device executes many iterations,
  possibly none, with the last iteration's work still in flight.
* Each core's program is right by itself; whether two of them meet depends on loops and
  conditions being executed equally often by both.
* The caches write entries file by file without a lock between processes, and processes die.

## Modules

### Simulator

`KernelProgram` defines a program as a sequence of task records; a task is named by its
position. Records keep what the scheduler reads; every operation that is not a marker is
`"work"`. `ValidProgram` is what the constructors of the IR, the validation of markers and the
bridge guarantee. The variable `prog` is chosen from `Programs` in the initial state and never
changes, so one run covers a family of programs.

`SyncTables` is what `reset` derives: fences, ordering and barrier dependencies, phases of
`sync_all`, modes and keys of cross flags. The code fills dictionaries in one forward pass;
the module defines each entry by the earlier tasks that determine it.

`PipelineOrder` is the abstract specification: a task may be issued when all that the program
puts before it has been issued, and starts exactly when the last of these ends. "Before" is
static: queueing, edges, fences, drained barriers, and the sets that a wait is *paired* with
(the set of equal rank on each of its flags, the set of equal rank of each participant of a
collective flag, all members of a rendezvous). It has no credits, no passes and no scan
order, so it fixes one schedule per program. It says so for programs where `SetsQueue`
holds: a lane sets a cross flag from one pipe only. The key of a cross flag does not name the
pipe, unlike that of a local flag, so sets of two pipes of a lane enter one queue in the order
in which the scan comes to them, and credits are then not paired by rank.

`FlagBarrier` is the dynamic part of `sync.py`. A credit is represented by the task that
produced it, since the cycle the code stores is the end of that task. `SyncReady` and
`SyncSources` are the two halves of `evaluate` (admitted or not; whose ends determine
`ready_cycle`), including the early return for a lane that has joined a `sync_all`.
`SetOverflows` and `WaitMissing` are the raises of `on_scheduled`, `OnScheduled` its effect,
`Residual` the audit. The raise for a duplicate participant of a `sync_all` is left out: a
participant's phase grows with each `sync_all` it joins, so no two tasks share a participant
and a rendezvous.

`EventScheduler` is `run`: `BeginPass` and `WallTimeout` at the head of the loop, `Blocked`,
`Schedule` and `CycleLimit` for the task the scan visits, `EndPass`, `Finish`. `pos` is the place
of the scan, `status` how the run ended. One step is one iteration of the inner loop.

`FunctionalExecutor` adds what a functional run does after a schedule: the operations are
executed by a topological sort over *all* dependencies, the inferred memory edges included,
preferring early start cycles. Ties are broken in the code by the text of task ids, here in
any way. `sync_all` has no branch there and ends the run with `UnsupportedSimOpError`. The
error for a cycle of dependencies is left out: valid programs have none.

`FenceValidator` is the static check; `DocumentedClaims` holds statements of the docs,
comments and tests that the code does not keep.

### Compiler, one core

`TileProgram` is a lowered kernel as a sequence of tokens: operations on a pipe with the
buffers they read and write, scalar accesses, loops whose extent is positive, possibly zero or
zero, branches, resource scopes.

`MemoryPlanning` computes the live interval of each buffer in one walk, with the extension to
the end of a loop, and places buffers by `LinearScan` when automatic planning is on, one after
another otherwise; annotated addresses are kept. `LinearScan` is the allocator: expiry of
intervals, free blocks, splitting and merging, the check against annotated buffers.

`SyncInsert` is the walk that remembers outstanding accesses and puts before each statement the
events and barriers it needs. A loop is walked twice, to see what one iteration needs from
the one before, and the two results are merged into the one body. What it inserts is kept
per gap between tokens.

`CompiledKernel` composes both and executes the result on an external device: every pipe runs
its instructions concurrently with the other pipes and, but for the scalar unit and the vector
pipe of an A5, with its own earlier ones, and only inserted events and barriers order them.
`CompilerClaims` has the claim of the tests that is not kept.

### Compiler, both cores

`MixedProgram` is a kernel before it is split: operations with on-chip buffers and workspaces
in global memory, loops (with the annotations of `T.Pipelined`) and branches.
`CrossCorePipeline` cuts a pipelined loop of both cores into stage loops inside an outer loop and
makes copies of the buffers that cross stages. `CombineCV` infers the core of each operation,
splits the kernel, pairs the accesses to workspaces and places the flags. `SoftwarePipeline` is
PipelinePlanning and InjectSoftwarePipeline, on each half: copies from global memory get stage
0 and run ahead, buffers get versions, the loop becomes prologue, body and epilogue.

`MixedKernel` composes the three passes, one action each, and executes the programs on a Cube
core and its Vector lanes. Memory holds, for every copy of every array, which executions of
operations its content comes from, so that "the same value" is a statement about the source.

`MixedGuarantees` names what the passes rely on and do not check, and what they then
guarantee:

| Premise | Meaning |
|---|---|
| `Paired` | each write of a workspace is followed by a read of the other core; loops have different names |
| `Staged` | no branches; a cross-core pipeline has a constant extent that num_stages divides, starts at 0, and begins with an operation that has a scope; a software pipeline has at least num_stages iterations |
| `Delivering` | both, and the accesses are in one loop; a buffer that crosses stages or is used by a copy that runs ahead is the loop's own, and holds a value of the iteration that reads it |
| `Returning` | delivering, and a workspace is written again only after its reader has handed something back |
| `Ahead` | no cross-core pipeline, and the same of the buffers used by copies that run ahead, each written by one statement |

### Run time

`CacheService` is the promise of a kernel cache to its callers: a kernel that the process holds
is served, neither compiled nor failing; any other call ends with a kernel, held from then on,
or with an exception.

`KernelCache` is `cached()` and `clear_cache()`: a lookup in memory under the lock, the reading of
the entry file by file, compilation without the lock, saving file by file. A file is absent,
partial or whole. Processes crash between any two steps and begin again; a file may not be
writable. `contested` marks entries that were written over when usable, written by two
processes, cleared under a reader, or with a file that could not be written: the code
gives no guarantee for these, and the properties say so. `KeepsPromise` is the refinement of
`CacheService`.

`AutoTuner` is `AutoTuner.run` and `AutotuneResult`: futures on a pool, each a call of
`CacheService`, results in the order of completion, benchmarks under an alarm (which only a
main thread can set), skipped configurations, and an entry on disk of seven files.

### Proofs and instances

The theorems are in `EventSchedulerProofs`, `FlagBarrierProofs`, `PipelineOrderProofs`,
`SimulatorProofs`, `LinearScanProofs`, `KernelCacheProofs`, `AutoTunerProofs` and
`TunerEntryProofs`.
`MCPrograms`, `MCScheduler`, `MCValidator`, `MCSimulator`, `MCClaims`, `MCCompile`, `MCMixed`,
`MixedClaims`, `MCKernelCache` and `MCAutoTuner` define instances for TLC. Definitions marked
`Mutant:` are faulty variants of the definition that follows; they are used by nothing, and
show that the properties notice such a fault.

## What is checked

| Run | Instance | Properties |
|---|---|---|
| `MCSimulator` | programs of one lane with flags and barriers; credits between Cube and both Vector lanes; collective flags and `sync_all` on two cores; tasks with memory, UnitFlag and hardware edges | `TypeOK`, `OrderKept`, `AuditIsExact`, `DeadlockIsGlobal`, `DeadlockIsInherent`, `ExecutedAsScheduled`, `FirstRendezvousSeparates`, `AcceptedEdgesOrdered`, `OrderSpec` |
| `MCBlocking` | `flag_blocking` with depth 1, `deadlock_detect` off | `OrderSpec`, `Terminates` |
| `MCCompile` | fourteen families of kernels of one core | `TypeOK`, `LiveDisjoint`, `RaceFree`, `ValuesSurvive`, `MergeKeepsBoth` |
| `MCMixed` | 1329 kernels of both cores | `MixedTypeOK`, `FlagsMeet`, `ReadsFollowWrites`, `AheadUnseen`, `SameValues`, `WorkKept`, `BarriersStay` |
| `MCKernelCache` | two threads of one process and one of another, one kernel | `CacheTypeOK`, `RaisesOnlyContested`, `KeepsPromise`, `EveryCallEnds` |
| `MCAutoTuner` | two runs, two configurations | `TunerTypeOK`, `BestOfMeasured`, `ResultOfOneConfig`, `TunerRaisesOnlyContested`, `EveryRunEnds` |

*Simulator.*

* `OrderSpec`: the scheduler implements `PipelineOrder` (identity mapping on `prog`, `done`, `st`,
  `en`). Start cycles are those the program fixes, whatever the scan did: pairing through
  queues of credits equals pairing by rank. The premise `SetsQueue` came out of the proof; the
  instance has programs that break it (`TwoPipePrograms`), on which the specification without it
  is violated.
* `OrderKept`: each completed task starts after everything queueing, edges, *all* earlier fences
  and drained barriers put before it.
* `AuditIsExact`: a completed run is refused exactly when the program is unbalanced.
* `DeadlockIsInherent`: when a deadlock is reported, no pending task could be issued by
  `PipelineOrder` either. `DeadlockIsGlobal` says the same in terms of the code's own test.
* `FirstRendezvousSeparates`: what follows the first `sync_all` of a lane starts after all that
  any participant issued before joining. For later ones it is false, see below.
* `AcceptedEdgesOrdered`: the validator is sound where flags alternate between set and wait, no
  `sync_all` is used and the barrier is one of the lane itself.
* `ExecutedAsScheduled`: where the program's own synchronization keeps every inferred
  dependency, a functional run executes in the order of the schedule.
* `Terminates`: every call returns or raises.

*Compiler, one core.*

* `LiveDisjoint`: buffers in use at a common statement share no byte. Its premise,
  `CleanAnnotations`, is that lifetimes do not merely touch that of an annotated buffer.
* `RaceFree`: when an access starts, no conflicting access is in flight, through the same
  buffer or through another one planned over it, for any number of iterations of any loop.
* `ValuesSurvive`: what is read has not been overwritten through another buffer since it
  was written in the same iteration, or before the loop.
* `MergeKeepsBoth`: merging the two walks of a loop loses no requirement of either.

*Compiler, both cores.*

* `FlagsMeet`: a `Paired` kernel never leaves a core waiting, and ends with every flag used.
* `ReadsFollowWrites`: at the n-th of N reads of a workspace its writers have done at least n/N
  of their writes, whatever loops are around the two.
* `SameValues`: in a `Returning` kernel every operation reads, from every buffer and workspace,
  what it reads when one core executes the source in order.
* `AheadUnseen`: in an `Ahead` kernel the versions of buffers suffice for the copies that run
  ahead, in prologue, body and epilogue.
* `WorkKept`: in a `Staged` kernel no iteration of an operation is lost or repeated.
* `BarriersStay`: a barrier between two operations of a core is performed between them.

*Run time.*

* `KeepsPromise`: the cache refines `CacheService`.
* `RaisesOnlyContested`: an entry that a crash left half written never makes a call raise.
* `BestOfMeasured`: what is saved is the least latency measured, with its configuration.
* `ResultOfOneConfig`: all parts of a returned result, restored ones included, are of one
  configuration, unless the entry was contested. `TunerRaisesOnlyContested` is the
  counterpart of `RaisesOnlyContested`, for a crash from the fourth file on.
* `EveryCallEnds`, `EveryRunEnds`: locks are given back on every path; runs end though
  compilations fail, benchmarks time out and processes crash.

**Bounds.**

* Simulator: one lane up to 4 tasks; flags with at most two tasks of work up to 6; mode-2 flags
  up to 5, up to exchange of the Vector lanes; a cross flag set from two pipes, 5 tasks; three
  tasks with any acyclic edges. Two credits can be outstanding on a flag and be waited for in either
  order, participants can be one phase apart, a marker can replace the recorded fence of its
  pipe, a wait can precede its set in program order (so that a second pass is needed), and a
  lane can have a second `sync_all`. `MaxCrossCredits` is 2 instead of 15, so that the bound is
  reached; `MaxCycles` is 20, which only chains of long tasks exceed. Durations 1 to 3 make the
  order in time differ from the order in the program. Two cores suffice for the collectives,
  whose tests are over all participants.
* `MCCompile`: three buffers of 32, 32 and 64 bytes in 96 bytes of unified buffer, so that memory
  is reused and buffers overlap in part; loops run at most twice (`TripBound`), which has a
  first iteration, one after another, and work in flight from one to the next.
* `MCMixed`: pipelines of 3 or 4 iterations with groups of 2 or 3 and `cross_interval` 1 or 2, the
  last group possibly incomplete; plain loops and two Vector lanes; 484 nests of
  up to two loops around both accesses and up to three around each, symbolic extents included; kernels that break the
  assumptions of the passes; any three of seven statements with 1 to 3 stages, longer bodies
  with conditions, and software pipelines on both cores of a kernel that hands data over.
  Of the 1329 kernels 1020 compile; 1017 of these are `Paired`, 960 `Staged`, 332 `Delivering`, 281
  `Returning` and 681 `Ahead`, so no premise is empty.
* `MCKernelCache`: one crash, clear or unwritable file (`MaxUpsets`). The inductive invariant of
  the proofs was also checked with three.
* `MCAutoTuner`: one worker, latencies 1 to 3 with the initial best latency 3; two processes, one
  of the runs outside its main thread, with one upset; two processes or two threads without.

**Fairness.** Nothing is assumed for safety. `Terminates` assumes weak fairness of `Run` (the
thread in `run()` is not suspended for ever) and strong fairness of `WallTimeout`: the head of
the loop reads a monotonic clock against the positive `execution_timeout_s`, so a loop that
comes back to it without end finds it exceeded. `EveryCallEnds` assumes weak fairness of each
call's beginning and of its next step: threads are scheduled, and since calls are finitely many
the lock is free in the end. `EveryRunEnds` assumes that while the thread of a run or one of its
pool can go on, one of them does; that compilations end is what `EveryCallEnds` shows of the
cache, and the alarm ends a benchmark. Crashes and clears are never fair.

### Where docs, comments and tests disagree with the code

Each of these runs finds the statement violated.

| Run | Statement | What happens |
|---|---|---|
| `ClaimWaitPaired` | `sync.py`: "each WAIT consumes one" credit | after a `sync_all` of the lane, `evaluate` returns before it looks at flags: the wait starts before its set has ended |
| `ClaimControlSyncAll` | `sync.py`: the control task "denotes all hardware participants of that core" | only the control lane is held back |
| `ClaimDepth` | `test_flag_blocking.py`: a set "stalls the issuing pipe until a WAIT frees a slot" | the stall is in the scan only; the set starts before that wait |
| `ClaimFenceCredit` | `sync.py`: accepted edges "have hardware fences" | the wait is served by an older credit |
| `ClaimLoopCarried` | `test_ascend_memory_planning.py:7`: "Overlapping lifetime buffers must NOT share memory" | only buffers first touched before a loop are kept to its end; one that its first iteration sets up, and later ones read, can be planned over another |
| `ClaimTimeline` | `docs/tutorials/t_pipelined.md:71-77`: with `num_stages=2`, write_2 comes after read_0 | with automatic cross-core flags there is none from a read back to the next write of the same copy |

Met while modelling, with no run of their own:

* Simulator. The early return also skips the drain of a second `sync_all` (comment at
  `sync.py:530`); the validator counts full barriers of other lanes, which `AcceptedEdgesOrdered`
  therefore excludes (the design document, line 362, has `ALL` barriers per lane); the design
  document, line 355, calls a local flag a latch that may not be set twice, where the code
  queues credits; `config.py:38` calls the default credits unbounded, where a mode-2 set raises
  at 15. `PipelineOrder` follows the code: after a `sync_all` of its lane a task is ordered by
  that rendezvous and not by its own flags or barrier, which is why `OrderSpec` holds.
* Memory planning. `CheckConflict` compares lifetimes strictly, so a buffer can be planned over
  an annotated one whose last use is at its first; this is why `LiveDisjoint` has its premise.
* Cross-core pipeline. The remainder of a constant extent is dropped, a symbolic extent is
  multiplied by num_stages, a minimum other than 0 gives other iterations; statements before
  the first one with a scope are dropped; the children of a branch are listed unconditionally
  and then the branch again. `Staged` excludes these.
* Split. Loops of the two cores are taken to be the same by depth and name; a workspace used
  by one core only keeps unpaired flags. `Paired` excludes these. A flag's condition can end up
  outside the stage loop whose variable it uses, which fails the compilation.
* Software pipeline. A buffer that is also used outside the loop gets no versions while its
  copies still run ahead; a loop shorter than its stages has a prologue and an epilogue that
  overlap (the Programming Guide, line 1108, asks for fewer stages). `Ahead` and `Staged`
  exclude these.

## What is proved

With TLAPS, for every value of the constants.

`EventSchedulerProofs`, for every set of cores, every family of valid programs of any length and
every configuration:

* `TypeCorrect`: `Spec => []TypeOK`. Inductive invariant `TypeInv == TypeOK /\ prog \in Programs`.
  The work is in showing that a start cycle taken from credits is a cycle of the program,
  and that `on_scheduled` touches only queues that exist.
* `OrderIsKept`: `Spec => []OrderKept`. The inductive invariant adds that no task ends before it
  starts. The code compares a task with a FIFO predecessor, the last fence of its lane and
  pipe, the last task of its source pipe and the tails of a barrier (`PredecessorsEnded`);
  every other predecessor is a predecessor of one of these, for which `OrderKept` already
  holds. This is where it matters that a marker sits on the pipe that it fences
  (`SyncTaskPipe`): a fence replaced in the table is ordered before the one that replaces it.
* `DeadlockGlobal`: `Spec => []DeadlockIsGlobal`, with `flag_blocking` too. Needs `IdlePass`: while a
  pass has scheduled nothing, what it refused is still refused, for `evaluate` reads only the
  program, the completed tasks and the credits (`SchedulableStatic`).

`FlagBarrierProofs`, for the same:

* `AuditExact`: `Spec => []AuditIsExact`, without `SetsQueue`. The audit looks at what is left in
  the queues, the property at the program, so the invariant must count: the length of a queue
  plus the completed waits of its flag is the number of its completed sets, and a slot of a
  collective flag has as many phases ready, and waited for, as its lane has completed sets and
  waits (`CreditsCounted`). When all tasks are done these are all sets and all waits.
* `CreditsRanked`, for the proofs below: the n-th credit in the queue of a local flag is the set
  whose rank is n - 1 more than the number of completed waits; where sets queue, the same holds
  of cross flags, and the n-th phase of a participant is its n-th set. Kept because two sets,
  or two waits, of one flag are on one pipe, hence completed in program order.

`PipelineOrderProofs`, for the same, with `PipelineInv`: credits are counted and ranked, a program
that is scheduled was not refused by `reset`, and a completed task started after every member
of the rendezvous that released it:

* `SchedulerImplementsOrder`: `Spec => OrderSpec`. A scheduled task finds at the head of each of
  its queues the set that it is paired with; a `sync_all` that is complete has exactly the
  members that the program gives its rendezvous; the start cycle is then the latest end over
  the same set of tasks.
* `DeadlockInherent`: `Spec => []DeadlockIsInherent`. From `DeadlockGlobal` and the converse of the
  above: what could be issued could be scheduled, since without `flag_blocking` a set is
  never held back, and a wait whose paired sets are completed finds its credits.
* `RendezvousSeparates`: `Spec => []FirstRendezvousSeparates`.

`SimulatorProofs`, for the same:

* `ExecutesAsScheduled`: `ExecutionSpec => []ExecutedAsScheduled`. What has been executed is
  sorted *and* starts no later than anything that has not (`SortedSoFar`). The step rests on
  `EarliestExecuted`: of the tasks that are left, one with the least start cycle is ready, as
  every task takes time and a dependency that the schedule keeps starts strictly earlier.
* `ValidatorSound`: `Spec => []AcceptedEdgesOrdered`, without `SetsQueue`. The state invariant
  `FenceInv` adds to the ranked credits that a completed wait on a local flag started after the
  set of its rank had ended (`PairsKept`). The rest is about one state and the scan: a pipe is
  reachable at a position only if all that is queued on it from there on starts after the
  producer's end, and a signature is live only if its set starts after that end and nothing has
  waited for it since (`ScanSound`). A wait for a live signature then has the rank of that very
  set, because flags alternate. UnitFlag edges and barriers follow from `OrderKept`. The scan
  is a recursive function; that it exists, and that it is sound at every position, is shown by
  taking the least position where it would not be (`ScanExists`, `ScanIsSound`).

`LinearScanProofs`, for every set of buffers, their intervals and sizes in whole blocks, every
limit and annotated offsets within it:

* `AllocationsAreDisjoint`: `ScanSpec => []LiveDisjoint`. Disjointness alone is not inductive, since
  memory comes back through released and merged blocks. `ScanInv` adds that free bytes are
  whole 32-byte blocks below `next_new_offset_` and never those of an active buffer that the
  scan placed, that a placed buffer which is no longer active is dead for all intervals to
  come, and that no active one is dead for an interval already handled.

`KernelCacheProofs`, for any processes, threads, kernels and number of upsets:

* `LocksExclude`: `CacheSpec => []CacheTypeOK`.
* `CrashedEntriesAreSafe`: `CacheSpec => []RaisesOnlyContested`. The inductive invariant `CacheInv`
  adds `Steady` for uncontested entries: one call at most writes an entry, the params are whole
  only if the library is, whatever its writer had done when it crashed, a writer that has not
  come to the params leaves them unusable, and params that a call has read stay whole until it
  has loaded the library.
* `CacheKeepsPromise`: `CacheSpec => KeepsPromise`, every step being a step of `CacheService` or a
  stutter.

`AutoTunerProofs` and `TunerEntryProofs`, for any processes, runs, configurations, latencies and
number of upsets:

* `TunerLocksExclude`: `TunerSpec => []TunerTypeOK`. The invariant `TypeInv` adds what a run has
  at each place: where it is in the files, and that what it saves was measured.
* `BestIsSaved`: `TunerSpec => []BestOfMeasured`, with `BestSoFar`: before any latency below the
  initial one there is no best; afterwards it is one of those measured, and the least.
* `ResultsAreWhole` and `RaisesOnlyContested`: `TunerSpec => []ResultOfOneConfig` and
  `TunerSpec => []TunerRaisesOnlyContested`. Neither is inductive: they are about what a run
  will find on disk. `EntryInv` says of an entry that is not contested: whoever writes it is
  alone, has written the files before the one it is at with its configuration, and finds no
  params until it comes to them; whoever reads it has read what is still there; in a
  directory without a writer the first three files agree; and an entry with params is of one
  configuration, but for indices that may be missing or cut short. A crash keeps this
  because params come sixth and indices last.

Assumptions: `CoresAssumption`, `ProgramsAssumption` (what the IR, marker validation and bridge
guarantee), `FlagAssumption` and `ConfigAssumption` (what `SimulatorConfig` checks);
`OffsetAssumption` (no offset is the mark for "none"); `CallAssumption` and `TunerAssumption` (types
of the constants; that the marks for nothing, an absent and a partial file are no
configurations). `BufferAssumption`: sizes and limits are whole blocks, and every buffer is in
`origin_buffer`. `TripAssumption`: a bound on iterations is a number. `KernelAssumption`: programs
are `WellFormed` (statements nest), and they are what the synchronization pass relies on without
checking it: pipes that access the same memory have events for each other in
`GetEventMapping` (`EventsExist`; `GetRequiredSyncType` requires nothing for a pair without one), and
the blocks of different units share no on-chip memory, are not inside loops or branches, and
hold all work, if there are any (`UnitsApart`; a block of another unit starts from an empty
history). TLC evaluates the assumptions in the runs. The least and greatest elements of a set of
positions are obtained from the well-foundedness of `<` on the naturals (`LeastExists`,
`LastCovers`), without induction over data. The inductive invariants were checked by TLC on the
instances of the runs before they were proved.

Only model-checked:

* all liveness (`Terminates`, `EveryCallEnds`, `EveryRunEnds`), since fairness and `ENABLED` are out
  of the prover's reach;
* `RaceFree`, `ValuesSurvive`, `MergeKeepsBoth` and the types of `CompiledKernel`: no proof of them is
  part of the project;
* everything about kernels of both cores, whose programs are trees walked by recursive
  operators.

## Not modelled

The models stand for a few thousand of more than a hundred thousand lines: most of the
repository rewrites TIR, prints source text or computes layouts, where correctness is about
the semantics of TVM's expressions and nothing runs concurrently. `PROJECT.json` lists every
part with its status. Within the modelled parts:

* Simulator: texts of diagnostics and metadata of records; the `target_lane` of a pipe barrier,
  which the bridge never sets; timing tables (durations are inputs); NumPy values, poison and
  the re-evaluation of dynamic control; the memory runtime; the bridge's UnitFlag pairing and
  inference of memory edges, which are inputs of the validator here.
* One core: event numbers, `ascend_sync_insert_vs.cc`, `ascend_storage_rewrite.cc`, while loops,
  asserts, sizes of buffers, annotations beyond the limit or of buffers that are never used
  (the lookup in `CheckConflict` throws).
* Both cores: pipelines inside pipelines, scalar loads and stores, vectorized loops, the paths of
  the A5, kernels with automatic splitting or flags switched off. Flags are numbered without
  a limit, so running out of hardware flags is not seen. Software pipelines: explicit order and
  stage annotations, conditions that read buffers, regions smaller than a buffer, asynchronous
  copies. `multi_version_buffer_rewriter.cc` is not on the path of an Ascend kernel.
* Cache and tuner: removing a directory is one step; the dlpack backend and a disabled cache; the
  direct compilation of arguments that are already tuned; capture of inputs. Of two processes
  that write one entry at once only termination and the promise to callers are checked.

What would come next: UnitFlag pairing and memory edges in the bridge, and with them a
program-level statement of the validator; the memory runtime, composed with the executor.
