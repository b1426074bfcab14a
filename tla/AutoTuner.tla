-------------------------------- MODULE AutoTuner --------------------------------
(***************************************************************************)
(* The auto-tuner (tilelang/autotuner/tuner.py, AutoTuner.run, and         *)
(* param.py, AutotuneResult): processes tune the same function.  A run     *)
(* compiles every configuration on a pool of threads, through the kernel   *)
(* cache, of which only the promise of CacheService is used; measures one  *)
(* kernel after another, under a timeout; and keeps the best in memory and *)
(* in a directory that the processes share and the kernel cache clears.    *)
(*                                                                         *)
(* A file holds the configuration whose result was written to it.  A run   *)
(* that is given the tunable arguments (it compiles directly), an empty    *)
(* list, or unused keys is not modelled, nor is a disabled cache.          *)
(***************************************************************************)
EXTENDS CacheService, Integers, Sequences, FiniteSets, Functions

CONSTANTS
  Tuners,       \* invocations of run()
  TunerProc,    \* the process of each
  ConfigOrder,  \* the configurations, in the order of the list
  NumWorkers,   \* num_workers of the pool
  Latencies,    \* what a benchmark may measure
  Worst,        \* the initial best_latency
  Free,         \* the lock is not held
  Settings      \* of a behaviour: runs, the tuners it has; main, those of them
                \* in the main thread of their process; bound, how many crashes,
                \* files that cannot be written and clear_cache() there may be

Configs == Range(ConfigOrder)

ASSUME TunerAssumption ==
  /\ Calls = Tuners \X Configs   \* the futures
  /\ \A f \in Calls : ProcOf[f] = TunerProc[f[1]]
  /\ TunerProc \in [Tuners -> Procs]
  /\ Free \notin Tuners
  /\ {"none", "absent", "partial"} \cap Configs = {}
  /\ Latencies \cup {Worst} \subseteq Int
  /\ NumWorkers \in Nat \ {0}
  /\ \A e \in Settings :
       /\ e.runs \subseteq Tuners /\ e.main \subseteq e.runs /\ e.bound \in Nat
       /\ \A r, s \in e.main : TunerProc[r] = TunerProc[s] => r = s

VARIABLES
  setting,    \* one of Settings, for good
  at,         \* where each run is
  lock,       \* AutoTuner._lock of each process
  memory,     \* AutoTuner._memory_cache of each process
  step,       \* the file a run reads or writes next
  got,        \* what a run has read
  collected,  \* futures that as_completed has yielded
  results,    \* results_with_configs
  best,       \* best_config, best_latency and best_kernel
  timing,     \* the latencies a run has measured, until it saves
  result,     \* the configurations that the parts of a returned result are of
  dir,        \* the directory of the entry exists
  files,      \* its files
  upsets,     \* crashes, failures and clears so far
  contested   \* the entry was written again when it had params, written by two,
              \* read while written, cleared under either, a file of it could
              \* not be written, or a crash left it without its first files

tunerVars == <<setting, at, lock, memory, step, got, collected, results, best, timing, result,
               dir, files, upsets, contested>>
allVars == <<tunerVars, stage, held>>

\* save_to_disk, which does not catch what opening the first three files raises,
\* then _save_kernel_to_disk, which does.  kernel.cu is never read.
Unguarded == {"config", "function", "latency"}

\* Mutant: the parameters, without which an entry is not used, before the library.
ParamsFirst == <<"config", "function", "latency", "wrapped", "params", "lib", "gm">>
SaveOrder == <<"config", "function", "latency", "wrapped", "lib", "params", "gm">>

\* load_from_disk, then _load_kernel_from_disk; the library is loaded at the end.
LoadOrder == <<"config", "function", "latency", "wrapped", "params", "gm", "lib">>

Empty == [f \in {"config", "function", "latency", "wrapped", "lib", "params", "gm"} |-> "absent"]
NoBest == [config |-> "none", latency |-> Worst, kernel |-> "none"]

Goes(r, where) == at' = [at EXCEPT ![r] = where]

\* Mutant: the critical section without its lock.
AcquireNothing(r) == UNCHANGED lock

\* with self._lock
Acquire(r) == lock[TunerProc[r]] = Free /\ lock' = [lock EXCEPT ![TunerProc[r]] = r]

Release(r) == lock' = [lock EXCEPT ![TunerProc[r]] = Free]

Saving == {r \in Tuners : at[r] \in {"mkdir", "open", "write"}}
Loading == {r \in Tuners : at[r] = "read"}

-----------------------------------------------------------------------------
\* The first critical section, up to the existence of the directory.
Lookup(r) ==
  LET hit == memory[TunerProc[r]] IN
  /\ at[r] = "lookup"
  /\ lock[TunerProc[r]] = Free
  /\ \/ /\ hit # {}
        /\ Goes(r, "returned")
        /\ result' = [result EXCEPT ![r] = hit]
        /\ UNCHANGED <<lock, contested>>
     \/ /\ hit = {} /\ ~dir
        /\ Goes(r, "pool")
        /\ UNCHANGED <<lock, result, contested>>
     \/ /\ hit = {} /\ dir
        /\ Goes(r, "read")
        /\ Acquire(r)
        /\ contested' = (contested \/ Saving # {})
        /\ UNCHANGED result
  /\ UNCHANGED <<memory, step, got, collected, results, best, timing, dir, files, upsets, stage, held, setting>>

\* One file of the entry.  Without one of the first three, run() raises.
ReadFile(r) ==
  LET f == LoadOrder[step[r]] IN
  /\ at[r] = "read"
  /\ step[r] < Len(LoadOrder)
  /\ \/ /\ f \in Unguarded /\ files[f] \notin Configs
        /\ Goes(r, "raised")
        /\ Release(r)
        /\ step' = [step EXCEPT ![r] = 1]
        /\ got' = [got EXCEPT ![r] = Empty]
     \/ /\ f \in Unguarded => files[f] \in Configs
        /\ step' = [step EXCEPT ![r] = @ + 1]
        /\ got' = [got EXCEPT ![r][f] = files[f]]
        /\ UNCHANGED <<at, lock>>
  /\ UNCHANGED <<memory, collected, results, best, timing, result, dir, files, upsets, contested, stage, held, setting>>

(***************************************************************************)
(* The end of the load: with source (of a source that is being written     *)
(* there may be nothing) and params, the library is loaded or raises;      *)
(* without them the run goes on to tune.  The indices may be missing.      *)
(***************************************************************************)
LoadLib(r) ==
  LET parts == [got[r] EXCEPT !["lib"] = files["lib"]]
      loaded == {parts[f] : f \in {g \in DOMAIN parts : g = "gm" => parts[g] \in Configs}}
  IN  /\ at[r] = "read"
      /\ step[r] = Len(LoadOrder)
      /\ \E found \in BOOLEAN :
           /\ found => parts["wrapped"] # "absent" /\ parts["params"] \in Configs
           /\ ~found => parts["wrapped"] \notin Configs \/ parts["params"] \notin Configs
           /\ \/ /\ found /\ parts["lib"] \in Configs
                 /\ Goes(r, "returned")
                 /\ memory' = [memory EXCEPT ![TunerProc[r]] = loaded]
                 /\ result' = [result EXCEPT ![r] = loaded]
              \/ /\ found /\ parts["lib"] \notin Configs
                 /\ Goes(r, "raised")
                 /\ UNCHANGED <<memory, result>>
              \/ /\ ~found
                 /\ Goes(r, "pool")
                 /\ UNCHANGED <<memory, result>>
      /\ Release(r)
      /\ step' = [step EXCEPT ![r] = 1]
      /\ got' = [got EXCEPT ![r] = Empty]
      /\ UNCHANGED <<collected, results, best, timing, dir, files, upsets, contested, stage, held, setting>>

-----------------------------------------------------------------------------
\* The pool takes the futures in the order of their submission.
StartFuture(r, i) ==
  LET of(j) == stage[<<r, ConfigOrder[j]>>]
      waits(j) == of(j) = "idle" /\ ConfigOrder[j] \notin collected[r]
  IN
  /\ at[r] = "pool"
  /\ waits(i) /\ \A j \in 1 .. (i - 1) : ~waits(j)
  /\ Cardinality({j \in DOMAIN ConfigOrder : of(j) \in {"asked", "missed"}}) < NumWorkers
  /\ Ask(<<r, ConfigOrder[i]>>)
  /\ UNCHANGED tunerVars

\* The kernel cache, at work on a future.
Serve(f) ==
  /\ Hit(f) \/ Miss(f) \/ Provide(f) \/ Fail(f)
  /\ UNCHANGED tunerVars

\* Mutant: a compilation that failed is not taken from as_completed.
CollectServed(r, c) ==
  /\ at[r] = "pool"
  /\ c \notin collected[r]
  /\ stage[<<r, c>>] = "served" /\ Take(<<r, c>>)
  /\ collected' = [collected EXCEPT ![r] = @ \cup {c}]
  /\ results' = [results EXCEPT ![r] = Append(@, c)]
  /\ UNCHANGED <<setting, at, lock, memory, step, got, best, timing, result, dir, files, upsets, contested>>

\* as_completed: in any order among those that are done.
Collect(r, c) ==
  /\ at[r] = "pool"
  /\ c \notin collected[r]
  /\ Take(<<r, c>>)
  /\ collected' = [collected EXCEPT ![r] = @ \cup {c}]
  /\ results' = [results EXCEPT ![r] = IF stage[<<r, c>>] = "served" THEN Append(@, c) ELSE @]
  /\ UNCHANGED <<setting, at, lock, memory, step, got, best, timing, result, dir, files, upsets, contested>>

Collected(r) ==
  /\ at[r] = "pool"
  /\ collected[r] = Configs
  /\ Goes(r, "bench")
  /\ collected' = [collected EXCEPT ![r] = {}]
  /\ UNCHANGED <<lock, memory, step, got, results, best, timing, result, dir, files, upsets, contested, stage, held, setting>>

\* Mutant: best_latency is not lowered.
LastBelowWorst(b, c, latency) ==
  IF latency < b.latency THEN [b EXCEPT !.config = c, !.kernel = c] ELSE b

Better(b, c, latency) ==
  IF latency < b.latency THEN [config |-> c, latency |-> latency, kernel |-> c] ELSE b

(***************************************************************************)
(* One kernel under run_with_timeout.  It is measured, or skipped: it      *)
(* raised, or the alarm rang, if only just after the measurement; in a     *)
(* thread that is not the main one, signal.signal always raises.           *)
(***************************************************************************)
Bench(r) ==
  LET c == Head(results[r]) IN
  /\ at[r] = "bench"
  /\ results[r] # <<>>
  /\ results' = [results EXCEPT ![r] = Tail(@)]
  /\ \/ /\ r \in setting.main
        /\ \E latency \in Latencies :
             /\ timing' = [timing EXCEPT ![r] = @ \cup {<<c, latency>>}]
             /\ best' = [best EXCEPT ![r] = Better(@, c, latency)]
     \/ UNCHANGED <<timing, best>>
  /\ UNCHANGED <<at, lock, memory, step, got, collected, result, dir, files, upsets, contested, stage, held, setting>>

\* RuntimeError when no configuration is left.
Benched(r) ==
  /\ at[r] = "bench"
  /\ results[r] = <<>>
  /\ Goes(r, IF best[r].kernel = "none" THEN "failed" ELSE "save")
  /\ UNCHANGED <<lock, memory, step, got, collected, results, best, timing, result, dir, files, upsets, contested, stage, held, setting>>

-----------------------------------------------------------------------------
\* The second critical section, up to the existence of the directory.
BeginSave(r) ==
  /\ at[r] = "save"
  /\ Acquire(r)
  /\ Goes(r, IF dir THEN "open" ELSE "mkdir")
  /\ contested' = (contested \/ Saving # {} \/ Loading # {} \/ files["params"] \in Configs)
  /\ timing' = [timing EXCEPT ![r] = {}]
  /\ best' = [best EXCEPT ![r].latency = Worst]
  /\ UNCHANGED <<memory, step, got, collected, results, result, dir, files, upsets, stage, held, setting>>

\* os.makedirs raises FileExistsError when another process was faster.
MakeDir(r) ==
  /\ at[r] = "mkdir"
  /\ dir' = TRUE
  /\ \/ /\ ~dir
        /\ Goes(r, "open")
        /\ UNCHANGED <<lock, best>>
     \/ /\ dir
        /\ Goes(r, "raised")
        /\ Release(r)
        /\ best' = [best EXCEPT ![r] = NoBest]
  /\ UNCHANGED <<memory, step, got, collected, results, timing, result, files, upsets, contested, stage, held, setting>>

Advance(r) ==
  IF step[r] = Len(SaveOrder)
  THEN /\ Goes(r, "store")
       /\ Release(r)
       /\ step' = [step EXCEPT ![r] = 1]
  ELSE /\ Goes(r, "open")
       /\ step' = [step EXCEPT ![r] = @ + 1]
       /\ UNCHANGED lock

\* What a file or an open that fails does: logged, or out of run().
Broken(r) ==
  \/ /\ SaveOrder[step[r]] \notin Unguarded
     /\ Advance(r)
     /\ UNCHANGED best
  \/ /\ SaveOrder[step[r]] \in Unguarded
     /\ Goes(r, "raised")
     /\ Release(r)
     /\ step' = [step EXCEPT ![r] = 1]
     /\ best' = [best EXCEPT ![r] = NoBest]

\* Mutant: a file that is there is not written again.
OpenMissing(r) ==
  LET f == SaveOrder[step[r]] IN
  /\ at[r] = "open"
  /\ IF files[f] \in Configs
     THEN Advance(r) /\ UNCHANGED <<files, dir>>
     ELSE /\ files' = [files EXCEPT ![f] = "partial"]
          /\ dir' = TRUE
          /\ Goes(r, "write")
          /\ UNCHANGED <<lock, step>>
  /\ UNCHANGED <<memory, got, collected, results, best, timing, result, upsets, contested, stage, held, setting>>

\* _save_kernel_to_disk makes the directory again, in case it was removed.
OpenFile(r) ==
  LET f == SaveOrder[step[r]]
      exists == dir \/ f = "wrapped"
  IN  /\ at[r] = "open"
      /\ dir' = exists
      /\ \/ /\ exists
            /\ files' = [files EXCEPT ![f] = "partial"]
            /\ Goes(r, "write")
            /\ UNCHANGED <<lock, step, best>>
         \/ /\ ~exists
            /\ Broken(r)
            /\ UNCHANGED files
      /\ UNCHANGED <<memory, got, collected, results, timing, result, upsets, contested, stage, held, setting>>

\* A file removed meanwhile stays removed.
WriteFile(r) ==
  LET f == SaveOrder[step[r]]
      content == IF f \in {"config", "latency"} THEN best[r].config ELSE best[r].kernel
  IN  /\ at[r] = "write"
      /\ \/ /\ files' = [files EXCEPT ![f] = IF @ = "absent" THEN @ ELSE content]
            /\ Advance(r)
            /\ UNCHANGED <<best, upsets, contested>>
         \/ /\ upsets < setting.bound
            /\ upsets' = upsets + 1
            /\ contested' = TRUE
            /\ Broken(r)
            /\ UNCHANGED files
      /\ UNCHANGED <<memory, got, collected, results, timing, result, dir, stage, held, setting>>

\* Outside the lock.
Store(r) ==
  LET tuned == {best[r].config, best[r].kernel} IN
  /\ at[r] = "store"
  /\ Goes(r, "returned")
  /\ memory' = [memory EXCEPT ![TunerProc[r]] = tuned]
  /\ result' = [result EXCEPT ![r] = tuned]
  /\ best' = [best EXCEPT ![r] = NoBest]
  /\ UNCHANGED <<lock, step, got, collected, results, timing, dir, files, upsets, contested, stage, held, setting>>

-----------------------------------------------------------------------------
\* clear_cache() of the kernel cache, whose directory holds the tuner's; the
\* tuner's memory stays.
ClearCache(p) ==
  /\ upsets < setting.bound
  /\ upsets' = upsets + 1
  /\ Clear(p)
  /\ dir' = FALSE
  /\ files' = Empty
  /\ contested' = (contested \/ Saving # {} \/ Loading # {})
  /\ UNCHANGED <<setting, at, lock, memory, step, got, collected, results, best, timing, result>>

Finished == {"returned", "raised", "failed"}

\* The process ends; a new one runs again what did not finish.
Crash(p) ==
  LET ended == {r \in setting.runs : TunerProc[r] = p /\ at[r] \notin Finished}
      Reset(state, initial) == [r \in Tuners |-> IF r \in ended THEN initial ELSE state[r]]
  IN  /\ upsets < setting.bound
      /\ upsets' = upsets + 1
      /\ Restart(p, ended \X Configs)
      /\ at' = Reset(at, "lookup")
      /\ lock' = [lock EXCEPT ![p] = Free]
      /\ memory' = [memory EXCEPT ![p] = {}]
      /\ step' = Reset(step, 1)
      /\ got' = Reset(got, Empty)
      /\ collected' = Reset(collected, {})
      /\ results' = Reset(results, <<>>)
      /\ best' = Reset(best, NoBest)
      /\ timing' = Reset(timing, {})
      /\ contested' = (contested \/ \E r \in ended \cap Saving :
                                      at[r] # "mkdir" /\ SaveOrder[step[r]] \in Unguarded)
      /\ UNCHANGED <<setting, result, dir, files>>

TunerInit ==
  /\ ServiceInit
  /\ setting \in Settings
  /\ at = [r \in Tuners |-> IF r \in setting.runs THEN "lookup" ELSE "absent"]
  /\ lock = [p \in Procs |-> Free]
  /\ memory = [p \in Procs |-> {}]
  /\ step = [r \in Tuners |-> 1]
  /\ got = [r \in Tuners |-> Empty]
  /\ collected = [r \in Tuners |-> {}]
  /\ results = [r \in Tuners |-> <<>>]
  /\ best = [r \in Tuners |-> NoBest]
  /\ timing = [r \in Tuners |-> {}]
  /\ result = [r \in Tuners |-> {}]
  /\ dir = FALSE
  /\ files = Empty
  /\ upsets = 0
  /\ contested = FALSE

Run(r) ==
  \/ Lookup(r) \/ ReadFile(r) \/ LoadLib(r)
  \/ \E c \in Configs : Collect(r, c)
  \/ Collected(r) \/ Bench(r) \/ Benched(r)
  \/ BeginSave(r) \/ MakeDir(r) \/ OpenFile(r) \/ WriteFile(r) \/ Store(r)

Worker(r) ==
  \/ \E i \in DOMAIN ConfigOrder : StartFuture(r, i)
  \/ \E c \in Configs : Serve(<<r, c>>)

TunerNext ==
  \/ \E r \in Tuners : Run(r) \/ Worker(r)
  \/ \E p \in Procs : ClearCache(p) \/ Crash(p)

TunerSpec == TunerInit /\ [][TunerNext]_allVars

\* While the thread of a run or one of its pool can go on, one of them does;
\* compilations end (EveryCallEnds), and the alarm ends a benchmark.
TunerFairness == \A r \in Tuners : WF_allVars(Run(r) \/ Worker(r))

FairTunerSpec == TunerSpec /\ TunerFairness

-----------------------------------------------------------------------------
(***************************************************************************)
(* The types, and _lock: whoever reads or writes the entry holds the lock  *)
(* of its process; and the entry has files only in its directory.          *)
(***************************************************************************)
TunerTypeOK ==
  /\ at \in [Tuners -> Finished \cup {"absent", "lookup", "read", "pool", "bench", "save", "mkdir", "open", "write", "store"}]
  /\ files \in [DOMAIN Empty -> Configs \cup {"absent", "partial"}]
  /\ \A r \in Tuners : r \in Saving \cup Loading <=> lock[TunerProc[r]] = r
  /\ \A r \in Tuners : at[r] = "returned" <=> result[r] # {}
  /\ ~dir => files = Empty

(***************************************************************************)
(* What a run saves is the least latency it measured, with the             *)
(* configuration that had it, in whatever order the compilations were      *)
(* completed and whatever benchmarks were skipped; and a run fails for     *)
(* want of a configuration only if none was below the initial latency.     *)
(***************************************************************************)
BestOfMeasured ==
  \A r \in Tuners :
    /\ at[r] = "save" =>
         /\ <<best[r].config, best[r].latency>> \in timing[r]
         /\ \A m \in timing[r] : best[r].latency <= m[2]
    /\ at[r] = "failed" => \A m \in timing[r] : m[2] >= Worst

(***************************************************************************)
(* AutotuneResult, "config: Configuration that produced the best result":  *)
(* a result that is returned, restored from disk included, is of one       *)
(* configuration in all its parts, though the files are written one by one *)
(* over those that a crash left; unless the entry was contested.           *)
(***************************************************************************)
ResultOfOneConfig ==
  \A r \in Tuners : at[r] = "returned" /\ ~contested => \E c \in Configs : result[r] = {c}

(***************************************************************************)
(* A crash from the fourth file on, or a clear between runs, costs a later *)
(* run a new tuning and never an exception: load_from_disk and             *)
(* save_to_disk raise only over a contested entry.                         *)
(***************************************************************************)
TunerRaisesOnlyContested == \A r \in Tuners : at[r] = "raised" => contested

(***************************************************************************)
(* Every run ends, though compilations fail, benchmarks time out and       *)
(* processes crash.                                                        *)
(***************************************************************************)
EveryRunEnds == \A r \in Tuners : <>(at[r] \in Finished \cup {"absent"})
=============================================================================
