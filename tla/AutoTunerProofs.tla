----------------------------- MODULE AutoTunerProofs -----------------------------
(***************************************************************************)
(* The auto-tuner for any processes, runs, configurations, latencies and   *)
(* faults: its locks exclude, and a run saves the best of what it          *)
(* measured.  TunerEntryProofs goes on to what runs return and raise.      *)
(***************************************************************************)
EXTENDS AutoTuner, TLAPS

Content == Configs \cup {"absent", "partial"}
Parts == Configs \cup {"none", "absent", "partial"}

Best == [config : Configs \cup {"none"}, latency : Int, kernel : Configs \cup {"none"}]

Critical == {"read", "mkdir", "open", "write"}
Places == Finished \cup Critical \cup {"absent", "lookup", "pool", "bench", "save", "store"}

Locking == \A r \in Tuners : at[r] \in Critical <=> lock[TunerProc[r]] = r

ControlInv ==
  /\ setting \in Settings
  /\ at \in [Tuners -> Places]
  /\ lock \in [Procs -> Tuners \cup {Free}]
  /\ Locking
  /\ \A r \in Tuners : r \notin setting.runs => at[r] = "absent"

DataInv ==
  /\ files \in [DOMAIN Empty -> Content]
  /\ memory \in [Procs -> SUBSET Parts]
  /\ step \in [Tuners -> 1 .. 7]
  /\ got \in [Tuners -> [DOMAIN Empty -> Content]]
  /\ results \in [Tuners -> Seq(Configs)]
  /\ best \in [Tuners -> Best]
  /\ timing \in [Tuners -> SUBSET (Configs \X Int)]
  /\ result \in [Tuners -> SUBSET Parts]
  /\ dir \in BOOLEAN /\ contested \in BOOLEAN
  /\ ~dir => files = Empty

\* What a run has, by where it is.
Has(r) ==
  /\ at[r] \notin {"read", "open", "write"} => step[r] = 1
  /\ best[r].kernel = best[r].config
  /\ at[r] \in {"save", "mkdir", "open", "write", "store"} => best[r].config # "none"
  /\ at[r] = "returned" <=> result[r] # {}

RunInv == \A r \in Tuners : Has(r)

TypeInv == ControlInv /\ DataInv /\ RunInv

(***************************************************************************)
(* The best so far: nothing until a benchmark is below the initial         *)
(* latency, and then the least of the latencies measured.                  *)
(***************************************************************************)
BestOf(r) ==
  /\ at[r] \in {"absent", "lookup", "read", "pool"} => best[r] = NoBest /\ timing[r] = {}
  /\ at[r] \in {"bench", "failed"} /\ best[r].kernel = "none" =>
       best[r] = NoBest /\ \A m \in timing[r] : m[2] >= Worst
  /\ at[r] = "failed" => best[r].kernel = "none"
  /\ at[r] \in {"bench", "save"} /\ best[r].kernel # "none" =>
       /\ <<best[r].config, best[r].latency>> \in timing[r]
       /\ \A m \in timing[r] : best[r].latency <= m[2]

BestSoFar == \A r \in Tuners : BestOf(r)

-----------------------------------------------------------------------------
(* Types and locks. *)

\* Seven files, saved and loaded in their orders.
LEMMA Orders ==
  /\ Len(SaveOrder) = 7 /\ Len(LoadOrder) = 7
  /\ \A i \in 1 .. 7 : SaveOrder[i] \in DOMAIN Empty /\ LoadOrder[i] \in DOMAIN Empty
  /\ \A i \in 1 .. 7 : SaveOrder[i] \in Unguarded <=> i <= 3
  /\ \A i \in 1 .. 7 : LoadOrder[i] \in Unguarded <=> i <= 3
BY DEF SaveOrder, LoadOrder, Empty, Unguarded

\* The initial best.
LEMMA NoBestTyped == NoBest \in Best
BY TunerAssumption DEF NoBest, Best

\* The invariant has the types in it.
LEMMA TypesFollow == TypeInv => TunerTypeOK
BY SMTT(20) DEF TypeInv, ControlInv, DataInv, RunInv, Has, TunerTypeOK, Locking, Places,
                 Critical, Content, Saving, Loading, Finished

(***************************************************************************)
(* Where a run goes, and what that does to the lock of its process: with   *)
(* self._lock is entered only when the lock is free, and left without it.  *)
(***************************************************************************)
MovesTo(r, w) ==
  /\ at[r] # "absent" /\ w # "absent"
  /\ at' = [at EXCEPT ![r] = w]
  /\ \/ (w \in Critical <=> at[r] \in Critical) /\ lock' = lock
     \/ w \in Critical /\ at[r] \notin Critical /\ Acquire(r)
     \/ w \notin Critical /\ at[r] \in Critical /\ Release(r)
  /\ setting' = setting

LEMMA RunMoves ==
  ASSUME TypeInv, NEW r \in Tuners, Run(r)
  PROVE  \E w \in Places : MovesTo(r, w)
<1> USE DEF Places, Finished, Critical, MovesTo, Goes
<1>0. at = [at EXCEPT ![r] = at[r]] /\ at[r] \in Places
  BY DEF TypeInv, ControlInv
<1>1. CASE Lookup(r)
  BY <1>0, <1>1 DEF Lookup
<1>2. CASE ReadFile(r)
  BY <1>0, <1>2 DEF ReadFile
<1>3. CASE LoadLib(r)
  BY <1>0, <1>3 DEF LoadLib
<1>4. CASE \E c \in Configs : Collect(r, c)
  BY <1>0, <1>4 DEF Collect
<1>5. CASE Collected(r) \/ Bench(r) \/ Benched(r)
  BY <1>0, <1>5 DEF Collected, Bench, Benched
<1>6. CASE BeginSave(r) \/ MakeDir(r)
  BY <1>0, <1>6 DEF BeginSave, MakeDir
<1>7. CASE OpenFile(r) \/ WriteFile(r)
  BY <1>0, <1>7 DEF OpenFile, WriteFile, Broken, Advance
<1>8. CASE Store(r)
  BY <1>0, <1>8 DEF Store
<1> QED
  BY <1>1, <1>2, <1>3, <1>4, <1>5, <1>6, <1>7, <1>8 DEF Run

LEMMA MovesKeepControl ==
  ASSUME TypeInv, NEW r \in Tuners, NEW w \in Places, MovesTo(r, w)
  PROVE  ControlInv'
<1>1. at' \in [Tuners -> Places] /\ lock' \in [Procs -> Tuners \cup {Free}]
  BY TunerAssumption DEF MovesTo, TypeInv, ControlInv, Acquire, Release
<1>2. ASSUME NEW q \in Tuners PROVE at'[q] \in Critical <=> lock'[TunerProc[q]] = q
  <2>1. TunerProc[q] \in Procs /\ TunerProc[r] \in Procs /\ Free # q /\ Free # r
    BY TunerAssumption
  <2>2. at'[q] = IF q = r THEN w ELSE at[q]
    BY DEF MovesTo, TypeInv, ControlInv
  <2>3. /\ at[q] \in Critical <=> lock[TunerProc[q]] = q
        /\ at[r] \in Critical <=> lock[TunerProc[r]] = r
    BY DEF TypeInv, ControlInv, Locking
  <2>4. lock \in [Procs -> Tuners \cup {Free}]
    BY DEF TypeInv, ControlInv
  <2>5. CASE (w \in Critical <=> at[r] \in Critical) /\ lock' = lock
    BY <2>2, <2>3, <2>5
  <2>6. CASE w \in Critical /\ at[r] \notin Critical /\ Acquire(r)
    BY <2>1, <2>2, <2>3, <2>4, <2>6 DEF Acquire
  <2>7. CASE w \notin Critical /\ at[r] \in Critical /\ Release(r)
    BY <2>1, <2>2, <2>3, <2>4, <2>7 DEF Release
  <2> QED
    BY <2>5, <2>6, <2>7 DEF MovesTo
<1> QED
  BY <1>1, <1>2 DEF MovesTo, TypeInv, ControlInv, Locking

\* A run writes its own state, and the memory of its process.
LEMMA RunWrites ==
  ASSUME TypeInv, NEW r \in Tuners, Run(r)
  PROVE  /\ \E x \in 1 .. 7 : step' = [step EXCEPT ![r] = x]
         /\ \E x \in [DOMAIN Empty -> Content] : got' = [got EXCEPT ![r] = x]
         /\ \E x \in Seq(Configs) : results' = [results EXCEPT ![r] = x]
         /\ \E x \in Best : best' = [best EXCEPT ![r] = x]
         /\ \E x \in SUBSET (Configs \X Int) : timing' = [timing EXCEPT ![r] = x]
         /\ \E x \in SUBSET Parts : result' = [result EXCEPT ![r] = x]
         /\ \E x \in SUBSET Parts : memory' = [memory EXCEPT ![TunerProc[r]] = x]
<1>0. DataInv /\ TunerProc[r] \in Procs /\ Worst \in Int /\ Latencies \subseteq Int
  BY TunerAssumption DEF TypeInv
<1>1. \E x \in 1 .. 7 : step' = [step EXCEPT ![r] = x]
  <2>1. step \in [Tuners -> 1 .. 7]
    BY <1>0 DEF DataInv
  <2>2. \/ step' = step \/ step' = [step EXCEPT ![r] = 1]
        \/ step[r] # 7 /\ step' = [step EXCEPT ![r] = step[r] + 1]
    <3>1. CASE ReadFile(r)
      BY <2>1, <3>1, Orders DEF ReadFile
    <3>2. CASE OpenFile(r) \/ WriteFile(r)
      <4>1. step' = step \/ step' = [step EXCEPT ![r] = 1] \/ Advance(r)
        BY <3>2 DEF OpenFile, WriteFile, Broken
      <4> QED
        BY <4>1, Orders DEF Advance
    <3>3. CASE ~(ReadFile(r) \/ OpenFile(r) \/ WriteFile(r))
      BY <3>3, Zenon DEF Run, Lookup, LoadLib, Collect, Collected, Bench, Benched, BeginSave, MakeDir, Store
    <3> QED
      BY <3>1, <3>2, <3>3
  <2>3. step[r] # 7 => step[r] + 1 \in 1 .. 7
    BY <2>1
  <2>4. step = [step EXCEPT ![r] = step[r]] /\ step[r] \in 1 .. 7
    BY <2>1
  <2> QED
    BY <2>2, <2>3, <2>4
<1>2. \E x \in [DOMAIN Empty -> Content] : got' = [got EXCEPT ![r] = x]
  <2>1. got \in [Tuners -> [DOMAIN Empty -> Content]] /\ files \in [DOMAIN Empty -> Content]
        /\ step[r] \in 1 .. 7
    BY <1>0 DEF DataInv
  <2>2. \/ got' = got \/ got' = [got EXCEPT ![r] = Empty]
        \/ got' = [got EXCEPT ![r] = [got[r] EXCEPT ![LoadOrder[step[r]]] = files[LoadOrder[step[r]]]]]
    BY Zenon DEF Run, Lookup, ReadFile, LoadLib, Collect, Collected, Bench, Benched, BeginSave, MakeDir,
           OpenFile, WriteFile, Store
  <2>3. Empty \in [DOMAIN Empty -> Content] /\ got = [got EXCEPT ![r] = got[r]]
    BY <2>1 DEF Empty, Content
  <2>4. [got[r] EXCEPT ![LoadOrder[step[r]]] = files[LoadOrder[step[r]]]] \in [DOMAIN Empty -> Content]
    BY <2>1, Orders
  <2> QED
    BY <2>1, <2>2, <2>3, <2>4
<1>3. \E x \in Seq(Configs) : results' = [results EXCEPT ![r] = x]
  <2>1. results \in [Tuners -> Seq(Configs)]
    BY <1>0 DEF DataInv
  <2>2. \/ results' = results \/ \E c \in Configs : results' = [results EXCEPT ![r] = Append(results[r], c)]
        \/ results[r] # <<>> /\ results' = [results EXCEPT ![r] = Tail(results[r])]
    BY <2>1, Zenon DEF Run, Lookup, ReadFile, LoadLib, Collect, Collected, Bench, Benched, BeginSave, MakeDir,
           OpenFile, WriteFile, Store
  <2>3. results = [results EXCEPT ![r] = results[r]] /\ results[r] \in Seq(Configs)
    BY <2>1
  <2>4. \A c \in Configs : Append(results[r], c) \in Seq(Configs)
    BY <2>3
  <2>5. results[r] # <<>> => Tail(results[r]) \in Seq(Configs)
    BY <2>3
  <2> QED
    BY <2>2, <2>3, <2>4, <2>5, Zenon
<1>4. \E x \in Best : best' = [best EXCEPT ![r] = x]
  <2>1. best \in [Tuners -> Best] /\ results[r] \in Seq(Configs)
    BY <1>0, SMTT(20) DEF DataInv
  <2>2. \/ best' = best \/ best' = [best EXCEPT ![r] = NoBest]
        \/ best' = [best EXCEPT ![r] = [best[r] EXCEPT !.latency = Worst]]
        \/ /\ results[r] # <<>>
           /\ \E latency \in Latencies : best' = [best EXCEPT ![r] = Better(best[r], Head(results[r]), latency)]
    BY Zenon DEF Run, Lookup, ReadFile, LoadLib, Collect, Collected, Bench, Benched, BeginSave, MakeDir,
           OpenFile, WriteFile, Store, Broken
  <2>3. best = [best EXCEPT ![r] = best[r]] /\ best[r] \in Best
    BY <2>1
  <2>4. [best[r] EXCEPT !.latency = Worst] \in Best
    BY <1>0, <2>1 DEF Best
  <2>5. results[r] # <<>> => \A latency \in Latencies : Better(best[r], Head(results[r]), latency) \in Best
    <3>1. results[r] # <<>> => Head(results[r]) \in Configs
      BY <2>1
    <3> QED
      BY <1>0, <2>1, <3>1 DEF Best, Better
  <2> QED
    BY <2>2, <2>3, <2>4, <2>5, NoBestTyped
<1>5. \E x \in SUBSET (Configs \X Int) : timing' = [timing EXCEPT ![r] = x]
  <2>1. timing \in [Tuners -> SUBSET (Configs \X Int)] /\ results[r] \in Seq(Configs)
    BY <1>0 DEF DataInv
  <2>2. \/ timing' = timing \/ timing' = [timing EXCEPT ![r] = {}]
        \/ /\ results[r] # <<>>
           /\ \E latency \in Latencies :
                timing' = [timing EXCEPT ![r] = timing[r] \cup {<<Head(results[r]), latency>>}]
    BY Zenon DEF Run, Lookup, ReadFile, LoadLib, Collect, Collected, Bench, Benched, BeginSave, MakeDir,
           OpenFile, WriteFile, Store
  <2>3. timing = [timing EXCEPT ![r] = timing[r]] /\ timing[r] \subseteq Configs \X Int
    BY <2>1
  <2>4. results[r] # <<>> =>
          \A latency \in Latencies : timing[r] \cup {<<Head(results[r]), latency>>} \subseteq Configs \X Int
    <3>1. results[r] # <<>> => Head(results[r]) \in Configs
      BY <2>1
    <3> QED
      BY <1>0, <2>3, <3>1
  <2> QED
    BY <2>2, <2>3, <2>4, Zenon
<1>6. /\ \E x \in SUBSET Parts : result' = [result EXCEPT ![r] = x]
      /\ \E x \in SUBSET Parts : memory' = [memory EXCEPT ![TunerProc[r]] = x]
  <2>1. /\ result \in [Tuners -> SUBSET Parts] /\ memory \in [Procs -> SUBSET Parts]
        /\ result = [result EXCEPT ![r] = result[r]] /\ result[r] \subseteq Parts
        /\ memory = [memory EXCEPT ![TunerProc[r]] = memory[TunerProc[r]]] /\ memory[TunerProc[r]] \subseteq Parts
    BY <1>0 DEF DataInv
  <2>2. CASE Lookup(r)
    BY <2>1, <2>2 DEF Lookup
  <2>3. CASE LoadLib(r)
    <3> DEFINE parts == [got[r] EXCEPT !["lib"] = files["lib"]]
               loaded == {parts[f] : f \in {g \in DOMAIN parts : g = "gm" => parts[g] \in Configs}}
    <3>1. \/ result' = result /\ memory' = memory
          \/ result' = [result EXCEPT ![r] = loaded] /\ memory' = [memory EXCEPT ![TunerProc[r]] = loaded]
      BY <2>3 DEF LoadLib
    <3>2. parts \in [DOMAIN Empty -> Content]
      BY <1>0 DEF DataInv, Empty
    <3>3. loaded \subseteq Parts
      BY <3>2 DEF Parts, Content
    <3> QED
      BY <2>1, <3>1, <3>3
  <2>4. CASE Store(r)
    <3>1. {best[r].config, best[r].kernel} \subseteq Parts
      BY <1>0 DEF DataInv, Best, Parts
    <3> QED
      BY <2>1, <2>4, <3>1, Zenon DEF Store
  <2>5. CASE ~(Lookup(r) \/ LoadLib(r) \/ Store(r))
    <3>1. result' = result /\ memory' = memory
      BY <2>5, Zenon DEF Run, ReadFile, Collect, Collected, Bench, Benched, BeginSave, MakeDir, OpenFile, WriteFile
    <3> QED
      BY <2>1, <3>1
  <2> QED
    BY <2>2, <2>3, <2>4, <2>5
<1> QED
  BY <1>1, <1>2, <1>3, <1>4, <1>5, <1>6, Zenon

\* A run leaves the state of the others alone.
LEMMA RunFrame ==
  ASSUME TypeInv, NEW r \in Tuners, Run(r), NEW q \in Tuners, q # r
  PROVE  /\ at'[q] = at[q] /\ step'[q] = step[q] /\ got'[q] = got[q]
         /\ best'[q] = best[q] /\ timing'[q] = timing[q] /\ result'[q] = result[q]
<1>1. PICK w \in Places : MovesTo(r, w)
  BY RunMoves
<1>2. at'[q] = at[q]
  BY <1>1 DEF MovesTo, TypeInv, ControlInv
<1>3. step'[q] = step[q] /\ got'[q] = got[q]
  <2>1. step \in [Tuners -> 1 .. 7] /\ got \in [Tuners -> [DOMAIN Empty -> Content]]
    BY DEF TypeInv, DataInv
  <2>2. (\E x : step' = [step EXCEPT ![r] = x]) /\ (\E x : got' = [got EXCEPT ![r] = x])
    BY RunWrites, Zenon
  <2> QED
    BY <2>1, <2>2
<1>4. best'[q] = best[q] /\ timing'[q] = timing[q] /\ result'[q] = result[q]
  <2>1. /\ best \in [Tuners -> Best] /\ timing \in [Tuners -> SUBSET (Configs \X Int)]
        /\ result \in [Tuners -> SUBSET Parts]
    BY DEF TypeInv, DataInv
  <2>2. /\ \E x : best' = [best EXCEPT ![r] = x]
        /\ \E x : timing' = [timing EXCEPT ![r] = x]
        /\ \E x : result' = [result EXCEPT ![r] = x]
    BY RunWrites, Zenon
  <2> QED
    BY <2>1, <2>2
<1> QED
  BY <1>2, <1>3, <1>4

\* The types of what a run writes, and that a file needs the directory.
LEMMA RunData ==
  ASSUME TypeInv, NEW r \in Tuners, Run(r)
  PROVE  DataInv'
<1>1. DataInv /\ TunerProc[r] \in Procs
  BY TunerAssumption DEF TypeInv
<1>2. /\ step' \in [Tuners -> 1 .. 7]
      /\ got' \in [Tuners -> [DOMAIN Empty -> Content]]
      /\ results' \in [Tuners -> Seq(Configs)]
      /\ best' \in [Tuners -> Best]
      /\ timing' \in [Tuners -> SUBSET (Configs \X Int)]
      /\ result' \in [Tuners -> SUBSET Parts]
      /\ memory' \in [Procs -> SUBSET Parts]
  <2>1. step' \in [Tuners -> 1 .. 7]
    <3>1. step \in [Tuners -> 1 .. 7]
      BY <1>1 DEF DataInv
    <3>2. PICK x \in 1 .. 7 : step' = [step EXCEPT ![r] = x]
      BY RunWrites
    <3> QED
      BY <1>1, <3>1, <3>2
  <2>2. got' \in [Tuners -> [DOMAIN Empty -> Content]]
    <3>1. got \in [Tuners -> [DOMAIN Empty -> Content]]
      BY <1>1 DEF DataInv
    <3>2. PICK x \in [DOMAIN Empty -> Content] : got' = [got EXCEPT ![r] = x]
      BY RunWrites
    <3> QED
      BY <1>1, <3>1, <3>2
  <2>3. results' \in [Tuners -> Seq(Configs)]
    <3>1. results \in [Tuners -> Seq(Configs)]
      BY <1>1 DEF DataInv
    <3>2. PICK x \in Seq(Configs) : results' = [results EXCEPT ![r] = x]
      BY RunWrites
    <3> QED
      BY <1>1, <3>1, <3>2
  <2>4. best' \in [Tuners -> Best]
    <3>1. best \in [Tuners -> Best]
      BY <1>1 DEF DataInv
    <3>2. PICK x \in Best : best' = [best EXCEPT ![r] = x]
      BY RunWrites
    <3> QED
      BY <1>1, <3>1, <3>2
  <2>5. timing' \in [Tuners -> SUBSET (Configs \X Int)]
    <3>1. timing \in [Tuners -> SUBSET (Configs \X Int)]
      BY <1>1 DEF DataInv
    <3>2. PICK x \in SUBSET (Configs \X Int) : timing' = [timing EXCEPT ![r] = x]
      BY RunWrites, Zenon
    <3> QED
      BY <1>1, <3>1, <3>2
  <2>6. result' \in [Tuners -> SUBSET Parts]
    <3>1. result \in [Tuners -> SUBSET Parts]
      BY <1>1 DEF DataInv
    <3>2. PICK x \in SUBSET Parts : result' = [result EXCEPT ![r] = x]
      BY RunWrites, Zenon
    <3> QED
      BY <1>1, <3>1, <3>2
  <2>7. memory' \in [Procs -> SUBSET Parts]
    <3>1. memory \in [Procs -> SUBSET Parts]
      BY <1>1 DEF DataInv
    <3>2. PICK x \in SUBSET Parts : memory' = [memory EXCEPT ![TunerProc[r]] = x]
      BY RunWrites, Zenon
    <3> QED
      BY <1>1, <3>1, <3>2
  <2> QED
    BY <2>1, <2>2, <2>3, <2>4, <2>5, <2>6, <2>7
<1>3. /\ files' \in [DOMAIN Empty -> Content]
      /\ dir' \in BOOLEAN
      /\ ~dir' => files' = Empty
  <2>1. files \in [DOMAIN Empty -> Content] /\ dir \in BOOLEAN /\ (~dir => files = Empty)
    BY <1>1 DEF DataInv
  <2>2. SaveOrder[step[r]] \in DOMAIN Empty
    BY <1>1, Orders DEF DataInv
  <2>3. CASE OpenFile(r)
    BY <2>1, <2>2, <2>3, Zenon DEF OpenFile, Content
  <2>4. CASE WriteFile(r)
    <3>1. best[r] \in Best /\ best[r].config # "none" /\ best[r].kernel = best[r].config
      BY <1>1, <2>4 DEF WriteFile, TypeInv, RunInv, Has, DataInv
    <3>2. best[r].config \in Configs /\ best[r].kernel \in Configs
      BY <3>1 DEF Best
    <3>3. ~dir => files[SaveOrder[step[r]]] = "absent"
      BY <2>1, <2>2 DEF Empty
    <3>4. \/ files' = files
          \/ \E c \in Configs : files' = [files EXCEPT ![SaveOrder[step[r]]] = IF @ = "absent" THEN @ ELSE c]
      BY <2>4, <3>2 DEF WriteFile
    <3> QED
      BY <2>1, <2>2, <2>4, <3>3, <3>4 DEF WriteFile, Content
  <2>5. CASE MakeDir(r)
    BY <2>1, <2>5, SMTT(20) DEF MakeDir
  <2>6. CASE ~(OpenFile(r) \/ WriteFile(r) \/ MakeDir(r))
    BY <2>1, <2>6, Zenon DEF Run, Lookup, ReadFile, LoadLib, Collect, Collected, Bench, Benched, BeginSave, Store
  <2> QED
    BY <2>3, <2>4, <2>5, <2>6
<1>4. contested' \in BOOLEAN
  BY <1>1, Zenon DEF Run, Lookup, ReadFile, LoadLib, Collect, Collected, Bench, Benched, BeginSave, MakeDir,
              OpenFile, WriteFile, Store, DataInv
<1> QED
  BY <1>2, <1>3, <1>4 DEF DataInv

\* What a run has where it goes.
LEMMA RunHas ==
  ASSUME TypeInv, NEW r \in Tuners, Run(r)
  PROVE  RunInv'
<1> SUFFICES Has(r)'
  BY RunFrame DEF TypeInv, RunInv, Has
<1>1. Has(r) /\ DataInv /\ at \in [Tuners -> Places]
  BY DEF TypeInv, RunInv, ControlInv
<1>2. CASE Lookup(r)
  BY <1>1, <1>2 DEF Lookup, Goes, Has, DataInv
<1>3. CASE ReadFile(r)
  BY <1>1, <1>3 DEF ReadFile, Goes, Has, DataInv
<1>4. CASE LoadLib(r)
  <2> DEFINE parts == [got[r] EXCEPT !["lib"] = files["lib"]]
             loaded == {parts[f] : f \in {g \in DOMAIN parts : g = "gm" => parts[g] \in Configs}}
  <2>1. parts["config"] \in loaded
    BY <1>1, Zenon DEF DataInv, Empty
  <2>2. \/ at' = [at EXCEPT ![r] = "returned"] /\ result' = [result EXCEPT ![r] = loaded]
        \/ (\E w \in {"raised", "pool"} : at' = [at EXCEPT ![r] = w]) /\ result' = result
    BY <1>4 DEF LoadLib, Goes
  <2>3. at[r] = "read" /\ step' = [step EXCEPT ![r] = 1] /\ best' = best
    BY <1>4 DEF LoadLib
  <2> HIDE DEF loaded
  <2> QED
    BY <1>1, <2>1, <2>2, <2>3 DEF Has, DataInv
<1>5. CASE \E c \in Configs : Collect(r, c)
  BY <1>1, <1>5 DEF Collect, Has
<1>6. CASE Collected(r) \/ Benched(r)
  BY <1>1, <1>6 DEF Collected, Benched, Goes, Has
<1>7. CASE Bench(r)
  BY <1>1, <1>7 DEF Bench, Better, Has, DataInv
<1>8. CASE BeginSave(r)
  BY <1>1, <1>8 DEF BeginSave, Goes, Has, DataInv, Best
<1>9. CASE MakeDir(r)
  BY <1>1, <1>9 DEF MakeDir, Goes, Has, DataInv, NoBest
<1>10. CASE OpenFile(r)
  BY <1>1, <1>10 DEF OpenFile, Broken, Advance, Goes, Has, DataInv, NoBest
<1>11. CASE WriteFile(r)
  BY <1>1, <1>11 DEF WriteFile, Broken, Advance, Goes, Has, DataInv, NoBest
<1>12. CASE Store(r)
  BY <1>1, <1>12 DEF Store, Goes, Has, DataInv, NoBest
<1> QED
  BY <1>2, <1>3, <1>4, <1>5, <1>6, <1>7, <1>8, <1>9, <1>10, <1>11, <1>12 DEF Run

\* What else changes: the kernel cache at work, a cleared cache, a crash.
LEMMA WorkerStutters ==
  ASSUME NEW r \in Tuners, Worker(r)
  PROVE  UNCHANGED tunerVars
BY Zenon DEF Worker, StartFuture, Serve

\* The runs of a process that a crash ends, and what becomes of them.
Ended(p) == {r \in setting.runs : TunerProc[r] = p /\ at[r] \notin Finished}

LEMMA CrashFacts ==
  ASSUME NEW p \in Procs, Crash(p)
  PROVE  /\ at' = [r \in Tuners |-> IF r \in Ended(p) THEN "lookup" ELSE at[r]]
         /\ step' = [r \in Tuners |-> IF r \in Ended(p) THEN 1 ELSE step[r]]
         /\ got' = [r \in Tuners |-> IF r \in Ended(p) THEN Empty ELSE got[r]]
         /\ results' = [r \in Tuners |-> IF r \in Ended(p) THEN <<>> ELSE results[r]]
         /\ best' = [r \in Tuners |-> IF r \in Ended(p) THEN NoBest ELSE best[r]]
         /\ timing' = [r \in Tuners |-> IF r \in Ended(p) THEN {} ELSE timing[r]]
         /\ lock' = [lock EXCEPT ![p] = Free]
         /\ memory' = [memory EXCEPT ![p] = {}]
         /\ UNCHANGED <<setting, result, dir, files>>
BY DEF Crash, Ended

LEMMA CrashTypes ==
  ASSUME TypeInv, NEW p \in Procs, Crash(p)
  PROVE  TypeInv'
<1>1. ControlInv /\ DataInv /\ RunInv
  BY DEF TypeInv
<1>2. \A r \in Tuners : TunerProc[r] = p /\ at[r] \notin Finished \cup {"absent"} => r \in Ended(p)
  BY <1>1 DEF ControlInv, Ended
<1>3. \A r \in Tuners : at'[r] = IF r \in Ended(p) THEN "lookup" ELSE at[r]
  BY CrashFacts
<1>4. at' \in [Tuners -> Places] /\ lock' \in [Procs -> Tuners \cup {Free}]
  <2>1. "lookup" \in Places
    BY DEF Places
  <2> QED
    BY <1>1, <2>1, CrashFacts DEF ControlInv
<1>5. ASSUME NEW r \in Tuners PROVE at'[r] \in Critical <=> lock'[TunerProc[r]] = r
  <2>1. lock' = [lock EXCEPT ![p] = Free] /\ lock \in [Procs -> Tuners \cup {Free}]
    BY <1>1, CrashFacts DEF ControlInv
  <2>2. TunerProc[r] \in Procs /\ Free # r /\ (at[r] \in Critical <=> lock[TunerProc[r]] = r)
    BY <1>1, TunerAssumption DEF ControlInv, Locking
  <2>3. CASE TunerProc[r] = p
    BY <1>2, <1>3, <2>1, <2>2, <2>3 DEF Critical, Finished
  <2>4. CASE TunerProc[r] # p
    BY <1>3, <2>1, <2>2, <2>4 DEF Ended
  <2> QED
    BY <2>3, <2>4
<1>6. \A r \in Tuners : r \notin setting'.runs => at'[r] = "absent"
  BY <1>1, <1>3, CrashFacts DEF ControlInv, Ended
<1>7. ControlInv'
  BY <1>1, <1>4, <1>5, <1>6, CrashFacts DEF ControlInv, Locking
<1>8. DataInv'
  <2>1. step' \in [Tuners -> 1 .. 7] /\ timing' \in [Tuners -> SUBSET (Configs \X Int)]
    <3>1. /\ step' = [r \in Tuners |-> IF r \in Ended(p) THEN 1 ELSE step[r]]
          /\ timing' = [r \in Tuners |-> IF r \in Ended(p) THEN {} ELSE timing[r]]
      BY CrashFacts
    <3>2. step \in [Tuners -> 1 .. 7] /\ timing \in [Tuners -> SUBSET (Configs \X Int)]
      BY <1>1 DEF DataInv
    <3> QED
      BY <3>1, <3>2, SMTT(20)
  <2>2. got' \in [Tuners -> [DOMAIN Empty -> Content]] /\ Empty \in [DOMAIN Empty -> Content]
    <3>1. Empty \in [DOMAIN Empty -> Content]
      BY DEF Empty, Content
    <3> QED
      BY <1>1, <3>1, CrashFacts, Zenon DEF DataInv
  <2>3. results' \in [Tuners -> Seq(Configs)]
    <3>1. results' = [r \in Tuners |-> IF r \in Ended(p) THEN <<>> ELSE results[r]]
      BY CrashFacts
    <3>2. results \in [Tuners -> Seq(Configs)] /\ <<>> \in Seq(Configs)
      BY <1>1 DEF DataInv
    <3> QED
      BY <3>1, <3>2
  <2>4. best' \in [Tuners -> Best]
    BY <1>1, NoBestTyped, CrashFacts, SMTT(20) DEF DataInv
  <2>5. memory' \in [Procs -> SUBSET Parts]
    BY <1>1, CrashFacts, Zenon DEF DataInv
  <2>6. contested' \in BOOLEAN
    BY <1>1 DEF Crash, DataInv
  <2> QED
    BY <1>1, <2>1, <2>2, <2>3, <2>4, <2>5, <2>6, CrashFacts DEF DataInv
<1>9. ASSUME NEW r \in Tuners PROVE Has(r)'
  <2>1. /\ step'[r] = IF r \in Ended(p) THEN 1 ELSE step[r]
        /\ best'[r] = IF r \in Ended(p) THEN NoBest ELSE best[r]
        /\ result'[r] = result[r]
    BY CrashFacts
  <2>2. Has(r) /\ (r \in Ended(p) => at[r] # "returned")
    BY <1>1 DEF RunInv, Ended, Finished
  <2> QED
    BY <1>3, <2>1, <2>2 DEF Has, NoBest
<1> QED
  BY <1>7, <1>8, <1>9 DEF TypeInv, RunInv

LEMMA TypeStep == TypeInv /\ [TunerNext]_allVars => TypeInv'
<1> SUFFICES ASSUME TypeInv, [TunerNext]_allVars PROVE TypeInv'
  OBVIOUS
<1>1. ASSUME NEW r \in Tuners, Run(r) PROVE TypeInv'
  BY <1>1, RunMoves, MovesKeepControl, RunData, RunHas DEF TypeInv
<1>2. ASSUME UNCHANGED tunerVars PROVE TypeInv'
  BY <1>2 DEF TypeInv, ControlInv, Locking, DataInv, RunInv, Has, tunerVars
<1>3. ASSUME NEW p \in Procs, ClearCache(p) PROVE TypeInv'
  <2>1. ControlInv' /\ RunInv'
    BY <1>3 DEF ClearCache, TypeInv, ControlInv, Locking, RunInv, Has
  <2>2. DataInv'
    BY <1>3, Zenon DEF ClearCache, TypeInv, DataInv, Empty, Content
  <2> QED
    BY <2>1, <2>2 DEF TypeInv
<1> QED
  BY <1>1, <1>2, <1>3, WorkerStutters, CrashTypes DEF TunerNext, allVars

LEMMA TypeInit == TunerInit => TypeInv
<1> SUFFICES ASSUME TunerInit PROVE TypeInv
  OBVIOUS
<1>1. ControlInv
  BY TunerAssumption DEF TunerInit, ControlInv, Places, Critical, Finished, Locking
<1>2. DataInv
  <2>1. Empty \in [DOMAIN Empty -> Content]
    BY DEF Empty, Content
  <2>2. results \in [Tuners -> Seq(Configs)]
    BY DEF TunerInit
  <2>3. step \in [Tuners -> 1 .. 7] /\ timing \in [Tuners -> SUBSET (Configs \X Int)]
    BY DEF TunerInit
  <2>4. /\ best \in [Tuners -> Best] /\ got \in [Tuners -> [DOMAIN Empty -> Content]]
        /\ memory \in [Procs -> SUBSET Parts] /\ result \in [Tuners -> SUBSET Parts]
    BY <2>1, NoBestTyped DEF TunerInit
  <2> QED
    BY <2>1, <2>2, <2>3, <2>4, Zenon DEF TunerInit, DataInv
<1>3. RunInv
  BY DEF TunerInit, RunInv, Has, NoBest
<1> QED
  BY <1>1, <1>2, <1>3 DEF TypeInv

\* The types, and _lock: whoever reads or writes the entry holds the lock of
\* its process, so that no two runs of a process do, whatever crashes; and the
\* entry has files only in its directory.
THEOREM TunerLocksExclude == TunerSpec => []TunerTypeOK
BY TypeInit, TypeStep, TypesFollow, PTL DEF TunerSpec

-----------------------------------------------------------------------------
(* The best of what was measured. *)

\* One benchmark keeps the best so far the best so far.
LEMMA BenchKeepsBest ==
  ASSUME TypeInv, BestSoFar, NEW r \in Tuners, Bench(r)
  PROVE  BestOf(r)'
<1>1. /\ at[r] = "bench" /\ at'[r] = "bench" /\ BestOf(r) /\ Has(r)
      /\ best \in [Tuners -> Best] /\ best[r] \in Best
      /\ timing \in [Tuners -> SUBSET (Configs \X Int)] /\ timing[r] \subseteq Configs \X Int
      /\ results[r] \in Seq(Configs) /\ results[r] # <<>>
  BY DEF Bench, TypeInv, RunInv, DataInv, BestSoFar
<1>2. CASE timing' = timing /\ best' = best
  BY <1>1, <1>2 DEF BestOf
<1>3. ASSUME NEW latency \in Latencies,
             timing' = [timing EXCEPT ![r] = timing[r] \cup {<<Head(results[r]), latency>>}],
             best' = [best EXCEPT ![r] = Better(best[r], Head(results[r]), latency)]
      PROVE  BestOf(r)'
  <2> DEFINE c == Head(results[r])
  <2>1. c \in Configs /\ c # "none" /\ latency \in Int /\ Worst \in Int
    BY <1>1, TunerAssumption
  <2> HIDE DEF c
  <2>2. timing'[r] = timing[r] \cup {<<c, latency>>} /\ best'[r] = Better(best[r], c, latency)
    BY <1>1, <1>3 DEF c
  <2>3. best[r].latency \in Int /\ \A m \in timing[r] : m[2] \in Int
    BY <1>1 DEF Best
  <2>4. CASE latency < best[r].latency
    <3>1. best'[r].config = c /\ best'[r].kernel = c /\ best'[r].latency = latency
      BY <2>2, <2>4 DEF Better
    <3>2. \A m \in timing[r] : latency <= m[2]
      <4>1. CASE best[r].kernel = "none"
        BY <1>1, <2>1, <2>3, <2>4, <4>1 DEF BestOf, NoBest
      <4>2. CASE best[r].kernel # "none"
        BY <1>1, <2>1, <2>3, <2>4, <4>2 DEF BestOf
      <4> QED
        BY <4>1, <4>2
    <3>3. \A m \in timing'[r] : latency <= m[2]
      BY <2>1, <2>2, <3>2
    <3> QED
      BY <1>1, <2>1, <2>2, <3>1, <3>3 DEF BestOf
  <2>5. CASE ~(latency < best[r].latency)
    <3>1. best'[r] = best[r]
      BY <2>2, <2>5 DEF Better
    <3>2. best[r].latency <= latency
      BY <2>1, <2>3, <2>5
    <3>3. CASE best[r].kernel = "none"
      <4>1. best[r] = NoBest /\ Worst <= latency
        BY <1>1, <3>2, <3>3, SMTT(20) DEF BestOf, NoBest
      <4>2. \A m \in timing'[r] : m[2] >= Worst
        BY <1>1, <2>1, <2>2, <3>3, <4>1 DEF BestOf
      <4> QED
        BY <1>1, <3>1, <3>3, <4>1, <4>2, SMTT(20) DEF BestOf
    <3>4. CASE best[r].kernel # "none"
      BY <1>1, <2>1, <2>2, <3>1, <3>2, <3>4 DEF BestOf
    <3> QED
      BY <3>3, <3>4
  <2> QED
    BY <2>4, <2>5
<1> QED
  BY <1>2, <1>3, Zenon DEF Bench

\* A run whose place, best and measurements stay keeps its best.
LEMMA BestStays ==
  ASSUME NEW q, BestOf(q), at'[q] = at[q], best'[q] = best[q], timing'[q] = timing[q]
  PROVE  BestOf(q)'
BY DEF BestOf

LEMMA BestStep == TypeInv /\ BestSoFar /\ [TunerNext]_allVars => BestSoFar'
<1> SUFFICES ASSUME TypeInv, BestSoFar, [TunerNext]_allVars PROVE BestSoFar'
  OBVIOUS
<1>1. ASSUME NEW r \in Tuners, Run(r) PROVE BestSoFar'
  <2>0. ASSUME NEW q \in Tuners, q # r PROVE BestOf(q)'
    <3>1. BestOf(q) /\ at'[q] = at[q] /\ best'[q] = best[q] /\ timing'[q] = timing[q]
      BY <1>1, <2>0, RunFrame DEF BestSoFar
    <3> QED
      BY <3>1, BestStays
  <2> SUFFICES BestOf(r)'
    BY <2>0 DEF BestSoFar
  <2>1. /\ BestOf(r) /\ Has(r) /\ at \in [Tuners -> Places] /\ best \in [Tuners -> Best]
        /\ timing \in [Tuners -> SUBSET (Configs \X Int)]
    BY DEF TypeInv, RunInv, ControlInv, DataInv, BestSoFar
  <2>2. CASE Bench(r)
    BY <2>2, BenchKeepsBest
  <2>3. CASE Collected(r) \/ Benched(r)
    <3>1. CASE Collected(r)
      <4>1. best'[r] = NoBest /\ timing'[r] = {} /\ at'[r] = "bench" /\ best'[r].kernel = "none"
        BY <2>1, <3>1 DEF Collected, Goes, BestOf, NoBest
      <4> QED
        BY <4>1 DEF BestOf
    <3>2. CASE Benched(r)
      BY <2>1, <3>2, SMTT(20) DEF Benched, Goes, BestOf, NoBest
    <3> QED
      BY <2>3, <3>1, <3>2
  <2>4. CASE Lookup(r) \/ ReadFile(r) \/ LoadLib(r)
    <3>1. /\ best' = best /\ timing' = timing
          /\ at[r] \in {"lookup", "read"} /\ at'[r] \in {"lookup", "read", "pool", "returned", "raised"}
      BY <2>1, <2>4, SMTT(20) DEF Lookup, ReadFile, LoadLib, Goes
    <3> QED
      BY <2>1, <3>1 DEF BestOf
  <2>5. CASE \E c \in Configs : Collect(r, c)
    BY <2>1, <2>5, Zenon DEF Collect, BestOf
  <2>6. CASE BeginSave(r) \/ MakeDir(r) \/ Store(r)
    BY <2>1, <2>6, SMTT(20) DEF BeginSave, MakeDir, Store, Goes, BestOf
  <2>7. CASE OpenFile(r) \/ WriteFile(r)
    BY <2>1, <2>7 DEF OpenFile, WriteFile, Broken, Advance, Goes, BestOf
  <2> QED
    BY <1>1, <2>2, <2>3, <2>4, <2>5, <2>6, <2>7, SMTT(20) DEF Run
<1>2. ASSUME UNCHANGED tunerVars PROVE BestSoFar'
  BY <1>2 DEF BestSoFar, BestOf, tunerVars
<1>3. ASSUME NEW p \in Procs, ClearCache(p) PROVE BestSoFar'
  BY <1>3 DEF ClearCache, BestSoFar, BestOf
<1>4. ASSUME NEW p \in Procs, Crash(p) PROVE BestSoFar'
  <2> SUFFICES ASSUME NEW r \in Tuners PROVE BestOf(r)'
    BY DEF BestSoFar
  <2>1. /\ at'[r] = IF r \in Ended(p) THEN "lookup" ELSE at[r]
        /\ best'[r] = IF r \in Ended(p) THEN NoBest ELSE best[r]
        /\ timing'[r] = IF r \in Ended(p) THEN {} ELSE timing[r]
    <3>1. /\ at' = [q \in Tuners |-> IF q \in Ended(p) THEN "lookup" ELSE at[q]]
          /\ best' = [q \in Tuners |-> IF q \in Ended(p) THEN NoBest ELSE best[q]]
          /\ timing' = [q \in Tuners |-> IF q \in Ended(p) THEN {} ELSE timing[q]]
      BY <1>4, CrashFacts
    <3> QED
      BY <3>1, SMTT(20)
  <2>2. BestOf(r)
    BY DEF BestSoFar
  <2>3. CASE r \in Ended(p)
    BY <2>1, <2>3 DEF BestOf, NoBest
  <2>4. CASE r \notin Ended(p)
    BY <2>1, <2>2, <2>4 DEF BestOf
  <2> QED
    BY <2>3, <2>4
<1> QED
  BY <1>1, <1>2, <1>3, <1>4, WorkerStutters DEF TunerNext, allVars

\* What a run saves is the least latency it measured, with the configuration
\* that had it, however compilations and benchmarks went; and a run fails for
\* want of a configuration only if none was below the initial latency.
THEOREM BestIsSaved == TunerSpec => []BestOfMeasured
<1>1. TunerInit => BestSoFar
  BY DEF TunerInit, BestSoFar, BestOf
<1>2. TypeInv /\ BestSoFar => BestOfMeasured
  BY DEF TypeInv, RunInv, Has, BestSoFar, BestOf, BestOfMeasured
<1> QED
  BY <1>1, <1>2, TypeInit, TypeStep, BestStep, PTL DEF TunerSpec
=============================================================================
