---------------------------- MODULE TunerEntryProofs -----------------------------
(***************************************************************************)
(* The entry of the auto-tuner on disk, for any processes, runs,           *)
(* configurations and faults: what runs return, and when they raise, over  *)
(* an entry that was not contested.                                        *)
(***************************************************************************)
EXTENDS AutoTunerProofs

(***************************************************************************)
(* The entry while nothing contests it.  Whoever writes it is alone, has   *)
(* written the files before the one it is at, and parameters come sixth;   *)
(* whoever reads it has read what is there; and an entry with parameters   *)
(* is whole, up to the indices, which are written last.                    *)
(***************************************************************************)
Alone == \A r \in Saving : Loading = {} /\ \A q \in Saving : q = r

SaverHas(r) ==
  /\ at[r] = "mkdir" <=> ~dir
  /\ \A j \in 1 .. step[r] - 1 : files[SaveOrder[j]] = best[r].config
  /\ at[r] = "write" => files[SaveOrder[step[r]]] = "partial"
  /\ step[r] <= 6 => files["params"] \notin Configs

LoaderHas(r) == dir /\ \A j \in 1 .. step[r] - 1 : got[r][LoadOrder[j]] = files[LoadOrder[j]]

Whole(c) ==
  /\ \A f \in {"config", "function", "latency", "wrapped", "lib", "params"} : files[f] = c
  /\ files["gm"] \in {c, "absent", "partial"}

EntryWhole ==
  /\ dir /\ Saving = {} => \E c \in Configs : \A f \in Unguarded : files[f] = c
  /\ files["params"] \in Configs => \E c \in Configs : Whole(c)
  /\ files["gm"] # "absent" => files["params"] \in Configs

Entry ==
  /\ Alone
  /\ \A r \in Saving : SaverHas(r)
  /\ \A r \in Loading : LoaderHas(r)
  /\ EntryWhole

OneConfig(S) == \E c \in Configs : S = {c}

\* What the processes remember, and the runs have returned.
Answers ==
  /\ \A p \in Procs : memory[p] = {} \/ OneConfig(memory[p])
  /\ \A r \in Tuners : at[r] = "returned" => OneConfig(result[r])
  /\ \A r \in Tuners : at[r] # "raised"

EntryInv == ~contested => Entry /\ Answers

-----------------------------------------------------------------------------
\* A run that stays out of the entry changes nothing about it.
LEMMA QuietKeepsEntry ==
  ASSUME TypeInv, Entry, NEW r \in Tuners, Run(r), at[r] \notin Critical, at'[r] \notin Critical,
         files' = files, dir' = dir
  PROVE  Entry'
<1>1. \A q \in Tuners : q # r =>
        at'[q] = at[q] /\ step'[q] = step[q] /\ got'[q] = got[q] /\ best'[q] = best[q]
  BY RunFrame
<1>2. Saving' = Saving /\ Loading' = Loading /\ r \notin Saving /\ r \notin Loading
  BY <1>1 DEF Saving, Loading, Critical
<1>3. Alone' /\ EntryWhole'
  BY <1>2 DEF Entry, Alone, EntryWhole, Whole
<1>4. ASSUME NEW q \in Saving PROVE SaverHas(q)'
  <2>1. q \in Tuners /\ q # r /\ SaverHas(q)
    BY <1>2 DEF Entry, Saving
  <2> QED
    BY <1>1, <2>1 DEF SaverHas
<1>5. ASSUME NEW q \in Loading PROVE LoaderHas(q)'
  <2>1. q \in Tuners /\ q # r /\ LoaderHas(q)
    BY <1>2 DEF Entry, Loading
  <2> QED
    BY <1>1, <2>1 DEF LoaderHas
<1> QED
  BY <1>2, <1>3, <1>4, <1>5 DEF Entry

\* An answer of one configuration, or none, is added to those there are.
LEMMA OneMoreAnswer ==
  ASSUME TypeInv, Answers, NEW r \in Tuners, Run(r), at'[r] # "raised",
         at'[r] = "returned" => OneConfig(result'[r]),
         memory' = memory \/ \E c \in Configs : memory' = [memory EXCEPT ![TunerProc[r]] = {c}]
  PROVE  Answers'
<1>1. \A q \in Tuners : q # r => at'[q] = at[q] /\ result'[q] = result[q]
  BY RunFrame
<1>2. \A q \in Tuners : (at'[q] = "returned" => OneConfig(result'[q])) /\ at'[q] # "raised"
  BY <1>1 DEF Answers, OneConfig
<1>3. ASSUME NEW p \in Procs PROVE memory'[p] = {} \/ OneConfig(memory'[p])
  BY Zenon DEF Answers, OneConfig, TypeInv, DataInv
<1> QED
  BY <1>2, <1>3 DEF Answers, OneConfig

\* While a run reads, nobody writes, and the first three files agree.
LEMMA ReadersSeeFiles ==
  ASSUME TypeInv, Entry, NEW r \in Loading
  PROVE  /\ Saving = {} /\ dir /\ LoaderHas(r) /\ r \in Tuners
         /\ \E c \in Configs : \A f \in Unguarded : files[f] = c
<1>1. Saving = {} /\ LoaderHas(r)
  BY DEF Entry, Alone
<1> QED
  BY <1>1 DEF Entry, EntryWhole, LoaderHas, Loading

\* The first critical section finds the entry whole, or not there.
LEMMA LookupEntry ==
  ASSUME TypeInv, Entry, Answers, NEW r \in Tuners, Lookup(r), ~contested'
  PROVE  Entry' /\ Answers'
<1>1. Run(r) /\ at[r] = "lookup" /\ files' = files /\ dir' = dir /\ memory' = memory
  BY DEF Run, Lookup
<1>2. at \in [Tuners -> Places] /\ step[r] = 1 /\ result \in [Tuners -> SUBSET Parts]
  BY <1>1, Zenon DEF TypeInv, ControlInv, DataInv, RunInv, Has
<1>3. CASE at'[r] # "read"
  <2>1. /\ at'[r] \in {"returned", "pool"}
        /\ at'[r] = "returned" => memory[TunerProc[r]] # {} /\ result'[r] = memory[TunerProc[r]]
    BY <1>2, <1>3 DEF Lookup, Goes
  <2>2. at'[r] = "returned" => OneConfig(result'[r])
    BY <2>1, TunerAssumption DEF Answers
  <2>3. Entry'
    BY <1>1, <2>1, QuietKeepsEntry DEF Critical
  <2> QED
    BY <1>1, <2>1, <2>2, <2>3, OneMoreAnswer
<1>4. CASE at'[r] = "read"
  <2>1. dir /\ Saving = {} /\ at' = [at EXCEPT ![r] = "read"] /\ UNCHANGED <<step, got, best>>
    BY <1>2, <1>4, Zenon DEF Lookup, Goes
  <2>2. Saving' = {} /\ Loading' = Loading \cup {r}
    BY <1>2, <2>1 DEF Saving, Loading
  <2>3. \A q \in Loading' : LoaderHas(q)'
    BY <1>1, <1>2, <2>1, <2>2 DEF Entry, LoaderHas
  <2>4. EntryWhole' /\ Alone'
    BY <1>1, <2>1, <2>2 DEF Entry, EntryWhole, Whole, Alone
  <2>5. Entry'
    BY <2>2, <2>3, <2>4 DEF Entry
  <2> QED
    BY <1>1, <1>4, <2>5, OneMoreAnswer
<1> QED
  BY <1>3, <1>4

\* A reader that moves on, or leaves, without a file being touched.
LEMMA ReaderKeepsEntry ==
  ASSUME TypeInv, Entry, NEW r \in Loading, Run(r), files' = files, dir' = dir,
         at'[r] \in Critical => at'[r] = "read" /\ LoaderHas(r)'
  PROVE  Entry'
<1>1. \A q \in Tuners : q # r => at'[q] = at[q] /\ step'[q] = step[q] /\ got'[q] = got[q]
  BY RunFrame DEF Loading
<1>2. Saving = {} /\ Saving' = {}
  BY <1>1, ReadersSeeFiles DEF Saving, Critical
<1>3. ASSUME NEW q \in Loading' PROVE LoaderHas(q)'
  <2>1. CASE q = r
    BY <1>3, <2>1 DEF Loading, Critical
  <2>2. CASE q # r
    BY <1>1, <1>3, <2>2 DEF Loading, Entry, LoaderHas
  <2> QED
    BY <2>1, <2>2
<1>4. Alone' /\ EntryWhole'
  BY <1>2 DEF Entry, Alone, EntryWhole, Whole
<1> QED
  BY <1>2, <1>3, <1>4 DEF Entry

\* A file that is read is there, and is what it will be at the end of the load.
LEMMA ReadEntry ==
  ASSUME TypeInv, Entry, Answers, NEW r \in Tuners, ReadFile(r), ~contested'
  PROVE  Entry' /\ Answers'
<1> DEFINE f == LoadOrder[step[r]]
<1>1. /\ Run(r) /\ at[r] = "read" /\ files' = files /\ dir' = dir /\ memory' = memory
      /\ r \in Loading
  BY DEF Run, ReadFile, Loading
<1>2. /\ at \in [Tuners -> Places] /\ step \in [Tuners -> 1 .. 7] /\ step[r] \in 1 .. 6
      /\ got \in [Tuners -> [DOMAIN Empty -> Content]]
  BY Orders DEF TypeInv, ControlInv, DataInv, ReadFile
<1>3. f \in DOMAIN Empty /\ (f \in Unguarded => files[f] \in Configs)
  BY <1>1, <1>2, ReadersSeeFiles, Orders
<1>4. /\ step' = [step EXCEPT ![r] = step[r] + 1]
      /\ got' = [got EXCEPT ![r][f] = files[f]]
      /\ at' = at
  BY <1>3 DEF ReadFile
<1> HIDE DEF f
<1>5. LoaderHas(r)'
  <2>1. dir /\ \A j \in 1 .. step[r] - 1 : got[r][LoadOrder[j]] = files[LoadOrder[j]]
    BY <1>1, ReadersSeeFiles DEF LoaderHas
  <2>2. step'[r] = step[r] + 1 /\ got'[r] = [got[r] EXCEPT ![f] = files[f]]
    BY <1>2, <1>4
  <2>3. ASSUME NEW j \in 1 .. step[r] PROVE got'[r][LoadOrder[j]] = files[LoadOrder[j]]
    <3>1. LoadOrder[j] \in DOMAIN Empty /\ got[r] \in [DOMAIN Empty -> Content]
      <4>1. j \in 1 .. 7
        BY <1>2
      <4> QED
        BY <1>2, <4>1, Orders
    <3>2. CASE LoadOrder[j] = f
      BY <2>2, <3>1, <3>2
    <3>3. CASE LoadOrder[j] # f
      <4>1. j \in 1 .. step[r] - 1
        BY <1>2, <3>3 DEF f
      <4> QED
        BY <2>1, <2>2, <3>1, <3>3, <4>1
    <3> QED
      BY <3>2, <3>3
  <2>4. step'[r] - 1 = step[r]
    BY <1>2, <2>2
  <2> QED
    BY <1>1, <2>1, <2>3, <2>4 DEF LoaderHas
<1>6. Entry'
  BY <1>1, <1>4, <1>5, ReaderKeepsEntry
<1> QED
  BY <1>1, <1>4, <1>6, OneMoreAnswer

\* What a load has at its end is the entry: of one configuration if it has
\* parameters, with its library.
LEMMA LoadedIsWhole ==
  ASSUME TypeInv, Entry, NEW r \in Loading, step[r] = 7, files["params"] \in Configs
  PROVE  /\ [got[r] EXCEPT !["lib"] = files["lib"]] = files
         /\ files["lib"] \in Configs
         /\ OneConfig({files[f] : f \in {g \in DOMAIN files : g = "gm" => files[g] \in Configs}})
<1>1. /\ r \in Tuners /\ files \in [DOMAIN Empty -> Content] /\ got[r] \in [DOMAIN Empty -> Content]
      /\ DOMAIN Empty = {"config", "function", "latency", "wrapped", "lib", "params", "gm"}
  BY DEF TypeInv, DataInv, Loading, Empty
<1>2. \A j \in 1 .. 6 : got[r][LoadOrder[j]] = files[LoadOrder[j]]
  BY DEF Entry, LoaderHas
<1>3. \A f \in DOMAIN Empty : f # "lib" => got[r][f] = files[f]
  <2>1. /\ LoadOrder[1] = "config" /\ LoadOrder[2] = "function" /\ LoadOrder[3] = "latency"
        /\ LoadOrder[4] = "wrapped" /\ LoadOrder[5] = "params" /\ LoadOrder[6] = "gm"
    BY DEF LoadOrder
  <2> QED
    BY <1>1, <1>2, <2>1
<1>4. [got[r] EXCEPT !["lib"] = files["lib"]] = files
  BY <1>1, <1>3
<1>5. PICK c \in Configs : Whole(c)
  BY DEF Entry, EntryWhole
<1>6. c # "absent" /\ c # "partial" /\ "absent" \notin Configs /\ "partial" \notin Configs
  BY TunerAssumption
<1>7. {files[f] : f \in {g \in DOMAIN files : g = "gm" => files[g] \in Configs}} = {c}
  <2>1. \A f \in DOMAIN files : (f = "gm" => files[f] \in Configs) => files[f] = c
    BY <1>1, <1>5, <1>6 DEF Whole
  <2>2. "config" \in DOMAIN files /\ files["config"] = c
    BY <1>1, <1>5 DEF Whole
  <2> QED
    BY <2>1, <2>2
<1> QED
  BY <1>4, <1>5, <1>7 DEF Whole, OneConfig

LEMMA LoadEntry ==
  ASSUME TypeInv, Entry, Answers, NEW r \in Tuners, LoadLib(r), ~contested'
  PROVE  Entry' /\ Answers'
<1> DEFINE parts == [got[r] EXCEPT !["lib"] = files["lib"]]
           loaded == {parts[f] : f \in {g \in DOMAIN parts : g = "gm" => parts[g] \in Configs}}
<1>1. /\ Run(r) /\ at[r] = "read" /\ files' = files /\ dir' = dir /\ r \in Loading /\ step[r] = 7
      /\ at \in [Tuners -> Places] /\ result \in [Tuners -> SUBSET Parts]
      /\ got[r] \in [DOMAIN Empty -> Content]
  BY Orders, Zenon DEF Run, LoadLib, Loading, TypeInv, ControlInv, DataInv
<1>2. CASE files["params"] \in Configs
  <2>1. parts = files /\ files["lib"] \in Configs /\ OneConfig(loaded)
    <3>1. /\ parts = files /\ files["lib"] \in Configs
          /\ OneConfig({files[f] : f \in {g \in DOMAIN files : g = "gm" => files[g] \in Configs}})
      BY <1>1, <1>2, LoadedIsWhole
    <3> HIDE DEF parts
    <3>2. loaded = {files[f] : f \in {g \in DOMAIN files : g = "gm" => files[g] \in Configs}}
      BY <3>1
    <3> QED
      BY <3>1, <3>2
  <2>2. \/ /\ at' = [at EXCEPT ![r] = "returned"]
           /\ memory' = [memory EXCEPT ![TunerProc[r]] = loaded]
           /\ result' = [result EXCEPT ![r] = loaded]
        \/ at' = [at EXCEPT ![r] = "pool"] /\ memory' = memory
    BY <2>1, Zenon DEF LoadLib, Goes
  <2> HIDE DEF loaded
  <2>3. /\ at'[r] \in {"returned", "pool"}
        /\ at'[r] = "returned" => OneConfig(result'[r])
        /\ memory' = memory \/ \E c \in Configs : memory' = [memory EXCEPT ![TunerProc[r]] = {c}]
    BY <1>1, <2>1, <2>2 DEF OneConfig
  <2>4. Entry'
    BY <1>1, <2>3, ReaderKeepsEntry DEF Critical
  <2> QED
    BY <1>1, <2>3, <2>4, OneMoreAnswer
<1>3. CASE files["params"] \notin Configs
  <2>1. parts["params"] = files["params"]
    <3>1. LoadOrder[5] = "params" /\ got[r][LoadOrder[5]] = files[LoadOrder[5]]
      BY <1>1, ReadersSeeFiles DEF LoaderHas, LoadOrder
    <3> QED
      BY <1>1, <3>1 DEF Empty
  <2>2. at' = [at EXCEPT ![r] = "pool"] /\ memory' = memory
    BY <1>3, <2>1 DEF LoadLib, Goes
  <2>3. at'[r] = "pool"
    BY <1>1, <2>2
  <2>4. Entry'
    BY <1>1, <2>3, ReaderKeepsEntry DEF Critical
  <2> QED
    BY <1>1, <2>2, <2>3, <2>4, OneMoreAnswer
<1> QED
  BY <1>2, <1>3

\* Between the critical sections, and after them, the entry is left alone.
LEMMA TuneEntry ==
  ASSUME TypeInv, Entry, Answers, NEW r \in Tuners,
         (\E c \in Configs : Collect(r, c)) \/ Collected(r) \/ Bench(r) \/ Benched(r)
  PROVE  Entry' /\ Answers'
<1>1. /\ Run(r) /\ files' = files /\ dir' = dir /\ memory' = memory
      /\ at[r] \in {"pool", "bench"}
  BY Zenon DEF Run, Collect, Collected, Bench, Benched
<1>2. at'[r] \in {"pool", "bench", "failed", "save"}
  BY Zenon DEF TypeInv, ControlInv, Collect, Collected, Bench, Benched, Goes
<1>3. Entry'
  BY <1>1, <1>2, QuietKeepsEntry, SMTT(20) DEF Critical
<1> QED
  BY <1>1, <1>2, <1>3, OneMoreAnswer, SMTT(20)

LEMMA StoreEntry ==
  ASSUME TypeInv, Entry, Answers, NEW r \in Tuners, Store(r)
  PROVE  Entry' /\ Answers'
<1>1. /\ Run(r) /\ files' = files /\ dir' = dir /\ at[r] = "store"
      /\ at'[r] = "returned"
      /\ memory' = [memory EXCEPT ![TunerProc[r]] = {best[r].config, best[r].kernel}]
      /\ result'[r] = {best[r].config, best[r].kernel}
  BY DEF Run, Store, Goes, TypeInv, ControlInv, DataInv
<1>2. best[r].config \in Configs /\ best[r].kernel = best[r].config
  BY <1>1 DEF TypeInv, RunInv, Has, DataInv, Best
<1>3. Entry'
  BY <1>1, QuietKeepsEntry DEF Critical
<1>4. {best[r].config, best[r].kernel} = {best[r].config}
  BY <1>2
<1>5. OneConfig(result'[r])
  BY <1>1, <1>2, <1>4 DEF OneConfig
<1> QED
  BY <1>1, <1>2, <1>3, <1>4, <1>5, OneMoreAnswer, Zenon

\* The order of the files that a save writes, which are seven different ones.
LEMMA SaveFacts ==
  /\ SaveOrder[1] = "config" /\ SaveOrder[2] = "function" /\ SaveOrder[3] = "latency"
  /\ SaveOrder[4] = "wrapped" /\ SaveOrder[5] = "lib" /\ SaveOrder[6] = "params" /\ SaveOrder[7] = "gm"
  /\ \A i, j \in 1 .. 7 : SaveOrder[i] = SaveOrder[j] => i = j
BY DEF SaveOrder

\* A save that is alone begins with an entry that no run would load.
LEMMA BeginEntry ==
  ASSUME TypeInv, Entry, Answers, NEW r \in Tuners, BeginSave(r), ~contested'
  PROVE  Entry' /\ Answers'
<1>1. /\ Run(r) /\ at[r] = "save" /\ files' = files /\ dir' = dir /\ memory' = memory
      /\ Saving = {} /\ Loading = {} /\ files["params"] \notin Configs
      /\ at' = [at EXCEPT ![r] = IF dir THEN "open" ELSE "mkdir"] /\ step' = step
  BY Zenon DEF Run, BeginSave, Goes
<1>2. at \in [Tuners -> Places] /\ step[r] = 1
  BY <1>1 DEF TypeInv, ControlInv, RunInv, Has
<1>3. Saving' = {r} /\ Loading' = {} /\ at'[r] = IF dir THEN "open" ELSE "mkdir"
  BY <1>1, <1>2 DEF Saving, Loading
<1>4. SaverHas(r)'
  BY <1>1, <1>2, <1>3 DEF SaverHas
<1>5. Alone' /\ EntryWhole'
  BY <1>1, <1>3 DEF Alone, EntryWhole, Whole, Entry
<1>6. Entry'
  BY <1>3, <1>4, <1>5 DEF Entry
<1> QED
  BY <1>1, <1>3, <1>6, OneMoreAnswer

\* A saver is alone with the entry, and has tuned.
LEMMA SaverFacts ==
  ASSUME TypeInv, Entry, NEW r \in Tuners, at[r] \in {"mkdir", "open", "write"}
  PROVE  /\ Saving = {r} /\ Loading = {} /\ SaverHas(r)
         /\ (dir <=> at[r] # "mkdir") /\ step[r] \in 1 .. 7
         /\ best[r].config \in Configs /\ best[r].kernel = best[r].config
<1>1. r \in Saving
  BY DEF Saving
<1>2. Saving = {r} /\ Loading = {} /\ SaverHas(r)
  BY <1>1 DEF Entry, Alone
<1>3. dir \in BOOLEAN /\ step[r] \in 1 .. 7
  BY DEF TypeInv, DataInv
<1>4. best[r].config \in Configs /\ best[r].kernel = best[r].config
  BY DEF TypeInv, DataInv, RunInv, Has, Best
<1> QED
  BY <1>2, <1>3, <1>4 DEF SaverHas

LEMMA MakeDirEntry ==
  ASSUME TypeInv, Entry, Answers, NEW r \in Tuners, MakeDir(r)
  PROVE  Entry' /\ Answers'
<1>1. at[r] = "mkdir" /\ Run(r) /\ files' = files /\ memory' = memory /\ step' = step
  BY DEF MakeDir, Run
<1>2. Saving = {r} /\ Loading = {} /\ SaverHas(r) /\ ~dir
  BY <1>1, SaverFacts
<1>3. at' = [at EXCEPT ![r] = "open"] /\ dir' = TRUE /\ best' = best
  BY <1>2 DEF MakeDir, Goes
<1>4. at'[r] = "open" /\ Saving' = {r} /\ Loading' = {}
  BY <1>2, <1>3, SMTT(20) DEF TypeInv, ControlInv, Saving, Loading
<1>5. SaverHas(r)'
  BY <1>1, <1>2, <1>3, <1>4, SMTT(20) DEF SaverHas
<1>6. Alone' /\ EntryWhole'
  BY <1>1, <1>4 DEF Alone, EntryWhole, Whole, Entry
<1>7. Entry'
  BY <1>4, <1>5, <1>6 DEF Entry
<1> QED
  BY <1>1, <1>4, <1>7, OneMoreAnswer

\* A file is opened after all before it have been written, and the indices
\* only once the entry has its parameters.
LEMMA OpenEntry ==
  ASSUME TypeInv, Entry, Answers, NEW r \in Tuners, OpenFile(r)
  PROVE  Entry' /\ Answers'
<1> DEFINE n == step[r]
<1>0. PICK c : c = best[r].config
  OBVIOUS
<1>1. at[r] = "open" /\ Run(r) /\ memory' = memory
  BY DEF OpenFile, Run
<1>2. Saving = {r} /\ Loading = {} /\ SaverHas(r) /\ dir /\ n \in 1 .. 7 /\ c \in Configs
  BY <1>0, <1>1, SaverFacts
<1>3. /\ at' = [at EXCEPT ![r] = "write"] /\ dir' = TRUE /\ step' = step /\ best' = best
      /\ files' = [files EXCEPT ![SaveOrder[n]] = "partial"]
  BY <1>2, Zenon DEF OpenFile, Goes
<1>4. at'[r] = "write" /\ Saving' = {r} /\ Loading' = {}
  BY <1>2, <1>3 DEF TypeInv, ControlInv, Saving, Loading
<1>5. /\ \A f \in DOMAIN Empty : files'[f] = IF f = SaveOrder[n] THEN "partial" ELSE files[f]
      /\ SaveOrder[n] \in DOMAIN Empty /\ "partial" \notin Configs /\ "partial" # "absent"
      /\ "params" \in DOMAIN Empty /\ "gm" \in DOMAIN Empty
  BY <1>2, <1>3, Orders, TunerAssumption, Zenon DEF TypeInv, DataInv, Empty
<1>6. \A j \in 1 .. n - 1 : files[SaveOrder[j]] = c /\ files'[SaveOrder[j]] = c
  <2> SUFFICES ASSUME NEW j \in 1 .. n - 1
               PROVE  files[SaveOrder[j]] = c /\ files'[SaveOrder[j]] = c
    OBVIOUS
  <2>1. j \in 1 .. 7 /\ j # n /\ files[SaveOrder[j]] = c
    <3>1. n \in 1 .. 7 /\ files[SaveOrder[j]] = c
      BY <1>0, <1>2 DEF SaverHas
    <3> HIDE DEF n
    <3> QED
      BY <3>1, SMTT(20)
  <2>2. SaveOrder[j] # SaveOrder[n] /\ SaveOrder[j] \in DOMAIN Empty
    BY <1>2, <2>1, SaveFacts, Orders
  <2> QED
    BY <1>5, <2>1, <2>2
<1>7. n <= 6 => files["params"] \notin Configs /\ files'["params"] \notin Configs
  BY <1>2, <1>5 DEF SaverHas
<1>8. SaverHas(r)'
  BY <1>0, <1>3, <1>4, <1>5, <1>6, <1>7 DEF SaverHas
<1>9. EntryWhole'
  <2>1. CASE n <= 6
    <3>1. files["gm"] = "absent" /\ SaveOrder[n] # "gm"
      <4>1. n # 7
        BY <2>1
      <4> QED
        BY <1>2, <1>7, <2>1, <4>1, SaveFacts DEF Entry, EntryWhole
    <3>2. files'["gm"] = "absent"
      BY <1>5, <3>1
    <3> QED
      BY <1>4, <1>7, <2>1, <3>2 DEF EntryWhole
  <2>2. CASE n = 7
    <3>1. \A f \in {"config", "function", "latency", "wrapped", "lib", "params"} : files'[f] = c
      BY <1>6, <2>2, SaveFacts
    <3>2. files'["gm"] = "partial"
      BY <1>5, <2>2, SaveFacts
    <3>3. Whole(c)'
      BY <1>3, <3>1, <3>2 DEF Whole
    <3>4. files'["params"] \in Configs /\ Saving' # {} /\ \E d \in Configs : Whole(d)'
      BY <1>2, <1>4, <3>1, <3>3
    <3> QED
      BY <3>4 DEF EntryWhole
  <2> QED
    BY <1>2, <2>1, <2>2
<1>10. Entry'
  BY <1>4, <1>8, <1>9 DEF Entry, Alone
<1> QED
  BY <1>1, <1>4, <1>10, OneMoreAnswer


\* A file is written as a whole; with the parameters all that a load needs is
\* there, and with the last file the run leaves the entry.
LEMMA WriteEntry ==
  ASSUME TypeInv, Entry, Answers, NEW r \in Tuners, WriteFile(r), ~contested'
  PROVE  Entry' /\ Answers'
<1> DEFINE n == step[r]
<1>0. PICK c : c = best[r].config
  OBVIOUS
<1>1. at[r] = "write" /\ Run(r) /\ memory' = memory /\ dir' = dir
  BY DEF WriteFile, Run
<1>2. /\ Saving = {r} /\ Loading = {} /\ SaverHas(r) /\ dir /\ n \in 1 .. 7
      /\ c \in Configs /\ best[r].kernel = c
  BY <1>0, <1>1, SaverFacts, SMTT(20)
<1>3. /\ files' = [files EXCEPT ![SaveOrder[n]] = c] /\ best' = best /\ Advance(r)
  <2>1. files[SaveOrder[n]] = "partial" /\ files \in [DOMAIN Empty -> Content]
        /\ SaveOrder[n] \in DOMAIN Empty
    BY <1>1, <1>2, Orders, SMTT(20) DEF SaverHas, TypeInv, DataInv
  <2> QED
    BY <1>0, <1>2, <2>1, Zenon DEF WriteFile
<1>4. /\ \A f \in DOMAIN Empty : files'[f] = IF f = SaveOrder[n] THEN c ELSE files[f]
      /\ SaveOrder[n] \in DOMAIN Empty /\ "params" \in DOMAIN Empty /\ "gm" \in DOMAIN Empty
  BY <1>2, <1>3, Orders, Zenon DEF TypeInv, DataInv, Empty
<1>5. \A j \in 1 .. n : files'[SaveOrder[j]] = c
  <2> SUFFICES ASSUME NEW j \in 1 .. n PROVE files'[SaveOrder[j]] = c
    OBVIOUS
  <2>1. j \in 1 .. 7 /\ SaveOrder[j] \in DOMAIN Empty
    <3>1. n \in 1 .. 7
      BY <1>2
    <3> HIDE DEF n
    <3>2. j \in 1 .. 7
      BY <3>1
    <3> QED
      BY <3>2, Orders
  <2>2. j # n => files[SaveOrder[j]] = c
    BY <1>0, <1>2 DEF SaverHas
  <2> QED
    BY <1>4, <2>1, <2>2, SMTT(20)
<1>6. n <= 5 => files'["params"] \notin Configs /\ files'["gm"] = "absent"
  <2> SUFFICES ASSUME n <= 5 PROVE files'["params"] \notin Configs /\ files'["gm"] = "absent"
    OBVIOUS
  <2>1. files["params"] \notin Configs /\ files["gm"] = "absent"
    BY <1>2 DEF SaverHas, Entry, EntryWhole
  <2>2. SaveOrder[n] # "params" /\ SaveOrder[n] # "gm"
    BY <1>2, SaveFacts
  <2> QED
    BY <1>4, <2>1, <2>2
<1>7. n >= 6 => Whole(c)'
  <2> SUFFICES ASSUME n >= 6 PROVE Whole(c)'
    OBVIOUS
  <2>1. \A f \in {"config", "function", "latency", "wrapped", "lib", "params"} : files'[f] = c
    <3>1. {1, 2, 3, 4, 5, 6} \subseteq 1 .. n
      BY <1>2
    <3> QED
      BY <1>5, <3>1, SaveFacts
  <2>2. CASE n = 6
    <3>1. files["gm"] = "absent"
      BY <1>2, <2>2 DEF SaverHas, Entry, EntryWhole
    <3>2. files'["gm"] = "absent"
      BY <1>4, <2>2, <3>1, SaveFacts
    <3> QED
      BY <1>3, <2>1, <3>2 DEF Whole
  <2>3. CASE n = 7
    <3>1. files'["gm"] = c
      BY <1>5, <2>3, SaveFacts
    <3> QED
      BY <1>3, <2>1, <3>1 DEF Whole
  <2> QED
    BY <1>2, <2>2, <2>3
<1>8. n >= 6 => files'["params"] \in Configs /\ \E d \in Configs : Whole(d)'
  BY <1>2, <1>7 DEF Whole
<1>9. at \in [Tuners -> Places] /\ step \in [Tuners -> 1 .. 7]
  BY DEF TypeInv, ControlInv, DataInv
<1>10. CASE n # 7
  <2>1. at' = [at EXCEPT ![r] = "open"] /\ step' = [step EXCEPT ![r] = n + 1]
    BY <1>3, <1>10, Orders DEF Advance, Goes
  <2>2. at'[r] = "open" /\ Saving' = {r} /\ Loading' = {} /\ step'[r] = n + 1
    BY <1>2, <1>9, <2>1 DEF Saving, Loading
  <2>3. SaverHas(r)'
    <3>1. \A j \in 1 .. step'[r] - 1 : files'[SaveOrder[j]] = best'[r].config
      <4>1. best'[r].config = c /\ n \in 1 .. 7
        BY <1>0, <1>2, <1>3
      <4>2. step'[r] - 1 = n
        BY <2>2, <4>1
      <4> QED
        BY <1>5, <4>1, <4>2
    <3>2. step'[r] <= 6 => files'["params"] \notin Configs
      BY <1>2, <1>6, <2>2
    <3> QED
      BY <1>1, <1>2, <2>2, <3>1, <3>2 DEF SaverHas
  <2>4. EntryWhole'
    <3>1. Saving' # {} /\ (n <= 5 \/ n >= 6)
      BY <1>2, <2>2
    <3> QED
      BY <1>6, <1>8, <3>1 DEF EntryWhole
  <2>5. Entry'
    BY <2>2, <2>3, <2>4 DEF Entry, Alone
  <2> QED
    BY <1>1, <2>2, <2>5, OneMoreAnswer
<1>11. CASE n = 7
  <2>1. at' = [at EXCEPT ![r] = "store"]
    BY <1>3, <1>11, Orders DEF Advance, Goes
  <2>2. at'[r] = "store" /\ Saving' = {} /\ Loading' = {}
    BY <1>2, <1>9, <2>1 DEF Saving, Loading
  <2>3. EntryWhole'
    <3>1. \A f \in Unguarded : files'[f] = c
      BY <1>7, <1>11 DEF Whole, Unguarded
    <3> QED
      BY <1>2, <1>8, <1>11, <3>1 DEF EntryWhole
  <2>4. Entry'
    BY <2>2, <2>3 DEF Entry, Alone
  <2> QED
    BY <1>1, <2>2, <2>4, OneMoreAnswer
<1> QED
  BY <1>10, <1>11


\* A cache that is cleared while nobody is at the entry has no entry.
LEMMA ClearEntry ==
  ASSUME TypeInv, Entry, Answers, NEW p \in Procs, ClearCache(p), ~contested'
  PROVE  Entry' /\ Answers'
<1>1. /\ Saving = {} /\ Loading = {} /\ dir' = FALSE /\ files' = Empty
      /\ at' = at /\ memory' = memory /\ result' = result
  BY Zenon DEF ClearCache
<1>2. Saving' = {} /\ Loading' = {}
  BY <1>1 DEF Saving, Loading
<1>3. files'["params"] = "absent" /\ files'["gm"] = "absent" /\ "absent" \notin Configs
  BY <1>1, TunerAssumption DEF Empty
<1>4. Entry'
  BY <1>1, <1>2, <1>3 DEF Entry, Alone, EntryWhole
<1> QED
  BY <1>1, <1>4 DEF Answers, OneConfig

\* A crash leaves the entry with its first three files, or without a directory.
LEMMA CrashEntry ==
  ASSUME TypeInv, Entry, Answers, NEW p \in Procs, Crash(p), ~contested'
  PROVE  Entry' /\ Answers'
<1>1. /\ \A r \in Tuners : at'[r] = IF r \in Ended(p) THEN "lookup" ELSE at[r]
      /\ \A r \in Tuners : r \notin Ended(p) =>
           step'[r] = step[r] /\ got'[r] = got[r] /\ best'[r] = best[r]
      /\ dir' = dir /\ files' = files /\ result' = result
      /\ memory' = [memory EXCEPT ![p] = {}]
  <2>1. /\ at' = [r \in Tuners |-> IF r \in Ended(p) THEN "lookup" ELSE at[r]]
        /\ step' = [r \in Tuners |-> IF r \in Ended(p) THEN 1 ELSE step[r]]
        /\ got' = [r \in Tuners |-> IF r \in Ended(p) THEN Empty ELSE got[r]]
        /\ best' = [r \in Tuners |-> IF r \in Ended(p) THEN NoBest ELSE best[r]]
        /\ dir' = dir /\ files' = files /\ result' = result
        /\ memory' = [memory EXCEPT ![p] = {}]
    BY CrashFacts
  <2> QED
    BY <2>1
<1>2. Saving' = Saving \ Ended(p) /\ Loading' = Loading \ Ended(p)
  BY <1>1 DEF Saving, Loading
<1>3. \A r \in Saving' : SaverHas(r)'
  BY <1>1, <1>2, SMTT(20) DEF Entry, SaverHas, Saving
<1>4. \A r \in Loading' : LoaderHas(r)'
  BY <1>1, <1>2 DEF Entry, LoaderHas, Loading
<1>5. Alone'
  BY <1>2 DEF Entry, Alone
<1>6. dir' /\ Saving' = {} => \E c \in Configs : \A f \in Unguarded : files'[f] = c
  <2> SUFFICES ASSUME dir, Saving' = {}
               PROVE  \E c \in Configs : \A f \in Unguarded : files[f] = c
    BY <1>1
  <2>1. CASE Saving = {}
    BY <2>1 DEF Entry, EntryWhole
  <2>2. ASSUME NEW r \in Saving PROVE \E c \in Configs : \A f \in Unguarded : files[f] = c
    <3>1. r \in Ended(p) /\ r \in Tuners /\ at[r] \in {"mkdir", "open", "write"}
      BY <1>2 DEF Saving
    <3>2. /\ SaverHas(r) /\ at[r] # "mkdir" /\ step[r] \in 1 .. 7 /\ best[r].config \in Configs
      BY <3>1, SaverFacts, SMTT(20)
    <3>3. SaveOrder[step[r]] \notin Unguarded
      BY <3>1, <3>2, Zenon DEF Crash, Ended
    <3>4. {1, 2, 3} \subseteq 1 .. step[r] - 1
      BY <3>2, <3>3, Orders
    <3>5. \A f \in Unguarded : files[f] = best[r].config
      BY <3>2, <3>4, SaveFacts DEF SaverHas, Unguarded
    <3> QED
      BY <3>2, <3>5
  <2> QED
    BY <2>1, <2>2, SMTT(20)
<1>7. EntryWhole'
  BY <1>1, <1>6 DEF Entry, EntryWhole, Whole
<1>8. Entry'
  BY <1>3, <1>4, <1>5, <1>7, SMTT(20) DEF Entry
<1>9. Answers'
  <2>1. \A q \in Procs : memory'[q] = {} \/ OneConfig(memory'[q])
    BY <1>1, SMTT(20) DEF Answers, TypeInv, DataInv, OneConfig
  <2>2. \A r \in Tuners : (at'[r] = "returned" => OneConfig(result'[r])) /\ at'[r] # "raised"
    BY <1>1, Zenon DEF Answers, OneConfig
  <2> QED
    BY <2>1, <2>2 DEF Answers, OneConfig
<1> QED
  BY <1>8, <1>9

\* A contested entry stays one.
LEMMA ContestedStays ==
  ASSUME TypeInv, [TunerNext]_allVars, contested
  PROVE  contested'
<1>1. ASSUME NEW r \in Tuners, Run(r) PROVE contested'
  <2>1. CASE Lookup(r) \/ ReadFile(r) \/ LoadLib(r)
    BY <2>1, Zenon DEF Lookup, ReadFile, LoadLib
  <2>2. CASE (\E c \in Configs : Collect(r, c)) \/ Collected(r) \/ Bench(r) \/ Benched(r)
    BY <2>2, Zenon DEF Collect, Collected, Bench, Benched
  <2>3. CASE BeginSave(r) \/ MakeDir(r) \/ OpenFile(r) \/ WriteFile(r) \/ Store(r)
    BY <2>3, Zenon DEF BeginSave, MakeDir, OpenFile, WriteFile, Store
  <2> QED
    BY <1>1, <2>1, <2>2, <2>3, SMTT(20) DEF Run
<1>2. ASSUME UNCHANGED tunerVars PROVE contested'
  BY <1>2 DEF tunerVars
<1>3. ASSUME NEW p \in Procs, ClearCache(p) \/ Crash(p) PROVE contested'
  BY <1>3, Zenon DEF ClearCache, Crash
<1> QED
  BY <1>1, <1>2, <1>3, WorkerStutters DEF TunerNext, allVars

LEMMA EntryStep == TypeInv /\ EntryInv /\ [TunerNext]_allVars => EntryInv'
<1> SUFFICES ASSUME TypeInv, EntryInv, [TunerNext]_allVars, ~contested' PROVE Entry' /\ Answers'
  BY DEF EntryInv
<1>1. Entry /\ Answers
  BY ContestedStays DEF EntryInv
<1>2. ASSUME NEW r \in Tuners, Run(r) PROVE Entry' /\ Answers'
  BY <1>1, <1>2, LookupEntry, ReadEntry, LoadEntry, TuneEntry, BeginEntry, MakeDirEntry, OpenEntry,
     WriteEntry, StoreEntry DEF Run
<1>3. ASSUME UNCHANGED tunerVars PROVE Entry' /\ Answers'
  <2>1. Saving' = Saving /\ Loading' = Loading
    BY <1>3 DEF tunerVars, Saving, Loading
  <2>2. Entry'
    BY <1>1, <1>3, <2>1 DEF tunerVars, Entry, Alone, SaverHas, LoaderHas, EntryWhole, Whole
  <2> QED
    BY <1>1, <1>3, <2>2, Zenon DEF tunerVars, Answers, OneConfig
<1>4. ASSUME NEW p \in Procs, ClearCache(p) \/ Crash(p) PROVE Entry' /\ Answers'
  BY <1>1, <1>4, ClearEntry, CrashEntry, SMTT(20)
<1> QED
  BY <1>2, <1>3, <1>4, WorkerStutters DEF TunerNext, allVars

LEMMA EntryInit == TunerInit => EntryInv
<1> SUFFICES ASSUME TunerInit PROVE Entry /\ Answers
  BY DEF EntryInv
<1>1. /\ Saving = {} /\ Loading = {} /\ ~dir /\ "absent" \notin Configs
      /\ files["params"] = "absent" /\ files["gm"] = "absent"
  BY TunerAssumption DEF TunerInit, Saving, Loading, Empty
<1>2. Entry
  BY <1>1 DEF Entry, Alone, EntryWhole
<1> QED
  BY <1>2 DEF TunerInit, Answers

\* What run() returns, from disk or not, is of one configuration in all its
\* parts, unless the entry was contested: whatever processes tune, crash and
\* start again, and however often the cache is cleared between them.
THEOREM ResultsAreWhole == TunerSpec => []ResultOfOneConfig
<1>1. EntryInv => ResultOfOneConfig
  BY DEF EntryInv, Answers, OneConfig, ResultOfOneConfig
<1> QED
  BY <1>1, TypeInit, TypeStep, EntryInit, EntryStep, PTL DEF TunerSpec

\* run() raises only over a contested entry: what a crash from the fourth file
\* on leaves, and what a clear leaves, is loaded or tuned again.
THEOREM RaisesOnlyContested == TunerSpec => []TunerRaisesOnlyContested
<1>1. EntryInv => TunerRaisesOnlyContested
  BY DEF EntryInv, Answers, TunerRaisesOnlyContested
<1> QED
  BY <1>1, TypeInit, TypeStep, EntryInit, EntryStep, PTL DEF TunerSpec

=============================================================================
