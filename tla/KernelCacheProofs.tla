---------------------------- MODULE KernelCacheProofs ----------------------------
(***************************************************************************)
(* The kernel cache for any processes, calls, kernels and faults: its lock *)
(* excludes, it raises only over a contested entry, and it keeps the       *)
(* promise of CacheService.                                                *)
(***************************************************************************)
EXTENDS KernelCache, TLAPS

\* The program starts with an empty cache, in which the types are right and no
\* entry is half written.
LEMMA InitInv == CacheInit => CacheInv
<1>1. SUFFICES ASSUME CacheInit PROVE CacheInv
  OBVIOUS
<1>2. CacheTypeOK
  <2>1. seen \in [Calls -> SUBSET {"source", "params", "gm"}]
    BY <1>1 DEF CacheInit
  <2>2. QED
    BY <1>1, <2>1, CallAssumption
    DEF CacheInit, CacheTypeOK, NoKernel, Absent, Kernels, Critical, Finished
<1>3. \A k \in Keys : Steady(k)
  BY <1>1 DEF CacheInit, Steady, Writing, Absent
<1>4. QED
  BY <1>2, <1>3 DEF CacheInv

\* _save_kernel_to_disk writes four files.
LEMMA FileOrderFacts ==
  /\ Len(FileOrder) = 4
  /\ FileOrder[1] = "wrapped" /\ FileOrder[2] = "lib"
  /\ FileOrder[3] = "params" /\ FileOrder[4] = "gm"
  /\ \A i \in 1 .. 4 : FileOrder[i] \in {"wrapped", "lib", "params", "gm"}
BY DEF FileOrder

-----------------------------------------------------------------------------
\* cached() enters its critical sections only with the lock, and leaves them
\* without it: the steps of the load.
LEMMA LoadTypes ==
  ASSUME CacheTypeOK, NEW c \in Calls,
         Call(c) \/ Lookup(c) \/ ReadSource(c) \/ ReadParams(c) \/ ReadGm(c) \/ LoadLib(c)
  PROVE  CacheTypeOK'
<1> USE CallAssumption
<1> DEFINE Locking == \A d \in Calls : pc[d] \in Critical <=> lock[ProcOf[d]] = d
           HasKernel == \A d \in Calls : pc[d] \in {"save", "open", "write", "store", "returned"}
                                            => kernel[d] # "none"
<1>1. CASE Call(c)
  BY <1>1 DEF CacheTypeOK, Call, Critical, Finished
<1>2. CASE Lookup(c)
  <2>1. pc' \in [Calls -> Critical \cup Finished \cup {"idle", "lookup", "compile", "save", "store"}]
    <3>1. \E x \in {"returned", "compile", "readSource"} : pc' = [pc EXCEPT ![c] = x]
      BY <1>2 DEF Lookup
    <3>2. QED
      BY <3>1 DEF CacheTypeOK, Critical, Finished
  <2>2. kernel' \in [Calls -> Kernels]
    <3>1. InMemory(c) \in Kernels
      BY DEF CacheTypeOK, InMemory
    <3>2. kernel' = kernel \/ kernel' = [kernel EXCEPT ![c] = InMemory(c)]
      BY <1>2 DEF Lookup
    <3>3. QED
      BY <3>1, <3>2, Zenon DEF CacheTypeOK
  <2>3. lock' \in [Procs -> Calls \cup {Free}]
    <3>1. lock' = lock \/ lock' = [lock EXCEPT ![ProcOf[c]] = c]
      BY <1>2 DEF Lookup, Acquire
    <3>2. QED
      BY <3>1 DEF CacheTypeOK
  <2>4. Locking'
    BY <1>2 DEF CacheTypeOK, Lookup, Acquire, Critical
  <2>5. HasKernel'
    BY <1>2 DEF CacheTypeOK, Lookup
  <2>6. QED
    BY <1>2, <2>1, <2>2, <2>3, <2>4, <2>5 DEF CacheTypeOK, Lookup
<1>3. CASE ReadSource(c)
  <2>1. seen' \in [Calls -> SUBSET {"source", "params", "gm"}]
    BY <1>3 DEF CacheTypeOK, ReadSource
  <2>2. QED
    BY <1>3, <2>1 DEF CacheTypeOK, ReadSource, Critical, Finished
<1>4. CASE ReadParams(c)
  <2>1. seen' \in [Calls -> SUBSET {"source", "params", "gm"}]
    BY <1>4 DEF CacheTypeOK, ReadParams
  <2>2. QED
    BY <1>4, <2>1 DEF CacheTypeOK, ReadParams, Critical, Finished
<1>5. CASE ReadGm(c)
  <2>1. seen' \in [Calls -> SUBSET {"source", "params", "gm"}]
    BY <1>5 DEF CacheTypeOK, ReadGm
  <2>2. QED
    BY <1>5, <2>1 DEF CacheTypeOK, ReadGm, Critical, Finished
<1>6. CASE LoadLib(c)
  <2>1. seen' \in [Calls -> SUBSET {"source", "params", "gm"}]
    BY <1>6 DEF CacheTypeOK, LoadLib
  <2>2. QED
    <3>1. pc' \in [Calls -> Critical \cup Finished \cup {"idle", "lookup", "compile", "save", "store"}]
      <4>1. \E x \in {"returned", "raised", "compile"} : pc' = [pc EXCEPT ![c] = x]
        BY <1>6 DEF LoadLib
      <4>2. QED
        BY <4>1 DEF CacheTypeOK, Finished
    <3>2. kernel' \in [Calls -> Kernels]
      BY <1>6, Zenon DEF CacheTypeOK, LoadLib, Kernels
    <3>3. memory' \in [Procs -> [Keys -> Kernels]]
      <4>1. memory' = memory \/ \E x \in Kernels : memory' = [memory EXCEPT ![ProcOf[c]][KeyOf[c]] = x]
        BY <1>6 DEF LoadLib, Kernels
      <4>2. ASSUME NEW x \in Kernels, memory' = [memory EXCEPT ![ProcOf[c]][KeyOf[c]] = x]
            PROVE  memory' \in [Procs -> [Keys -> Kernels]]
        BY <4>2 DEF CacheTypeOK
      <4>3. QED
        BY <4>1, <4>2 DEF CacheTypeOK
    <3>4. Locking' /\ lock' \in [Procs -> Calls \cup {Free}]
      BY <1>6 DEF CacheTypeOK, LoadLib, Critical
    <3>5. HasKernel'
      <4>1. \/ /\ pc' = [pc EXCEPT ![c] = "returned"]
               /\ \E x \in {"full", "bare"} : kernel' = [kernel EXCEPT ![c] = x]
            \/ /\ \E x \in {"raised", "compile"} : pc' = [pc EXCEPT ![c] = x]
               /\ kernel' = kernel
        BY <1>6 DEF LoadLib
      <4>2. QED
        BY <4>1 DEF CacheTypeOK
    <3>6. QED
      BY <1>6, <2>1, <3>1, <3>2, <3>3, <3>4, <3>5 DEF CacheTypeOK, LoadLib
<1>7. QED
  BY <1>1, <1>2, <1>3, <1>4, <1>5, <1>6

\* The same of compilation and of the save.
LEMMA SaveTypes ==
  ASSUME CacheTypeOK, NEW c \in Calls,
         Compile(c) \/ BeginSave(c) \/ OpenFile(c) \/ WriteFile(c) \/ Store(c)
  PROVE  CacheTypeOK'
<1> USE CallAssumption
<1> DEFINE Locking == \A d \in Calls : pc[d] \in Critical <=> lock[ProcOf[d]] = d
           HasKernel == \A d \in Calls : pc[d] \in {"save", "open", "write", "store", "returned"}
                                            => kernel[d] # "none"
<1>1. CASE Compile(c)
  <2>1. pc' \in [Calls -> Critical \cup Finished \cup {"idle", "lookup", "compile", "save", "store"}]
    BY <1>1 DEF CacheTypeOK, Compile, Finished
  <2>2. kernel' \in [Calls -> Kernels]
    BY <1>1 DEF CacheTypeOK, Compile, Kernels
  <2>3. Locking'
    BY <1>1 DEF CacheTypeOK, Compile, Critical
  <2>4. HasKernel'
    BY <1>1 DEF CacheTypeOK, Compile
  <2>5. QED
    BY <1>1, <2>1, <2>2, <2>3, <2>4 DEF CacheTypeOK, Compile
<1>2. CASE BeginSave(c)
  <2>1. pc' \in [Calls -> Critical \cup Finished \cup {"idle", "lookup", "compile", "save", "store"}]
    BY <1>2 DEF CacheTypeOK, BeginSave, Critical
  <2>2. Locking' /\ lock' \in [Procs -> Calls \cup {Free}]
    BY <1>2 DEF CacheTypeOK, BeginSave, Acquire, Critical
  <2>3. HasKernel'
    BY <1>2 DEF CacheTypeOK, BeginSave
  <2>4. next' \in [Calls -> 1 .. 4] /\ dirs' \subseteq Keys /\ contested' \subseteq Keys
    BY <1>2 DEF CacheTypeOK, BeginSave
  <2>5. \A k \in Keys : k \notin dirs' => files'[k] = Absent
    BY <1>2 DEF CacheTypeOK, BeginSave
  <2>6. QED
    BY <1>2, <2>1, <2>2, <2>3, <2>4, <2>5 DEF CacheTypeOK, BeginSave
<1>3. ASSUME Advance(c), pc[c] \in {"open", "write"}
      PROVE  /\ pc' \in [Calls -> Critical \cup Finished \cup {"idle", "lookup", "compile", "save", "store"}]
             /\ lock' \in [Procs -> Calls \cup {Free}]
             /\ next' \in [Calls -> 1 .. 4]
             /\ Locking'
             /\ UNCHANGED kernel => HasKernel'
  <2>1. CASE next[c] = 4
    <3>a. /\ pc' = [pc EXCEPT ![c] = "store"]
          /\ lock' = [lock EXCEPT ![ProcOf[c]] = Free]
          /\ next' = [next EXCEPT ![c] = 1]
      BY <1>3, <2>1, FileOrderFacts DEF CacheTypeOK, Advance
    <3>1. pc' \in [Calls -> Critical \cup Finished \cup {"idle", "lookup", "compile", "save", "store"}]
      BY <3>a DEF CacheTypeOK, Critical
    <3>b. lock' \in [Procs -> Calls \cup {Free}]
      BY <3>a DEF CacheTypeOK
    <3>2. next' \in [Calls -> 1 .. 4]
      BY <2>1, <3>a DEF CacheTypeOK
    <3>3. Locking'
      BY <1>3, <2>1, FileOrderFacts DEF CacheTypeOK, Advance, Critical
    <3>4. UNCHANGED kernel => HasKernel'
      BY <1>3, <2>1, FileOrderFacts DEF CacheTypeOK, Advance
    <3>5. QED
      BY <3>1, <3>b, <3>2, <3>3, <3>4
  <2>2. CASE next[c] # 4
    <3>a. /\ pc' = [pc EXCEPT ![c] = "open"]
          /\ lock' = lock
          /\ next' = [next EXCEPT ![c] = next[c] + 1]
      BY <1>3, <2>2, FileOrderFacts DEF CacheTypeOK, Advance
    <3>1. pc' \in [Calls -> Critical \cup Finished \cup {"idle", "lookup", "compile", "save", "store"}]
      BY <3>a DEF CacheTypeOK, Critical
    <3>b. lock' \in [Procs -> Calls \cup {Free}]
      BY <3>a DEF CacheTypeOK
    <3>2. next' \in [Calls -> 1 .. 4]
      BY <2>2, <3>a DEF CacheTypeOK
    <3>3. Locking'
      BY <1>3, <2>2, FileOrderFacts DEF CacheTypeOK, Advance, Critical
    <3>4. UNCHANGED kernel => HasKernel'
      BY <1>3, <2>2, FileOrderFacts DEF CacheTypeOK, Advance
    <3>5. QED
      BY <3>1, <3>b, <3>2, <3>3, <3>4
  <2>3. QED
    BY <2>1, <2>2
<1> DEFINE f == FileOrder[next[c]]
<1>f. f \in {"wrapped", "lib", "params", "gm"}
  BY FileOrderFacts DEF CacheTypeOK
<1> HIDE DEF f
<1>4. CASE OpenFile(c)
  <2>1. CASE KeyOf[c] \in dirs
    <3>1. files' \in [Keys -> [{"wrapped", "lib", "params", "gm"} -> {"absent", "partial", "whole"}]]
      <4>1. files' = [files EXCEPT ![KeyOf[c]][f] = "partial"]
        BY <1>4, <2>1 DEF OpenFile, f
      <4>2. QED
        BY <1>f, <4>1 DEF CacheTypeOK
    <3>2. pc' \in [Calls -> Critical \cup Finished \cup {"idle", "lookup", "compile", "save", "store"}]
      <4>1. pc' = [pc EXCEPT ![c] = "write"]
        BY <1>4, <2>1 DEF OpenFile
      <4>2. QED
        BY <4>1 DEF CacheTypeOK, Critical
    <3>3. Locking' /\ HasKernel'
      BY <1>4, <2>1 DEF CacheTypeOK, OpenFile, Critical
    <3>4. \A k \in Keys : k \notin dirs' => files'[k] = Absent
      BY <1>4, <2>1 DEF CacheTypeOK, OpenFile
    <3>5. QED
      BY <1>4, <2>1, <3>1, <3>2, <3>3, <3>4 DEF CacheTypeOK, OpenFile
  <2>2. CASE KeyOf[c] \notin dirs
    BY <1>3, <1>4, <2>2 DEF CacheTypeOK, OpenFile
  <2>3. QED
    BY <2>1, <2>2
<1>5. CASE WriteFile(c)
  <2>1. \/ files' = files
        \/ files' = [files EXCEPT ![KeyOf[c]][f] = IF @ = "absent" THEN @ ELSE "whole"]
    BY <1>5 DEF WriteFile, f
  <2>2. /\ files' \in [Keys -> [{"wrapped", "lib", "params", "gm"} -> {"absent", "partial", "whole"}]]
        /\ \A k \in Keys : k \notin dirs' => files'[k] = Absent
    <3>1. dirs' = dirs
      BY <1>5 DEF WriteFile
    <3>2. CASE files' = files
      BY <3>1, <3>2 DEF CacheTypeOK
    <3>3. CASE files' = [files EXCEPT ![KeyOf[c]][f] = IF @ = "absent" THEN @ ELSE "whole"]
      <4>1. files' \in [Keys -> [{"wrapped", "lib", "params", "gm"} -> {"absent", "partial", "whole"}]]
        BY <1>f, <3>3 DEF CacheTypeOK
      <4>2. ASSUME NEW k \in Keys, k \notin dirs PROVE files'[k] = Absent
        <5>1. files[k] = Absent
          BY <4>2 DEF CacheTypeOK
        <5>2. CASE k = KeyOf[c]
          BY <1>f, <3>3, <5>1, <5>2, Zenon DEF CacheTypeOK, Absent
        <5>3. CASE k # KeyOf[c]
          BY <3>3, <5>1, <5>3 DEF CacheTypeOK
        <5>4. QED
          BY <5>2, <5>3
      <4>3. QED
        BY <3>1, <4>1, <4>2
    <3>4. QED
      BY <2>1, <3>2, <3>3
  <2>3. contested' \subseteq Keys
    BY <1>5 DEF CacheTypeOK, WriteFile
  <2>4. QED
    BY <1>3, <1>5, <2>2, <2>3 DEF CacheTypeOK, WriteFile
<1>6. CASE Store(c)
  <2>1. pc' \in [Calls -> Critical \cup Finished \cup {"idle", "lookup", "compile", "save", "store"}]
    BY <1>6 DEF CacheTypeOK, Store, Finished
  <2>2. memory' \in [Procs -> [Keys -> Kernels]]
    BY <1>6 DEF CacheTypeOK, Store
  <2>3. Locking' /\ HasKernel'
    BY <1>6 DEF CacheTypeOK, Store, Critical
  <2>4. QED
    BY <1>6, <2>1, <2>2, <2>3 DEF CacheTypeOK, Store
<1>7. QED
  BY <1>1, <1>2, <1>4, <1>5, <1>6

\* The same of clear_cache() and of a crash, which gives up the lock.
LEMMA UpsetTypes ==
  ASSUME CacheTypeOK, NEW p \in Procs, ClearCache(p) \/ Crash(p)
  PROVE  CacheTypeOK'
<1> USE CallAssumption
<1>1. CASE ClearCache(p)
  BY <1>1 DEF CacheTypeOK, ClearCache, NoKernel, Absent, Kernels
<1>2. CASE Crash(p)
  <2>1. seen' \in [Calls -> SUBSET {"source", "params", "gm"}]
    BY <1>2 DEF CacheTypeOK, Crash
  <2>2. QED
    BY <1>2, <2>1 DEF CacheTypeOK, Crash, NoKernel, Critical, Finished, Kernels
<1>3. QED
  BY <1>1, <1>2

-----------------------------------------------------------------------------
\* An entry is as steady as it was when neither its files nor the calls for it
\* change.
LEMMA Elsewhere ==
  ASSUME CacheTypeOK, NEW k \in Keys, Steady(k),
         files'[k] = files[k], k \in dirs' => k \in dirs,
         \A d \in Calls : KeyOf[d] = k => /\ pc'[d] = pc[d]
                                          /\ next'[d] = next[d]
                                          /\ seen'[d] = seen[d]
  PROVE  Steady(k)'
BY DEF Steady, Writing

\* Of what is not contested after a step, a step of one call disturbs at most
\* the entry of that call.
LEMMA OthersSteady ==
  ASSUME CacheInv, NEW c \in Calls, Call(c) \/ Work(c),
         NEW k \in Keys, k \notin contested', k # KeyOf[c]
  PROVE  Steady(k)'
<1> USE CallAssumption
<1>1. k \notin contested
  BY DEF CacheInv, Work, Call, Lookup, ReadSource, ReadParams, ReadGm, LoadLib, Compile,
         BeginSave, OpenFile, WriteFile, Store
<1>2. \A d \in Calls \ {c} : pc'[d] = pc[d] /\ next'[d] = next[d] /\ seen'[d] = seen[d]
  BY DEF CacheInv, CacheTypeOK, Work, Call, Lookup, ReadSource, ReadParams, ReadGm, LoadLib,
         Compile, BeginSave, OpenFile, WriteFile, Advance, Store
<1>3. files'[k] = files[k] /\ (k \in dirs' => k \in dirs)
  BY DEF CacheInv, CacheTypeOK, Work, Call, Lookup, ReadSource, ReadParams, ReadGm, LoadLib,
         Compile, BeginSave, OpenFile, WriteFile, Store
<1>4. Steady(k)
  BY <1>1 DEF CacheInv
<1>5. QED
  BY <1>2, <1>3, <1>4, Elsewhere DEF CacheInv

\* The entry that cached() reads: what has been read of it is still there.
LEMMA LoadSteady ==
  ASSUME CacheInv, NEW c \in Calls,
         Call(c) \/ Lookup(c) \/ ReadSource(c) \/ ReadParams(c) \/ ReadGm(c) \/ LoadLib(c) \/ Compile(c) \/ Store(c),
         NEW k \in Keys, k \notin contested', k = KeyOf[c]
  PROVE  Steady(k)'
<1> USE CallAssumption
<1>1. /\ k \notin contested /\ Steady(k)
      /\ files' = files /\ dirs' = dirs /\ next' = next
  BY DEF CacheInv, Call, Lookup, ReadSource, ReadParams, ReadGm, LoadLib, Compile, Store
<1>2. \A d \in Calls \ {c} : pc'[d] = pc[d] /\ seen'[d] = seen[d]
  BY DEF CacheInv, CacheTypeOK, Call, Lookup, ReadSource, ReadParams, ReadGm, LoadLib, Compile, Store
<1>3. pc'[c] \notin {"open", "write", "raised"}
  <2>1. CASE LoadLib(c)
    <3>1. "params" \in seen[c] => files[k]["lib"] = "whole"
      BY <1>1, <2>1 DEF LoadLib, Steady
    <3>2. QED
      BY <2>1, <3>1 DEF CacheInv, CacheTypeOK, LoadLib, File
  <2>2. CASE ~LoadLib(c)
    BY <2>2 DEF CacheInv, CacheTypeOK, Call, Lookup, ReadSource, ReadParams, ReadGm, Compile, Store
  <2>3. QED
    BY <2>1, <2>2
<1>4. pc'[c] \in {"readParams", "readGm", "loadLib"} /\ "params" \in seen'[c] => files[k]["params"] = "whole"
  <2>1. CASE ReadParams(c)
    BY <1>1, <2>1 DEF CacheInv, CacheTypeOK, ReadParams, File, Steady
  <2>2. CASE ReadGm(c)
    BY <1>1, <2>2 DEF CacheInv, CacheTypeOK, ReadGm, Steady
  <2>3. CASE ~(ReadParams(c) \/ ReadGm(c))
    BY <2>3, SMTT(20) DEF CacheInv, CacheTypeOK, Call, Lookup, ReadSource, LoadLib, Compile, Store
  <2>4. QED
    BY <2>1, <2>2, <2>3
<1>5. QED
  BY <1>1, <1>2, <1>3, <1>4 DEF Steady, Writing

\* The save begins: of what is not contested this is the one writer.
LEMMA BeginSteady ==
  ASSUME CacheInv, NEW c \in Calls, BeginSave(c),
         NEW k \in Keys, k \notin contested', k = KeyOf[c]
  PROVE  Steady(k)'
<1> USE CallAssumption
<1>1. k \notin contested /\ Writing(k) = {} /\ files[k]["params"] # "whole" /\ Steady(k)
  BY DEF CacheInv, BeginSave
<1>2. files' = files /\ seen' = seen /\ pc' = [pc EXCEPT ![c] = "open"] /\ next' = [next EXCEPT ![c] = 1]
  BY DEF BeginSave
<1>3. \A d \in Writing(k)' : d = c /\ pc'[d] = "open" /\ next'[d] = 1
  BY <1>1, <1>2 DEF CacheInv, CacheTypeOK, Writing
<1>4. \A d \in Calls : KeyOf[d] = k => pc'[d] # "raised"
  BY <1>1, <1>2 DEF CacheInv, CacheTypeOK, Steady
<1>5. \A d \in Calls : KeyOf[d] = k /\ pc'[d] \in {"readParams", "readGm", "loadLib"} => "params" \notin seen[d]
  BY <1>1, <1>2 DEF CacheInv, CacheTypeOK, Steady
<1>6. QED
  BY <1>1, <1>2, <1>3, <1>4, <1>5 DEF Steady

\* A file is opened, or written: the library before the parameters.
LEMMA FileSteady ==
  ASSUME CacheInv, NEW c \in Calls, OpenFile(c) \/ WriteFile(c),
         NEW k \in Keys, k \notin contested', k = KeyOf[c]
  PROVE  Steady(k)'
<1> USE CallAssumption
<1> DEFINE f == FileOrder[next[c]]
<1>1. /\ k \notin contested /\ Steady(k)
      /\ seen' = seen /\ dirs' = dirs
      /\ c \in Writing(k)
  BY DEF CacheInv, OpenFile, WriteFile, Writing
<1>2. /\ f \in {"wrapped", "lib", "params", "gm"}
      /\ next[c] \in 1 .. 4
      /\ f = "lib" <=> next[c] = 2
      /\ f = "params" <=> next[c] = 3
  BY FileOrderFacts DEF CacheInv, CacheTypeOK
<1>3. \A d \in Calls \ {c} : pc'[d] = pc[d] /\ next'[d] = next[d]
  BY SMTT(20) DEF CacheInv, CacheTypeOK, OpenFile, WriteFile, Advance
<1>4. \A d \in Calls \ {c} : d \notin Writing(k)'
  BY <1>1, <1>3 DEF Steady, Writing
<1>5. pc'[c] # "raised" /\ pc'[c] \notin {"readParams", "readGm", "loadLib"}
  BY SMTT(20) DEF CacheInv, CacheTypeOK, OpenFile, WriteFile, Advance
<1> DEFINE LibFirst == files'[k]["params"] = "whole" => files'[k]["lib"] = "whole"
           Early == pc'[c] \in {"open", "write"} /\ next'[c] <= 3 => files'[k]["params"] # "whole"
           Opened == k \in dirs /\ pc'[c] = "write" => files'[k][FileOrder[next'[c]]] # "absent"
           LibDone == pc'[c] \in {"open", "write"} /\ k \in dirs /\ next'[c] = 3 => files'[k]["lib"] = "whole"
           Kept == files[k]["params"] = "whole" => files'[k]["params"] = "whole"
<1>s. ASSUME LibFirst, Early, Opened, LibDone, Kept PROVE Steady(k)'
  <2>1. \A d \in Writing(k)' : d = c /\ pc'[c] \in {"open", "write"}
    BY <1>4 DEF Writing
  <2>2. \A d \in Calls : KeyOf[d] = k /\ pc'[d] \in {"readParams", "readGm", "loadLib"} /\ "params" \in seen'[d]
                          => files'[k]["params"] = "whole"
    BY <1>s, <1>1, <1>3, <1>5, SMTT(20) DEF Steady
  <2>3. \A d \in Calls : KeyOf[d] = k => pc'[d] # "raised"
    BY <1>1, <1>3, <1>5 DEF Steady
  <2>4. QED
    BY <1>s, <1>1, <2>1, <2>2, <2>3 DEF Steady
<1>6. CASE k \notin dirs
  <2>1. files'[k] = files[k] /\ files[k]["params"] = "absent"
    BY <1>2, <1>6 DEF CacheInv, CacheTypeOK, OpenFile, WriteFile, Absent
  <2>2. QED
    BY <1>s, <1>6, <2>1
<1>7. CASE k \in dirs /\ OpenFile(c)
  <2>1. /\ files'[k] = [files[k] EXCEPT ![f] = "partial"]
        /\ pc'[c] = "write" /\ next' = next
    BY <1>7 DEF CacheInv, CacheTypeOK, OpenFile
  <2>2. DOMAIN files[k] = {"wrapped", "lib", "params", "gm"}
    BY DEF CacheInv, CacheTypeOK
  <2>3. /\ next[c] <= 3 => files[k]["params"] # "whole"
        /\ next[c] = 3 => files[k]["lib"] = "whole"
        /\ files[k]["params"] = "whole" => files[k]["lib"] = "whole"
    BY <1>1, <1>7 DEF Steady
  <2>4. LibFirst /\ Early /\ LibDone /\ Kept
    BY <1>2, <2>1, <2>2, <2>3
  <2>5. Opened
    BY <1>2, <2>1, <2>2
  <2>6. QED
    BY <1>s, <2>4, <2>5
<1>8. CASE k \in dirs /\ WriteFile(c)
  <2>1. /\ files[k][f] # "absent"
        /\ files'[k] = [files[k] EXCEPT ![f] = "whole"]
    BY <1>1, <1>8 DEF CacheInv, CacheTypeOK, WriteFile, Steady
  <2>2. \/ next[c] = 4 /\ pc'[c] = "store"
        \/ next[c] # 4 /\ pc'[c] = "open" /\ next'[c] = next[c] + 1
    BY <1>8, FileOrderFacts DEF CacheInv, CacheTypeOK, WriteFile, Advance
  <2>3. DOMAIN files[k] = {"wrapped", "lib", "params", "gm"}
    BY DEF CacheInv, CacheTypeOK
  <2>4. /\ next[c] <= 3 => files[k]["params"] # "whole"
        /\ next[c] = 3 => files[k]["lib"] = "whole"
        /\ files[k]["params"] = "whole" => files[k]["lib"] = "whole"
    BY <1>1, <1>8 DEF Steady
  <2>5. LibFirst /\ Kept
    BY <1>2, <2>1, <2>3, <2>4
  <2>6. Early /\ LibDone
    BY <1>2, <2>1, <2>2, <2>3, <2>4
  <2>7. Opened
    BY <2>2
  <2>8. QED
    BY <1>s, <2>5, <2>6, <2>7, SMTT(20)
<1>9. QED
  BY <1>6, <1>7, <1>8

\* clear_cache(), and a crash: no entry gets worse than contested.
LEMMA UpsetSteady ==
  ASSUME CacheInv, NEW p \in Procs, ClearCache(p) \/ Crash(p),
         NEW k \in Keys, k \notin contested'
  PROVE  Steady(k)'
<1> USE CallAssumption
<1>1. k \notin contested /\ Steady(k)
  BY SMTT(20) DEF CacheInv, ClearCache, Crash
<1>2. CASE ClearCache(p)
  <2>1. /\ pc' = pc /\ next' = next /\ seen' = seen
        /\ dirs' = {} /\ files'[k]["params"] = "absent"
    BY <1>2 DEF ClearCache, Absent
  <2>2. \A c \in Calls : KeyOf[c] = k => pc[c] \notin {"readParams", "readGm", "loadLib"}
    BY <1>2 DEF ClearCache, Reading
  <2>3. QED
    BY <1>1, <2>1, <2>2 DEF Steady, Writing
<1>3. CASE Crash(p)
  <2>1. files' = files /\ dirs' = dirs
    BY <1>3, SMTT(20) DEF Crash
  <2>2. \A c \in Calls : \/ pc'[c] = "idle"
                         \/ pc'[c] = pc[c] /\ next'[c] = next[c] /\ seen'[c] = seen[c]
    BY <1>3 DEF Crash
  <2>3. QED
    BY <1>1, <2>1, <2>2 DEF Steady, Writing
<1>4. QED
  BY <1>2, <1>3

-----------------------------------------------------------------------------
\* Every step of the program preserves the invariant.
LEMMA NextInv == CacheInv /\ [CacheNext]_cacheVars => CacheInv'
<1>1. SUFFICES ASSUME CacheInv, [CacheNext]_cacheVars PROVE CacheInv'
  OBVIOUS
<1>2. ASSUME NEW c \in Calls, Call(c) \/ Work(c) PROVE CacheInv'
  <2>1. CacheTypeOK'
    BY <1>1, <1>2, LoadTypes, SaveTypes DEF CacheInv, Work
  <2>2. ASSUME NEW k \in Keys, k \notin contested' PROVE Steady(k)'
    <3>1. CASE k # KeyOf[c]
      BY <1>1, <1>2, <2>2, <3>1, OthersSteady
    <3>2. CASE k = KeyOf[c]
      BY <1>1, <1>2, <2>2, <3>2, LoadSteady, BeginSteady, FileSteady DEF Work
    <3>3. QED
      BY <3>1, <3>2
  <2>3. QED
    BY <2>1, <2>2 DEF CacheInv
<1>3. ASSUME NEW p \in Procs, ClearCache(p) \/ Crash(p) PROVE CacheInv'
  <2>1. CacheTypeOK'
    BY <1>1, <1>3, UpsetTypes, SMTT(20) DEF CacheInv
  <2>2. QED
    BY <1>1, <1>3, <2>1, UpsetSteady DEF CacheInv
<1>4. CASE UNCHANGED cacheVars
  BY <1>1, <1>4 DEF CacheInv, CacheTypeOK, Steady, Writing, cacheVars
<1>5. QED
  BY <1>1, <1>2, <1>3, <1>4 DEF CacheNext

(***************************************************************************)
(* The critical sections of cached() exclude each other within a process,  *)
(* and a call that returns has a kernel, for any calls and faults.         *)
(***************************************************************************)
THEOREM LocksExclude == CacheSpec => []CacheTypeOK
<1>1. CacheInv => CacheTypeOK
  BY DEF CacheInv
<1>2. QED
  BY InitInv, NextInv, <1>1, PTL DEF CacheSpec

(***************************************************************************)
(* cached() raises over no entry that is not contested: an entry that a    *)
(* crash left half written is never loaded.                                *)
(***************************************************************************)
THEOREM CrashedEntriesAreSafe == CacheSpec => []RaisesOnlyContested
<1>1. CacheInv => RaisesOnlyContested
  BY CallAssumption DEF CacheInv, Steady, RaisesOnlyContested
<1>2. QED
  BY InitInv, NextInv, <1>1, PTL DEF CacheSpec

-----------------------------------------------------------------------------
\* The cache begins as its callers may think of it: nothing asked, nothing held.
LEMMA PromiseInit == CacheInit => Promise!ServiceInit
BY DEF CacheInit, NoKernel, Stage, Held, Promise!ServiceInit

\* A step of a call, seen by its caller.
LEMMA CallKeepsPromise ==
  ASSUME CacheInv, NEW c \in Calls, Call(c) \/ Work(c)
  PROVE  \/ UNCHANGED <<Stage, Held>>
         \/ Promise!Ask(c) \/ Promise!Hit(c) \/ Promise!Miss(c) \/ Promise!Provide(c) \/ Promise!Fail(c)
<1> USE CallAssumption
<1> DEFINE Moves(x) == Stage' = [Stage EXCEPT ![c] = x]
<1>1. ASSUME NEW x, pc' = [pc EXCEPT ![c] = x]
      PROVE  /\ x = "lookup" => Moves("asked")
             /\ x = "returned" => Moves("served")
             /\ x \in {"raised", "failed"} => Moves("failed")
             /\ x \in Critical \cup {"compile", "save", "store"} => Moves("missed")
  <2>1. pc'[c] = x /\ \A d \in Calls \ {c} : pc'[d] = pc[d]
    BY <1>1 DEF CacheInv, CacheTypeOK
  <2>2. \A d \in Calls \ {c} : Stage'[d] = Stage[d]
    BY <2>1 DEF Stage
  <2>3. /\ x = "lookup" => Stage'[c] = "asked"
        /\ x = "returned" => Stage'[c] = "served"
        /\ x \in {"raised", "failed"} => Stage'[c] = "failed"
        /\ x \in Critical \cup {"compile", "save", "store"} => Stage'[c] = "missed"
    BY <2>1 DEF Stage, Critical
  <2>4. ASSUME NEW v, Stage'[c] = v PROVE Moves(v)
    <3> DEFINE S == Stage
               T == Stage'
    <3>1. S = [d \in Calls |-> S[d]] /\ T = [d \in Calls |-> T[d]]
      BY DEF Stage
    <3> HIDE DEF S, T
    <3>2. T[c] = v /\ \A d \in Calls \ {c} : T[d] = S[d]
      BY <2>2, <2>4 DEF S, T
    <3>3. T = [S EXCEPT ![c] = v]
      BY <3>1, <3>2
    <3>4. QED
      BY <3>3 DEF S, T
  <2>5. QED
    BY <2>3, <2>4
<1>2. UNCHANGED memory => UNCHANGED Held
  BY DEF Held
<1>3. CASE Call(c)
  <2>1. Promise!Ask(c)
    BY <1>1, <1>2, <1>3, Zenon DEF Call, Stage, Promise!Ask
  <2>2. QED
    BY <2>1, SMTT(20)
<1>4. CASE Lookup(c)
  <2>1. Stage[c] = "asked" /\ UNCHANGED Held
    BY <1>2, <1>4 DEF Lookup, Stage
  <2>2. CASE InMemory(c) # "none"
    <3>1. Promise!Hit(c)
      BY <1>1, <1>4, <2>1, <2>2, Zenon DEF Lookup, InMemory, Held, Promise!Hit, Promise!Holds
    <3>2. QED
      BY <3>1
  <2>3. CASE InMemory(c) = "none"
    <3>1. Promise!Miss(c)
      BY <1>1, <1>4, <2>1, <2>3, Zenon DEF Lookup, InMemory, Critical, Held, Promise!Miss, Promise!Holds
    <3>2. QED
      BY <3>1
  <2>4. QED
    BY <2>2, <2>3
<1>5. ASSUME NEW x \in Critical \cup {"compile", "save", "store"},
             pc' = [pc EXCEPT ![c] = x], pc[c] \in Critical \cup {"compile", "save", "store"},
             UNCHANGED memory
      PROVE  UNCHANGED <<Stage, Held>>
  BY <1>2, <1>5 DEF CacheInv, CacheTypeOK, Stage, Critical
<1>6. CASE ReadSource(c) \/ ReadParams(c) \/ ReadGm(c) \/ BeginSave(c) \/ OpenFile(c) \/ WriteFile(c)
  <2>1. /\ \E x \in Critical \cup {"compile", "save", "store"} : pc' = [pc EXCEPT ![c] = x]
        /\ pc[c] \in Critical \cup {"compile", "save", "store"}
        /\ UNCHANGED memory
    BY <1>6 DEF ReadSource, ReadParams, ReadGm, BeginSave, OpenFile, WriteFile, Advance, Critical
  <2>2. QED
    BY <1>5, <2>1, Zenon
<1>7. ASSUME NEW x \in {"full", "bare"}, Stage[c] = "missed",
             pc' = [pc EXCEPT ![c] = "returned"],
             memory' = [memory EXCEPT ![ProcOf[c]][KeyOf[c]] = x]
      PROVE  Promise!Provide(c)
  <2>1. Moves("served")
    BY <1>1, <1>7, Zenon
  <2>2. ASSUME NEW p \in Procs
        PROVE  Held'[p] = IF p = ProcOf[c] THEN Held[p] \cup {KeyOf[c]} ELSE Held[p]
    BY <1>7 DEF CacheInv, CacheTypeOK, Held
  <2>3. Held' = [Held EXCEPT ![ProcOf[c]] = @ \cup {KeyOf[c]}]
    BY <2>2, Zenon DEF Held
  <2>4. QED
    BY <1>7, <2>1, <2>3 DEF Promise!Provide
<1>8. ASSUME Stage[c] = "missed", UNCHANGED memory,
             \E x \in {"raised", "failed"} : pc' = [pc EXCEPT ![c] = x]
      PROVE  Promise!Fail(c)
  BY <1>1, <1>2, <1>8, Zenon DEF Promise!Fail
<1>9. CASE LoadLib(c)
  <2>1. pc[c] = "loadLib" /\ Stage[c] = "missed"
    BY <1>9 DEF LoadLib, Stage
  <2>2. CASE pc' = [pc EXCEPT ![c] = "compile"] /\ UNCHANGED memory
    BY <1>5, <2>1, <2>2 DEF Critical
  <2>3. CASE pc' = [pc EXCEPT ![c] = "raised"] /\ UNCHANGED memory
    BY <1>8, <2>1, <2>3
  <2>4. CASE /\ pc' = [pc EXCEPT ![c] = "returned"]
             /\ \E x \in {"full", "bare"} : memory' = [memory EXCEPT ![ProcOf[c]][KeyOf[c]] = x]
    BY <1>7, <2>1, <2>4, Zenon
  <2>5. QED
    BY <1>9, <2>2, <2>3, <2>4 DEF LoadLib
<1>10. CASE Compile(c)
  <2>1. pc[c] = "compile" /\ Stage[c] = "missed" /\ UNCHANGED memory
    BY <1>10 DEF Compile, Stage
  <2>2. CASE pc' = [pc EXCEPT ![c] = "save"]
    BY <1>5, <2>1, <2>2 DEF Critical
  <2>3. CASE pc' = [pc EXCEPT ![c] = "failed"]
    BY <1>8, <2>1, <2>3
  <2>4. QED
    BY <1>10, <2>2, <2>3 DEF Compile
<1>11. CASE Store(c)
  <2>1. Stage[c] = "missed" /\ kernel[c] \in {"full", "bare"}
    BY <1>11 DEF CacheInv, CacheTypeOK, Kernels, Store, Stage
  <2>2. QED
    BY <1>7, <1>11, <2>1, Zenon DEF Store
<1>12. QED
  BY <1>3, <1>4, <1>6, <1>9, <1>10, <1>11 DEF Work

\* A crash or clear_cache(), seen by the callers.
LEMMA UpsetKeepsPromise ==
  ASSUME CacheInv, NEW p \in Procs, ClearCache(p) \/ Crash(p)
  PROVE  Promise!Clear(p) \/ \E again \in SUBSET Calls : Promise!Restart(p, again)
<1> USE CallAssumption
<1>1. Held' = [Held EXCEPT ![p] = {}]
  <2>1. memory' = [memory EXCEPT ![p] = NoKernel]
    BY DEF ClearCache, Crash
  <2>2. \A q \in Procs : memory'[q] = IF q = p THEN NoKernel ELSE memory[q]
    BY <2>1 DEF CacheInv, CacheTypeOK
  <2>3. \A q \in Procs : {k \in Keys : memory'[q][k] # "none"}
                            = IF q = p THEN {} ELSE {k \in Keys : memory[q][k] # "none"}
    BY <2>2 DEF NoKernel
  <2>4. QED
    BY <2>3, Zenon DEF Held
<1>2. CASE ClearCache(p)
  BY <1>1, <1>2 DEF ClearCache, Stage, Promise!Clear
<1>3. CASE Crash(p)
  <2> DEFINE again == {c \in Calls : ProcOf[c] = p /\ pc[c] \notin Finished}
  <2>1. Stage' = [c \in Calls |-> IF c \in again THEN "idle" ELSE Stage[c]]
    BY <1>3 DEF Crash, Stage
  <2>2. {c \in Calls : ProcOf[c] = p /\ Stage[c] \in {"asked", "missed"}} \subseteq again
    BY DEF Stage, Finished
  <2>3. Promise!Restart(p, again)
    BY <1>1, <2>1, <2>2 DEF Promise!Restart
  <2>4. QED
    BY <2>3
<1>4. QED
  BY <1>2, <1>3

(***************************************************************************)
(* cached() implements CacheService, over memory, disk and its two         *)
(* critical sections, for any calls, processes, kernels and faults.        *)
(***************************************************************************)
THEOREM CacheKeepsPromise == CacheSpec => KeepsPromise
<1>1. CacheInv /\ [CacheNext]_cacheVars => [Promise!ServiceNext]_<<Stage, Held>>
  <2>1. SUFFICES ASSUME CacheInv, [CacheNext]_cacheVars
                 PROVE  Promise!ServiceNext \/ UNCHANGED <<Stage, Held>>
    OBVIOUS
  <2>2. CASE UNCHANGED cacheVars
    BY <2>2 DEF cacheVars, Stage, Held
  <2>3. ASSUME NEW c \in Calls, Call(c) \/ Work(c)
        PROVE  Promise!ServiceNext \/ UNCHANGED <<Stage, Held>>
    BY <2>1, <2>3, CallKeepsPromise DEF Promise!ServiceNext
  <2>4. ASSUME NEW p \in Procs, ClearCache(p) \/ Crash(p)
        PROVE  Promise!ServiceNext
    BY <2>1, <2>4, UpsetKeepsPromise DEF Promise!ServiceNext
  <2>5. QED
    BY <2>1, <2>2, <2>3, <2>4 DEF CacheNext
<1>2. QED
  BY <1>1, InitInv, NextInv, PromiseInit, PTL DEF CacheSpec, KeepsPromise, Promise!Service

=============================================================================
