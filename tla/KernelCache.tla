------------------------------- MODULE KernelCache -------------------------------
(***************************************************************************)
(* The kernel cache (tilelang/cache/kernel_cache.py): threads of several   *)
(* processes ask for compiled kernels.  A process keeps kernels in memory, *)
(* and one lock; the processes share a directory per kernel, written and   *)
(* read file by file, with no lock between processes.                      *)
(*                                                                         *)
(* A file is absent, partial (opened, and not completely written when it   *)
(* is read or the process ends), or whole.  What a kernel is compiled to   *)
(* depends on its key alone.                                               *)
(***************************************************************************)
EXTENDS Integers, Sequences, FiniteSets

CONSTANTS
  Procs, Keys,
  Calls,        \* invocations of cached(), each by a thread of its own
  ProcOf, KeyOf,
  Free,         \* the lock is not held
  MaxUpsets     \* bound: crashes, files that cannot be written, clear_cache()

ASSUME CallAssumption ==
  /\ ProcOf \in [Calls -> Procs]
  /\ KeyOf \in [Calls -> Keys]
  /\ Free \notin Calls

VARIABLES
  pc,       \* where each call is
  lock,     \* _lock of each process
  memory,   \* _memory_cache of each process
  kernel,   \* the kernel a call has compiled or loaded
  seen,     \* what a call has read of the entry: source, params, indices
  next,     \* the file a call writes next
  dirs,     \* the kernels that have a directory
  files,    \* the files of each directory
  upsets,   \* how many of these there were
  contested \* entries written over, written by two, cleared under a reader, or
            \* with a file that could not be written

cacheVars == <<pc, lock, memory, kernel, seen, next, dirs, files, upsets, contested>>

\* Mutant: the parameters, without which an entry is not used, before the library.
ParamsFirst == <<"wrapped", "params", "lib", "gm">>

\* The order in which _save_kernel_to_disk writes; kernel.cu is never read.
FileOrder == <<"wrapped", "lib", "params", "gm">>

Absent == [f \in {"wrapped", "lib", "params", "gm"} |-> "absent"]
NoKernel == [k \in Keys |-> "none"]

File(c, f) == files[KeyOf[c]][f]

\* Mutant: the critical section without its lock.
AcquireNothing(c) == UNCHANGED lock

\* with self._lock
Acquire(c) == lock[ProcOf[c]] = Free /\ lock' = [lock EXCEPT ![ProcOf[c]] = c]

\* Mutant: the memory is not looked at.
NotInMemory(c) == "none"

InMemory(c) == memory[ProcOf[c]][KeyOf[c]]

\* A kernel without its auto_gm_idx is "bare".
Kernels == {"none", "full", "bare"}

-----------------------------------------------------------------------------
Call(c) ==
  /\ pc[c] = "idle"
  /\ pc' = [pc EXCEPT ![c] = "lookup"]
  /\ UNCHANGED <<lock, memory, kernel, seen, next, dirs, files, upsets, contested>>

\* The first critical section, up to the existence of the directory.
Lookup(c) ==
  LET hit == InMemory(c)
  IN  /\ pc[c] = "lookup"
      /\ lock[ProcOf[c]] = Free
      /\ \/ /\ hit # "none"
            /\ pc' = [pc EXCEPT ![c] = "returned"]
            /\ kernel' = [kernel EXCEPT ![c] = hit]
            /\ UNCHANGED lock
         \/ /\ hit = "none"
            /\ KeyOf[c] \notin dirs
            /\ pc' = [pc EXCEPT ![c] = "compile"]
            /\ UNCHANGED <<lock, kernel>>
         \/ /\ hit = "none"
            /\ KeyOf[c] \in dirs
            /\ pc' = [pc EXCEPT ![c] = "readSource"]
            /\ Acquire(c)
            /\ UNCHANGED kernel
      /\ UNCHANGED <<memory, seen, next, dirs, files, upsets, contested>>

\* What is read of a source that is being written may or may not be empty.
ReadSource(c) ==
  /\ pc[c] = "readSource"
  /\ \E got \in {{}, {"source"}} :
       /\ File(c, "wrapped") = "whole" => got # {}
       /\ File(c, "wrapped") = "absent" => got = {}
       /\ seen' = [seen EXCEPT ![c] = got]
  /\ pc' = [pc EXCEPT ![c] = "readParams"]
  /\ UNCHANGED <<lock, memory, kernel, next, dirs, files, upsets, contested>>

ReadParams(c) ==
  /\ pc[c] = "readParams"
  /\ seen' = [seen EXCEPT ![c] = IF File(c, "params") = "whole" THEN @ \cup {"params"} ELSE @]
  /\ pc' = [pc EXCEPT ![c] = "readGm"]
  /\ UNCHANGED <<lock, memory, kernel, next, dirs, files, upsets, contested>>

ReadGm(c) ==
  /\ pc[c] = "readGm"
  /\ seen' = [seen EXCEPT ![c] = IF File(c, "gm") = "whole" THEN @ \cup {"gm"} ELSE @]
  /\ pc' = [pc EXCEPT ![c] = "loadLib"]
  /\ UNCHANGED <<lock, memory, kernel, next, dirs, files, upsets, contested>>

(***************************************************************************)
(* The end of the first critical section.  With source and params the      *)
(* kernel is built from the database; the library is then loaded, and one  *)
(* that is not whole raises.                                               *)
(***************************************************************************)
LoadLib(c) ==
  LET p == ProcOf[c]
      found == {"source", "params"} \subseteq seen[c]
      loaded == IF "gm" \in seen[c] THEN "full" ELSE "bare"
  IN  /\ pc[c] = "loadLib"
      /\ lock' = [lock EXCEPT ![p] = Free]
      /\ \/ /\ found /\ File(c, "lib") = "whole"
            /\ kernel' = [kernel EXCEPT ![c] = loaded]
            /\ memory' = [memory EXCEPT ![p][KeyOf[c]] = loaded]
            /\ pc' = [pc EXCEPT ![c] = "returned"]
         \/ /\ found /\ File(c, "lib") # "whole"
            /\ pc' = [pc EXCEPT ![c] = "raised"]
            /\ UNCHANGED <<kernel, memory>>
         \/ /\ ~found
            /\ pc' = [pc EXCEPT ![c] = "compile"]
            /\ UNCHANGED <<kernel, memory>>
      /\ seen' = [seen EXCEPT ![c] = {}]
      /\ UNCHANGED <<next, dirs, files, upsets, contested>>

\* Mutant: a compilation waits for those of the same kernel.
CompileAlone(c) ==
  /\ pc[c] = "compile"
  /\ \A d \in Calls \ {c} : KeyOf[d] = KeyOf[c] => pc[d] # "compile"
  /\ pc' = [pc EXCEPT ![c] = "save"]
  /\ kernel' = [kernel EXCEPT ![c] = "full"]
  /\ UNCHANGED <<lock, memory, seen, next, dirs, files, upsets, contested>>

\* JITKernel(...), outside the lock: another thread may be compiling the same.
Compile(c) ==
  /\ pc[c] = "compile"
  /\ \/ pc' = [pc EXCEPT ![c] = "save"] /\ kernel' = [kernel EXCEPT ![c] = "full"]
     \/ pc' = [pc EXCEPT ![c] = "failed"] /\ UNCHANGED kernel
  /\ UNCHANGED <<lock, memory, seen, next, dirs, files, upsets, contested>>

Writing(k) == {c \in Calls : KeyOf[c] = k /\ pc[c] \in {"open", "write"}}

BeginSave(c) ==
  LET k == KeyOf[c] IN
  /\ pc[c] = "save"
  /\ Acquire(c)
  /\ dirs' = dirs \cup {k}
  /\ next' = [next EXCEPT ![c] = 1]
  /\ pc' = [pc EXCEPT ![c] = "open"]
  /\ contested' = IF Writing(k) # {} \/ files[k]["params"] = "whole"
                  THEN contested \cup {k} ELSE contested
  /\ UNCHANGED <<memory, kernel, seen, files, upsets>>

\* After the last file the lock is released.
Advance(c) ==
  IF next[c] = Len(FileOrder)
  THEN /\ pc' = [pc EXCEPT ![c] = "store"]
       /\ lock' = [lock EXCEPT ![ProcOf[c]] = Free]
       /\ next' = [next EXCEPT ![c] = 1]
  ELSE /\ pc' = [pc EXCEPT ![c] = "open"]
       /\ next' = [next EXCEPT ![c] = @ + 1]
       /\ UNCHANGED lock

\* open(..., "w") empties the file; without the directory it raises, and the
\* exception is logged.
OpenFile(c) ==
  LET k == KeyOf[c] IN
  /\ pc[c] = "open"
  /\ \/ /\ k \in dirs
        /\ files' = [files EXCEPT ![k][FileOrder[next[c]]] = "partial"]
        /\ pc' = [pc EXCEPT ![c] = "write"]
        /\ UNCHANGED <<lock, next>>
     \/ /\ k \notin dirs
        /\ Advance(c)
        /\ UNCHANGED files
  /\ UNCHANGED <<memory, kernel, seen, dirs, upsets, contested>>

\* A file removed meanwhile stays removed; one that cannot be written is logged.
WriteFile(c) ==
  LET k == KeyOf[c] IN
  /\ pc[c] = "write"
  /\ Advance(c)
  /\ \/ /\ files' = [files EXCEPT ![k][FileOrder[next[c]]] = IF @ = "absent" THEN @ ELSE "whole"]
        /\ UNCHANGED <<upsets, contested>>
     \/ /\ upsets < MaxUpsets
        /\ upsets' = upsets + 1
        /\ contested' = contested \cup {k}
        /\ UNCHANGED files
  /\ UNCHANGED <<memory, kernel, seen, dirs>>

\* Outside the lock again.
Store(c) ==
  /\ pc[c] = "store"
  /\ memory' = [memory EXCEPT ![ProcOf[c]][KeyOf[c]] = kernel[c]]
  /\ pc' = [pc EXCEPT ![c] = "returned"]
  /\ UNCHANGED <<lock, kernel, seen, next, dirs, files, upsets, contested>>

-----------------------------------------------------------------------------
Reading(k) == {c \in Calls : KeyOf[c] = k /\ pc[c] \in {"readSource", "readParams", "readGm", "loadLib"}}

ClearCache(p) ==
  /\ upsets < MaxUpsets
  /\ lock[p] = Free
  /\ memory' = [memory EXCEPT ![p] = NoKernel]
  /\ dirs' = {}
  /\ files' = [k \in Keys |-> Absent]
  /\ upsets' = upsets + 1
  /\ contested' = contested \cup {k \in Keys : Reading(k) # {}}
  /\ UNCHANGED <<pc, lock, kernel, seen, next>>

Finished == {"returned", "raised", "failed"}

\* The process ends; a new one asks again for what was not answered.
Crash(p) ==
  LET Ends(c) == ProcOf[c] = p /\ pc[c] \notin Finished IN
  /\ upsets < MaxUpsets
  /\ upsets' = upsets + 1
  /\ pc' = [c \in Calls |-> IF Ends(c) THEN "idle" ELSE pc[c]]
  /\ kernel' = [c \in Calls |-> IF Ends(c) THEN "none" ELSE kernel[c]]
  /\ seen' = [c \in Calls |-> IF Ends(c) THEN {} ELSE seen[c]]
  /\ next' = [c \in Calls |-> IF Ends(c) THEN 1 ELSE next[c]]
  /\ lock' = [lock EXCEPT ![p] = Free]
  /\ memory' = [memory EXCEPT ![p] = NoKernel]
  /\ UNCHANGED <<dirs, files, contested>>

CacheInit ==
  /\ pc = [c \in Calls |-> "idle"]
  /\ lock = [p \in Procs |-> Free]
  /\ memory = [p \in Procs |-> NoKernel]
  /\ kernel = [c \in Calls |-> "none"]
  /\ seen = [c \in Calls |-> {}]
  /\ next = [c \in Calls |-> 1]
  /\ dirs = {}
  /\ files = [k \in Keys |-> Absent]
  /\ upsets = 0
  /\ contested = {}

Work(c) ==
  \/ Lookup(c) \/ ReadSource(c) \/ ReadParams(c) \/ ReadGm(c) \/ LoadLib(c)
  \/ Compile(c) \/ BeginSave(c) \/ OpenFile(c) \/ WriteFile(c) \/ Store(c)

CacheNext ==
  \/ \E c \in Calls : Call(c) \/ Work(c)
  \/ \E p \in Procs : ClearCache(p) \/ Crash(p)

CacheSpec == CacheInit /\ [][CacheNext]_cacheVars

\* The threads are scheduled; with finitely many calls, a lock is free at last.
CacheFairness == \A c \in Calls : WF_cacheVars(Call(c)) /\ WF_cacheVars(Work(c))

FairCacheSpec == CacheSpec /\ CacheFairness

-----------------------------------------------------------------------------
Critical == {"readSource", "readParams", "readGm", "loadLib", "open", "write"}

(***************************************************************************)
(* The types, and _lock: whoever is in a critical section of a process     *)
(* holds its lock, so that there is one such thread at a time.             *)
(***************************************************************************)
CacheTypeOK ==
  /\ pc \in [Calls -> Critical \cup Finished \cup {"idle", "lookup", "compile", "save", "store"}]
  /\ lock \in [Procs -> Calls \cup {Free}]
  /\ memory \in [Procs -> [Keys -> Kernels]]
  /\ kernel \in [Calls -> Kernels]
  /\ seen \in [Calls -> SUBSET {"source", "params", "gm"}]
  /\ next \in [Calls -> 1 .. 4]
  /\ dirs \subseteq Keys
  /\ files \in [Keys -> [{"wrapped", "lib", "params", "gm"} -> {"absent", "partial", "whole"}]]
  /\ contested \subseteq Keys
  /\ \A c \in Calls : pc[c] \in Critical <=> lock[ProcOf[c]] = c
  /\ \A c \in Calls : pc[c] \in {"save", "open", "write", "store", "returned"} => kernel[c] # "none"
  /\ \A k \in Keys : k \notin dirs => files[k] = Absent

(***************************************************************************)
(* cached() never raises over an entry that a crash left behind half       *)
(* written: the params, without which an entry is not used, are written    *)
(* after the library.  A load raises only where an entry that was usable   *)
(* is written again, two processes write it, it is cleared while it is     *)
(* read, or a file could not be written.                                   *)
(***************************************************************************)
RaisesOnlyContested ==
  \A c \in Calls : pc[c] = "raised" => KeyOf[c] \in contested

(***************************************************************************)
(* Why: of an entry that is not contested there is one writer, which has   *)
(* the library whole before it opens the params, and a reader that has     *)
(* read the params still finds them.                                       *)
(***************************************************************************)
Steady(k) ==
  /\ \A c, d \in Writing(k) : c = d
  /\ files[k]["params"] = "whole" => files[k]["lib"] = "whole"
  /\ \A c \in Writing(k) : next[c] <= 3 => files[k]["params"] # "whole"
  /\ \A c \in Writing(k) : k \in dirs /\ pc[c] = "write" => files[k][FileOrder[next[c]]] # "absent"
  /\ \A c \in Writing(k) : k \in dirs /\ next[c] = 3 => files[k]["lib"] = "whole"
  /\ \A c \in Calls : KeyOf[c] = k /\ pc[c] \in {"readParams", "readGm", "loadLib"} /\ "params" \in seen[c]
                      => files[k]["params"] = "whole"
  /\ \A c \in Calls : KeyOf[c] = k => pc[c] # "raised"

CacheInv == CacheTypeOK /\ \A k \in Keys \ contested : Steady(k)

\* How a call stands with its caller, and the kernels a process has in memory.
Stage ==
  [c \in Calls |-> CASE pc[c] = "idle" -> "idle"
                     [] pc[c] = "lookup" -> "asked"
                     [] pc[c] = "returned" -> "served"
                     [] pc[c] \in {"raised", "failed"} -> "failed"
                     [] OTHER -> "missed"]
Held == [p \in Procs |-> {k \in Keys : memory[p][k] # "none"}]

Promise == INSTANCE CacheService WITH stage <- Stage, held <- Held

(***************************************************************************)
(* The cache keeps what CacheService promises, over memory, disk and the   *)
(* two critical sections with compilation between them.                    *)
(***************************************************************************)
KeepsPromise == Promise!Service

(***************************************************************************)
(* Every call ends: a lock is given back on every path, exceptions and     *)
(* crashes included.                                                       *)
(***************************************************************************)
EveryCallEnds == \A c \in Calls : <>(pc[c] \in Finished)
=============================================================================
