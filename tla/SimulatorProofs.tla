--------------------------- MODULE SimulatorProofs ---------------------------
(***************************************************************************)
(* Proofs about the two users of a schedule: that the functional executor  *)
(* applies the operations in the order of the schedule, when that order    *)
(* keeps the inferred dependencies; and that the memory edges which the    *)
(* validator accepts before scheduling are kept by every schedule.         *)
(***************************************************************************)
EXTENDS FunctionalExecutor, FenceValidator, FlagBarrierProofs

executionVars == <<vars, ordered, outcome>>

\* Every task takes time, and a run that returns has completed all of them.
TakesTime == \A i \in done : st[i] < en[i]
AllCompleted == status = "done" => done = Tasks

(***************************************************************************)
(* What has been executed is sorted by start cycle, and starts no later    *)
(* than anything that has not.  The second half is needed for the first:   *)
(* it is what makes the next task to execute extend a sorted order.        *)
(***************************************************************************)
SortedSoFar ==
  status = "done" /\ Undisturbed =>
    \A k \in DOMAIN ordered :
      /\ \A l \in DOMAIN ordered : k < l => st[ordered[k]] <= st[ordered[l]]
      /\ \A u \in Tasks \ Executed : st[ordered[k]] <= st[u]

ExecutionInv ==
  /\ OrderInv
  /\ TakesTime
  /\ AllCompleted
  /\ ordered \in Seq(Tasks)
  /\ status # "done" => ordered = <<>>
  /\ SortedSoFar

\* A step of the executor is one of the scheduler, or leaves the schedule be.
LEMMA ExecutionSteps ==
  ASSUME [ExecutionNext]_executionVars
  PROVE  /\ [Next]_vars
         /\ \/ UNCHANGED ordered /\ (status = "done" => UNCHANGED vars)
            \/ \E i \in Tasks : Execute(i) /\ Supported(i)
BY DEF ExecutionNext, executionVars, ExecuteNothing, Execute, Next, Run, WallTimeout, BeginPass, EndPass,
       Finish, Blocked, Schedule, CycleLimit, Visiting, vars

\* The scheduler's part: durations, and that "done" means that nothing is left.
LEMMA CompletedStep ==
  ASSUME OrderInv, TakesTime, AllCompleted, [Next]_vars
  PROVE  TakesTime' /\ AllCompleted'
<1>1. TypeInv /\ prog' = prog /\ Tasks' = Tasks
  BY StepCases DEF OrderInv, Tasks
<1>2. ASSUME NEW i \in Tasks, Schedule(i) PROVE TakesTime' /\ AllCompleted'
  <2>1. /\ Schedulable(i) /\ done' = done \cup {i} /\ status = "running"
        /\ status' # "done"
    BY <1>1, <1>2, ScheduleFacts DEF Raised
  <2>2. PICK s \in StartCycle(i) : Complete(i, s)
    BY <1>1, <1>2, ScheduleFacts
  <2>3. s \in Nat /\ prog[i].dur \in Nat \ {0}
    <3>1. prog[i] \in Task
      BY <1>1, ProgramFacts DEF TypeInv
    <3> QED
      BY <1>1, <2>1, <3>1, StartFacts DEF Task
  <2>4. st'[i] = s /\ en'[i] = s + prog[i].dur /\ st'[i] < en'[i]
    BY <1>1, <2>2, <2>3 DEF Complete, TypeInv, TypeOK
  <2>5. \A k \in done : k # i => st'[k] = st[k] /\ en'[k] = en[k]
    BY <1>1, <2>2 DEF Complete, TypeInv, TypeOK
  <2> QED
    BY <2>1, <2>4, <2>5 DEF TakesTime, AllCompleted
<1>3. ASSUME UNCHANGED schedule PROVE TakesTime' /\ AllCompleted'
  <2>1. status' = "done" => done = Tasks
    BY <1>3, Zenon DEF AllCompleted, Next, Run, Returned, BeginPass, EndPass, Finish, WallTimeout, Blocked,
                Schedule, CycleLimit, Visiting, vars, Pending, TypeInv, OrderInv, TypeOK
  <2> QED
    BY <1>1, <1>3, <2>1 DEF schedule, TakesTime, AllCompleted
<1> QED
  BY <1>1, <1>2, <1>3, StepCases DEF OrderInv

\* The task that leaves the heap starts no later than any other that is left:
\* among the left ones that start before it there would be one that depends on
\* none of them, and it would be in the heap.
LEMMA EarliestExecuted ==
  ASSUME ExecutionInv, status = "done", Undisturbed, NEW i \in Ready, \A j \in Ready : RankedBefore(i, j),
         NEW v \in Tasks \ Executed
  PROVE  st[i] <= st[v]
<1> DEFINE S == {u \in Tasks \ Executed : st[u] < st[i]}
<1>1. /\ prog \in Programs /\ i \in Tasks /\ done = Tasks
      /\ \A x \in Tasks : st[x] \in Nat /\ en[x] \in Nat
  BY DEF ExecutionInv, OrderInv, TypeInv, TypeOK, AllCompleted, Ready
<1>2. SUFFICES ASSUME S # {} PROVE FALSE
  BY <1>1
<1>3. PICK u \in S : prog[u].deps \cap S = {}
  <2>1. ValidProgram(prog) /\ S \subseteq DOMAIN prog
    BY <1>1, ProgramsAssumption DEF Tasks
  <2> HIDE DEF S
  <2> QED
    BY <1>2, <2>1, Zenon DEF ValidProgram
<1>4. ASSUME NEW d \in prog[u].deps PROVE d \in Executed
  <2>1. d \in Tasks
    BY <1>1, <1>3, ProgramFacts
  <2>2. en[d] <= st[u] /\ st[d] < en[d] /\ st[u] < st[i]
    BY <1>1, <1>3, <2>1 DEF Undisturbed, ExecutionInv, TakesTime
  <2>3. st[d] < st[i]
    BY <1>1, <1>3, <2>1, <2>2
  <2> QED
    BY <1>3, <2>1, <2>3
<1>5. u \in Ready
  BY <1>3, <1>4 DEF Ready
<1>6. st[i] <= st[u]
  BY <1>1, <1>3, <1>5 DEF RankedBefore
<1> QED
  BY <1>1, <1>3, <1>6

\* Scheduling, and then executing, keep the invariant.
LEMMA ExecutionStep == ExecutionInv /\ [ExecutionNext]_executionVars => ExecutionInv'
<1> SUFFICES ASSUME ExecutionInv, [ExecutionNext]_executionVars PROVE ExecutionInv'
  OBVIOUS
<1>1. [Next]_vars /\ OrderInv /\ TypeInv
  BY ExecutionSteps DEF ExecutionInv, OrderInv
<1>2. OrderInv' /\ TakesTime' /\ AllCompleted' /\ prog' = prog /\ Tasks' = Tasks
  BY <1>1, OrderStep, CompletedStep, StepCases DEF ExecutionInv, Tasks
<1>3. CASE UNCHANGED ordered /\ (status = "done" => UNCHANGED vars)
  <2>1. ordered' \in Seq(Tasks') /\ (status' # "done" => ordered' = <<>>)
    BY <1>2, <1>3 DEF ExecutionInv, vars
  <2>2. CASE status = "done"
    <3>1. SortedSoFar' <=> SortedSoFar
      BY <1>2, <1>3, <2>2 DEF SortedSoFar, Undisturbed, Executed, vars
    <3> QED
      BY <1>2, <2>1, <3>1 DEF ExecutionInv
  <2>3. CASE status # "done"
    <3>1. ordered' = <<>>
      BY <1>3, <2>3 DEF ExecutionInv
    <3>2. SortedSoFar'
      BY <3>1 DEF SortedSoFar
    <3> QED
      BY <1>2, <2>1, <3>2 DEF ExecutionInv
  <2> QED
    BY <2>2, <2>3
<1>4. ASSUME NEW i \in Tasks, Execute(i), Supported(i) PROVE ExecutionInv'
  <2>1. /\ status = "done" /\ status' = "done" /\ st' = st /\ en' = en
        /\ i \in Ready /\ (\A j \in Ready : RankedBefore(i, j))
        /\ ordered' = Append(ordered, i)
    BY <1>4 DEF Execute, vars
  <2>2. ordered \in Seq(Tasks) /\ i \notin Executed
    BY <2>1 DEF ExecutionInv, Ready
  <2> DEFINE n == Len(ordered)
  <2>3. /\ ordered' \in Seq(Tasks) /\ n \in Nat
        /\ DOMAIN ordered = 1 .. n /\ DOMAIN ordered' = 1 .. n + 1
        /\ \A k \in 1 .. n : ordered'[k] = ordered[k]
        /\ ordered'[n + 1] = i
    BY <2>1, <2>2
  <2> HIDE DEF n
  <2>4. Executed' = Executed \cup {i}
    <3>1. Executed' = {ordered'[k] : k \in 1 .. n + 1}
      BY <2>3 DEF Executed
    <3>2. 1 .. n + 1 = (1 .. n) \cup {n + 1}
      BY <2>3
    <3> QED
      BY <2>3, <3>1, <3>2 DEF Executed
  <2>5. SortedSoFar'
    <3> SUFFICES ASSUME Undisturbed, NEW k \in 1 .. n + 1
                 PROVE  /\ \A l \in 1 .. n + 1 : k < l => st[ordered'[k]] <= st[ordered'[l]]
                        /\ \A u \in Tasks \ Executed' : st[ordered'[k]] <= st[u]
      BY <1>2, <2>1, <2>3 DEF SortedSoFar, Undisturbed
    <3>1. CASE k = n + 1
      <4>1. \A u \in Tasks \ Executed' : st[i] <= st[u]
        BY <2>1, <2>4, EarliestExecuted
      <4>2. \A l \in 1 .. n + 1 : ~(k < l)
        BY <2>3, <3>1
      <4> QED
        BY <2>3, <3>1, <4>1, <4>2
    <3>2. CASE k \in 1 .. n
      <4>1. /\ \A l \in 1 .. n : k < l => st[ordered[k]] <= st[ordered[l]]
            /\ \A u \in Tasks \ Executed : st[ordered[k]] <= st[u]
        BY <2>1, <2>3, <3>2 DEF ExecutionInv, SortedSoFar
      <4>2. st[ordered[k]] <= st[i]
        BY <2>2, <4>1
      <4>3. ASSUME NEW l \in 1 .. n + 1, k < l PROVE st[ordered'[k]] <= st[ordered'[l]]
        <5>1. l \in 1 .. n \/ l = n + 1
          BY <2>3
        <5> QED
          BY <2>3, <3>2, <4>1, <4>2, <4>3, <5>1
      <4> QED
        BY <2>3, <2>4, <3>2, <4>1, <4>3
    <3> QED
      BY <2>3, <3>1, <3>2
  <2> QED
    BY <1>2, <2>1, <2>3, <2>5 DEF ExecutionInv
<1> QED
  BY <1>3, <1>4, ExecutionSteps

\* The operations are applied in the order in which the schedule starts them,
\* for every program whose inferred dependencies the schedule keeps, and never
\* one before another that the hardware would order before it.
THEOREM ExecutesAsScheduled == ExecutionSpec => []ExecutedAsScheduled
<1>1. ExecutionInit => ExecutionInv
  <2> SUFFICES ASSUME ExecutionInit PROVE ExecutionInv
    OBVIOUS
  <2>1. TypeInv
    BY TypeInit DEF ExecutionInit
  <2>2. done = {} /\ status # "done" /\ ordered = <<>>
    BY DEF ExecutionInit, Init
  <2> QED
    BY <2>1, <2>2 DEF ExecutionInv, OrderInv, EndsAfterStart, OrderKept, TakesTime, AllCompleted, SortedSoFar
<1>2. ExecutionInv => ExecutedAsScheduled
  <2> SUFFICES ASSUME ExecutionInv, status = "done", Undisturbed,
                      NEW k \in DOMAIN ordered, NEW l \in DOMAIN ordered, k < l
               PROVE  /\ st[ordered[k]] <= st[ordered[l]]
                      /\ ordered[l] \notin OrderedBefore(ordered[k])
    BY DEF ExecutedAsScheduled
  <2>1. st[ordered[k]] <= st[ordered[l]]
    BY DEF ExecutionInv, SortedSoFar
  <2>2. ordered[k] \in done /\ ordered[l] \in done
    BY DEF ExecutionInv, AllCompleted
  <2>3. st[ordered[k]] \in Nat /\ st[ordered[l]] \in Nat /\ en[ordered[l]] \in Nat
    BY <2>2 DEF ExecutionInv, OrderInv, TypeInv, TypeOK
  <2>4. st[ordered[l]] < en[ordered[l]]
    BY <2>2 DEF ExecutionInv, TakesTime
  <2>5. ordered[l] \in OrderedBefore(ordered[k]) => en[ordered[l]] <= st[ordered[k]]
    BY <2>2 DEF ExecutionInv, OrderInv, OrderKept
  <2> QED
    BY <2>1, <2>3, <2>4, <2>5
<1> QED
  BY <1>1, <1>2, ExecutionStep, PTL DEF ExecutionSpec, executionVars

-----------------------------------------------------------------------------
(***************************************************************************)
(* The validator.  A wait that completed before its lane joined a sync_all *)
(* consumed the credit of the set it is paired with, and started after     *)
(* that set had ended.                                                     *)
(***************************************************************************)
PairsKept ==
  \A w \in done :
    prog[w].op = "wait_flag" /\ SyncAllRelease(w) = {} =>
      \A s \in Sets(LocalFlagKey(w)) :
        Rank(Sets(LocalFlagKey(w)), s) = Rank(Waits(LocalFlagKey(w)), w)
          => s \in done /\ en[s] <= st[w]

FenceInv == CreditInv /\ PairsKept

\* The flags of the program, and its rendezvous, are fixed.
LEMMA PairingStatic ==
  ASSUME prog' = prog
  PROVE  \A w : /\ SyncAllRelease(w)' = SyncAllRelease(w)
                /\ LocalFlagKey(w)' = LocalFlagKey(w)
                /\ Sets(LocalFlagKey(w))' = Sets(LocalFlagKey(w))
                /\ Waits(LocalFlagKey(w))' = Waits(LocalFlagKey(w))
<1> SUFFICES ASSUME NEW w
             PROVE  /\ SyncAllRelease(w)' = SyncAllRelease(w)
                    /\ LocalFlagKey(w)' = LocalFlagKey(w)
                    /\ Sets(LocalFlagKey(w))' = Sets(LocalFlagKey(w))
                    /\ Waits(LocalFlagKey(w))' = Waits(LocalFlagKey(w))
  OBVIOUS
<1>1. LocalFlagKey(w)' = LocalFlagKey(w)
  BY DEF LocalFlagKey
<1>2. SyncAllRelease(w)' = SyncAllRelease(w)
  BY DEF SyncAllRelease, Last, SyncAllTasks, SameLane, Tasks
<1>3. \A k : Sets(k)' = Sets(k) /\ Waits(k)' = Waits(k)
  BY SetsStatic
<1> QED
  BY <1>1, <1>2, <1>3 DEF Sets, Waits

\* The wait that is scheduled finds the credit of its set.
LEMMA PairEnded ==
  ASSUME CreditInv, ~Raised, NEW w \in Tasks \ done, Schedulable(w), NEW c \in StartCycle(w),
         prog[w].op = "wait_flag", SyncAllRelease(w) = {},
         NEW s \in Sets(LocalFlagKey(w)),
         Rank(Sets(LocalFlagKey(w)), s) = Rank(Waits(LocalFlagKey(w)), w)
  PROVE  s \in done /\ en[s] <= c
<1> DEFINE k == LocalFlagKey(w)
<1>1. OrderInv /\ TypeInv
  BY DEF CreditInv, OrderInv
<1>2. k \in WaitKeys(w) /\ k \in FlagKeys /\ FlagQueues(k)
  BY DEF WaitKeys, FlagKeys, FlagQueues, LocalFlagKey
<1>3. OrderedBefore(w) \subseteq done
  BY <1>1, PredecessorsEnded
<1>4. tokens[k] # <<>>
  BY <1>2 DEF Schedulable, SyncReady, FlagsAvailable
<1>5. {j \in Sets(k) : Rank(Sets(k), j) = Rank(Waits(k), w)} = {Head(tokens[k])}
  BY <1>2, <1>3, <1>4, HeadIsPaired
<1>6. s = Head(tokens[k])
  BY <1>5
<1>7. s \in SyncSources(w)
  BY <1>2, <1>6 DEF SyncSources, FlagProducers
<1>8. en[s] <= c
  BY <1>1, <1>7, StartFacts
<1>9. tokens[k] \in Seq(Tasks)
  BY <1>1, <1>2 DEF TypeInv, TypeOK, SyncTypeOK
<1>10. 1 \in 1 .. Len(tokens[k]) /\ Head(tokens[k]) = tokens[k][1]
  BY <1>4, <1>9
<1>11. s \in done
  BY <1>2, <1>6, <1>10, Zenon DEF CreditInv, CreditsRanked, FlagsRanked
<1> QED
  BY <1>8, <1>11

\* Every step of the pass loop keeps it.
LEMMA FenceStep == FenceInv /\ [Next]_vars => FenceInv'
<1> SUFFICES ASSUME FenceInv, [Next]_vars PROVE FenceInv'
  OBVIOUS
<1>1. CreditInv /\ CreditInv' /\ TypeInv
  BY CreditStep DEF FenceInv, CreditInv, OrderInv
<1>2. prog' = prog
  BY <1>1, StepCases
<1>3. ASSUME NEW i \in Tasks, Schedule(i) PROVE PairsKept'
  <2>1. i \in Tasks \ done /\ Schedulable(i) /\ ~Raised /\ done' = done \cup {i}
    BY <1>1, <1>3, ScheduleFacts DEF Raised
  <2>2. PICK c \in StartCycle(i) : Complete(i, c)
    BY <1>1, <1>3, ScheduleFacts
  <2>3. st'[i] = c /\ \A k \in done : st'[k] = st[k] /\ en'[k] = en[k]
    BY <1>1, <2>1, <2>2 DEF Complete, TypeInv, TypeOK
  <2>4. ASSUME NEW w \in done', prog[w].op = "wait_flag", SyncAllRelease(w) = {},
               NEW s \in Sets(LocalFlagKey(w)),
               Rank(Sets(LocalFlagKey(w)), s) = Rank(Waits(LocalFlagKey(w)), w)
        PROVE  s \in done' /\ en'[s] <= st'[w]
    <3>1. CASE w = i
      <4>1. s \in done /\ en[s] <= c
        BY <1>1, <2>1, <2>2, <2>4, <3>1, PairEnded, SMTT(20)
      <4> QED
        BY <2>1, <2>3, <3>1, <4>1
    <3>2. CASE w \in done
      <4>1. s \in done /\ en[s] <= st[w]
        BY <2>4, <3>2 DEF FenceInv, PairsKept
      <4> QED
        BY <2>1, <2>3, <3>2, <4>1, SMTT(20)
    <3> QED
      BY <2>1, <2>4, <3>1, <3>2
  <2> QED
    BY <1>2, <2>4, PairingStatic, Zenon DEF PairsKept, Rank
<1>4. ASSUME UNCHANGED <<schedule, syncVars>> PROVE PairsKept'
  <2>1. done' = done /\ st' = st /\ en' = en
    BY <1>4 DEF schedule
  <2> QED
    BY <1>2, <2>1, PairingStatic, Zenon DEF FenceInv, PairsKept, Rank
<1>5. PairsKept'
  BY <1>1, <1>3, <1>4, StepCases
<1> QED
  BY <1>1, <1>5 DEF FenceInv

-----------------------------------------------------------------------------
(* The scan of _has_local_flag_fence_between. *)

FenceStart(d) == [reachable |-> {prog[d].pipe}, pending |-> {}, live |-> {}]

\* f is the scan up to position m.
ScansTo(f, d, i, m) ==
  f = [j \in d .. m |->
         IF j = d THEN FenceStart(d)
         ELSE IF SameLane(j, i) THEN FlagFenceStep(f[j - 1], j) ELSE f[j - 1]]

\* The scan exists up to every position.
LEMMA ScanExists ==
  ASSUME NEW d \in Nat, NEW i, NEW m \in Nat, d <= m
  PROVE  \E f : ScansTo(f, d, i, m)
<1> DEFINE Bad == {n \in Nat : d <= n /\ ~ \E f : ScansTo(f, d, i, n)}
<1> SUFFICES ASSUME Bad # {} PROVE FALSE
  OBVIOUS
<1>1. PICK n \in Bad : \A y \in Bad : n <= y
  BY LeastExists, Zenon
<1>2. n \in Nat /\ d <= n /\ ~ \E f : ScansTo(f, d, i, n)
  BY <1>1
<1>3. n # d
  <2> DEFINE g == [j \in d .. d |-> FenceStart(d)]
  <2>1. ScansTo(g, d, i, d)
    BY DEF ScansTo
  <2> QED
    BY <1>2, <2>1
<1>4. n - 1 \in Nat /\ d <= n - 1 /\ n - 1 \notin Bad
  BY <1>1, <1>2, <1>3
<1>5. PICK f : ScansTo(f, d, i, n - 1)
  BY <1>4
<1> DEFINE g == [j \in d .. n |-> IF j = n
                                  THEN IF SameLane(j, i) THEN FlagFenceStep(f[j - 1], j) ELSE f[j - 1]
                                  ELSE f[j]]
<1>6. \A j \in d .. n - 1 : g[j] = f[j]
  BY <1>2
<1>7. ASSUME NEW j \in d .. n
      PROVE  g[j] = IF j = d THEN FenceStart(d)
                    ELSE IF SameLane(j, i) THEN FlagFenceStep(g[j - 1], j) ELSE g[j - 1]
  <2>1. CASE j = n
    <3>1. g[j] = IF SameLane(j, i) THEN FlagFenceStep(f[j - 1], j) ELSE f[j - 1]
      BY <2>1
    <3>2. j # d /\ j - 1 \in d .. n - 1
      BY <1>2, <1>3, <1>4, <2>1
    <3>3. g[j - 1] = f[j - 1]
      BY <1>6, <3>2
    <3> QED
      BY <3>1, <3>2, <3>3
  <2>2. CASE j # n
    <3>1. j \in d .. n - 1
      BY <1>2, <2>2
    <3>2. f[j] = IF j = d THEN FenceStart(d)
                 ELSE IF SameLane(j, i) THEN FlagFenceStep(f[j - 1], j) ELSE f[j - 1]
      BY <1>5, <3>1 DEF ScansTo
    <3>3. j # d => j - 1 \in d .. n - 1
      BY <1>2, <3>1
    <3> QED
      BY <1>6, <3>1, <3>2, <3>3
  <2> QED
    BY <2>1, <2>2
<1>8. ScansTo(g, d, i, n)
  BY <1>7 DEF ScansTo
<1> QED
  BY <1>2, <1>8

\* FlagFenceScan is the last entry of such a function.
LEMMA ScanValue ==
  ASSUME NEW d \in Nat, NEW i \in Nat, d < i
  PROVE  \E f : ScansTo(f, d, i, i - 1) /\ FlagFenceScan(d, i) = f[i - 1]
<1> DEFINE F == CHOOSE f : ScansTo(f, d, i, i - 1)
<1>1. ScansTo(F, d, i, i - 1)
  BY ScanExists
<1>2. FlagFenceScan(d, i) = F[i - 1]
  BY DEF FlagFenceScan, ScansTo, FenceStart
<1> QED
  BY <1>1, <1>2, Zenon
-----------------------------------------------------------------------------
(***************************************************************************)
(* What the scan knows at position j: a pipe is reachable only if whatever *)
(* is queued on it from now on starts after the producer has ended, and a  *)
(* signature is live only if its last set starts after the producer has    *)
(* ended and nothing has waited for it since.                              *)
(***************************************************************************)
ReachOrders(d, i, p, j) ==
  \A x \in Tasks : j < x /\ SameLane(x, i) /\ prog[x].pipe = p => OrderedInTime(d, x)

LiveSet(d, i, sig, j) ==
  \E s \in Tasks :
    /\ d < s /\ s <= j
    /\ SameLane(s, i) /\ prog[s].op = "set_flag" /\ Signature(s) = sig
    /\ OrderedInTime(d, s)
    /\ \A y \in Waits(LocalFlagKey(s)) : ~(s < y /\ y <= j)

ScanSound(r, d, i, j) ==
  /\ r = [reachable |-> r.reachable, pending |-> r.pending, live |-> r.live]
  /\ r.live \subseteq r.pending
  /\ \A p \in r.reachable : ReachOrders(d, i, p, j)
  /\ \A sig \in r.live : LiveSet(d, i, sig, j)

\* Order in time passes through what the program orders.
LEMMA OrderedThrough ==
  ASSUME OrderInv, NEW d, NEW j \in Tasks, NEW x \in Tasks, j \in OrderedBefore(x),
         d = j \/ OrderedInTime(d, j)
  PROVE  OrderedInTime(d, x)
<1> SUFFICES ASSUME x \in done PROVE d \in done /\ en[d] <= st[x]
  BY DEF OrderedInTime
<1>1. j \in done /\ en[j] <= st[x] /\ st[j] <= en[j]
  BY DEF OrderInv, OrderKept, EndsAfterStart
<1>2. CASE d = j
  BY <1>1, <1>2
<1>3. CASE OrderedInTime(d, j)
  <2>1. d \in done /\ en[d] <= st[j]
    BY <1>1, <1>3 DEF OrderedInTime
  <2>2. en[d] \in Nat /\ st[j] \in Nat /\ en[j] \in Nat /\ st[x] \in Nat
    BY <1>1, <2>1 DEF OrderInv, TypeInv, TypeOK
  <2> QED
    BY <1>1, <2>1, <2>2
<1> QED
  BY <1>2, <1>3

\* The waits of a local flag are those of its lane with its signature.
LEMMA LocalWaits ==
  ASSUME NEW s \in Tasks, NEW y \in Tasks
  PROVE  /\ y \in Waits(LocalFlagKey(s)) <=>
              prog[y].op = "wait_flag" /\ SameLane(y, s) /\ Signature(y) = Signature(s)
         /\ prog[y].op = "wait_flag" /\ y \in Waits(LocalFlagKey(s))
              => LocalFlagKey(y) = LocalFlagKey(s)
<1>1. LocalFlagKey(y) = LocalFlagKey(s) <=> SameLane(y, s) /\ Signature(y) = Signature(s)
  BY DEF LocalFlagKey, SameLane, Signature
<1>2. prog[y].op = "wait_flag" => WaitKeys(y) = {LocalFlagKey(y)}
  BY DEF WaitKeys
<1>3. LocalFlagKey(s)[1] = "local"
  BY DEF LocalFlagKey
<1>4. prog[y].op # "wait_flag" => \A k \in WaitKeys(y) : k[1] = "cross"
  BY DEF WaitKeys, CrossWaitKeys, CrossKeys
<1>5. y \in Waits(LocalFlagKey(s)) <=> LocalFlagKey(s) \in WaitKeys(y)
  BY DEF Waits
<1> QED
  BY <1>1, <1>2, <1>3, <1>4, <1>5

\* A live signature stays live over a task that does not wait for it.
LEMMA StaysLive ==
  ASSUME prog \in Programs, NEW d, NEW i \in Tasks, NEW sig, NEW j \in Tasks,
         LiveSet(d, i, sig, j - 1),
         ~(prog[j].op = "wait_flag" /\ SameLane(j, i) /\ Signature(j) = sig)
  PROVE  LiveSet(d, i, sig, j)
<1>1. Tasks \subseteq Int
  BY ProgramFacts
<1>2. PICK s \in Tasks :
        /\ d < s /\ s <= j - 1
        /\ SameLane(s, i) /\ prog[s].op = "set_flag" /\ Signature(s) = sig
        /\ OrderedInTime(d, s)
        /\ \A y \in Waits(LocalFlagKey(s)) : ~(s < y /\ y <= j - 1)
  BY DEF LiveSet
<1>3. j \notin Waits(LocalFlagKey(s))
  BY <1>2, LocalWaits DEF SameLane
<1>4. ASSUME NEW y \in Waits(LocalFlagKey(s)), s < y, y <= j PROVE FALSE
  <2>1. y \in Int /\ j \in Int /\ y # j
    BY <1>1, <1>3, <1>4 DEF Waits
  <2>2. y <= j - 1
    BY <1>4, <2>1
  <2> QED
    BY <1>2, <1>4, <2>2
<1>5. s <= j
  BY <1>1, <1>2
<1> QED
  BY <1>2, <1>4, <1>5 DEF LiveSet

\* The wait for a live signature starts after the producer has ended.
LEMMA WaitOrdered ==
  ASSUME FenceInv, FlagsAlternate, SyncAllTasks = {},
         NEW d, NEW i \in Tasks, NEW j \in Tasks, LiveSet(d, i, Signature(j), j - 1),
         prog[j].op = "wait_flag", SameLane(j, i)
  PROVE  OrderedInTime(d, j)
<1>1. OrderInv /\ prog \in Programs /\ Tasks \subseteq Int
  BY ProgramFacts DEF FenceInv, CreditInv, OrderInv, TypeInv
<1>2. PICK s \in Tasks :
        /\ d < s /\ s <= j - 1
        /\ SameLane(s, i) /\ prog[s].op = "set_flag" /\ Signature(s) = Signature(j)
        /\ OrderedInTime(d, s)
        /\ \A y \in Waits(LocalFlagKey(s)) : ~(s < y /\ y <= j - 1)
  BY DEF LiveSet
<1>3. PICK k : k = LocalFlagKey(s)
  OBVIOUS
<1>4. j \in Waits(k) /\ LocalFlagKey(j) = k
  BY <1>2, <1>3, LocalWaits DEF SameLane
<1>5. k \in SetKeys(s) /\ k \in FlagKeys /\ s \in Sets(k)
  BY <1>2, <1>3 DEF SetKeys, FlagKeys, Sets
<1>6. Rank(Sets(k), s) = Rank(Waits(k), s)
  BY <1>5, Zenon DEF FlagsAlternate
<1>7. s \notin Waits(k)
  BY <1>2, <1>3, LocalWaits
<1>8. {y \in Waits(k) : y < s} = {y \in Waits(k) : y < j}
  <2>1. ASSUME NEW y \in Waits(k) PROVE y < s <=> y < j
    <3>1. y \in Int /\ s \in Int /\ j \in Int /\ y # s
      BY <1>1, <1>7, <2>1 DEF Waits
    <3>2. ~(s < y /\ y <= j - 1)
      BY <1>2, <1>3, <2>1
    <3>3. s <= j - 1
      BY <1>2
    <3> QED
      BY <3>1, <3>2, <3>3
  <2> QED
    BY <2>1, Zenon
<1>9. Rank(Sets(k), s) = Rank(Waits(k), j)
  BY <1>6, <1>8 DEF Rank
<1>10. SyncAllRelease(j) = {}
  BY DEF SyncAllRelease, Last
<1>11. j \in done => s \in done /\ en[s] <= st[j]
  BY <1>4, <1>5, <1>9, <1>10, Zenon DEF FenceInv, PairsKept
<1>12. ASSUME j \in done PROVE d \in done /\ en[d] <= st[j]
  <2>1. s \in done /\ en[s] <= st[j] /\ st[s] <= en[s]
    BY <1>1, <1>11, <1>12 DEF OrderInv, EndsAfterStart
  <2>2. d \in done /\ en[d] <= st[s]
    BY <1>2, <2>1 DEF OrderedInTime
  <2>3. en[d] \in Nat /\ st[s] \in Nat /\ en[s] \in Nat /\ st[j] \in Nat
    BY <1>1, <2>1, <2>2 DEF OrderInv, TypeInv, TypeOK
  <2> QED
    BY <2>1, <2>2, <2>3
<1> QED
  BY <1>12 DEF OrderedInTime

\* One step of the scan is sound.
LEMMA ScanStepSound ==
  ASSUME FenceInv, FlagsAlternate, SyncAllTasks = {},
         NEW d \in Tasks, NEW i \in Tasks, NEW j \in Tasks, d < j,
         NEW r, ScanSound(r, d, i, j - 1)
  PROVE  ScanSound(IF SameLane(j, i) THEN FlagFenceStep(r, j) ELSE r, d, i, j)
<1>1. OrderInv /\ prog \in Programs /\ Tasks \subseteq Int
  BY ProgramFacts DEF FenceInv, CreditInv, OrderInv, TypeInv
<1>2. /\ r = [reachable |-> r.reachable, pending |-> r.pending, live |-> r.live]
      /\ r.live \subseteq r.pending
      /\ \A sig \in r.live : LiveSet(d, i, sig, j - 1)
  BY DEF ScanSound
<1>3. ASSUME NEW p \in r.reachable PROVE ReachOrders(d, i, p, j)
  <2>1. ReachOrders(d, i, p, j - 1)
    BY <1>3 DEF ScanSound
  <2>2. \A x \in Tasks : j < x => j - 1 < x
    BY <1>1
  <2> QED
    BY <2>1, <2>2 DEF ReachOrders
<1>4. ASSUME NEW sig \in r.live,
             ~(prog[j].op = "wait_flag" /\ SameLane(j, i) /\ Signature(j) = sig)
      PROVE  LiveSet(d, i, sig, j)
  BY <1>1, <1>2, <1>4, StaysLive
<1>5. CASE ~SameLane(j, i)
  BY <1>2, <1>3, <1>4, <1>5 DEF ScanSound
<1>6. CASE SameLane(j, i) /\ prog[j].op = "set_flag"
  <2>1. PICK live : live = IF prog[j].src \in r.reachable THEN r.live \cup {Signature(j)}
                           ELSE r.live \ {Signature(j)}
    OBVIOUS
  <2>2. FlagFenceStep(r, j) =
          [reachable |-> r.reachable, pending |-> r.pending \cup {Signature(j)}, live |-> live]
    BY <1>2, <1>6, <2>1, Zenon DEF FlagFenceStep
  <2>3. ASSUME prog[j].src \in r.reachable PROVE LiveSet(d, i, Signature(j), j)
    <3>1. prog[j].pipe = prog[j].src
      BY <1>1, <1>6, LocalMarker
    <3>2. ReachOrders(d, i, prog[j].src, j - 1)
      BY <2>3 DEF ScanSound
    <3>3. OrderedInTime(d, j)
      BY <1>1, <1>6, <3>1, <3>2 DEF ReachOrders
    <3>4. j <= j /\ \A y \in Waits(LocalFlagKey(j)) : ~(j < y /\ y <= j)
      BY <1>1 DEF Waits
    <3> QED
      BY <1>6, <3>3, <3>4 DEF LiveSet
  <2>4. \A sig \in live : LiveSet(d, i, sig, j)
    BY <1>4, <1>6, <2>1, <2>3
  <2>5. live \subseteq r.pending \cup {Signature(j)}
    BY <1>2, <2>1
  <2> QED
    BY <1>3, <1>6, <2>2, <2>4, <2>5 DEF ScanSound
<1>7. CASE SameLane(j, i) /\ prog[j].op = "wait_flag" /\ Signature(j) \in r.pending
  <2>1. PICK reachable : reachable = r.reachable \cup (IF Signature(j) \in r.live THEN {prog[j].dst} ELSE {})
    OBVIOUS
  <2>2. FlagFenceStep(r, j) =
          [reachable |-> reachable, pending |-> r.pending \ {Signature(j)},
           live |-> r.live \ {Signature(j)}]
    BY <1>7, <2>1 DEF FlagFenceStep
  <2>3. ASSUME Signature(j) \in r.live PROVE ReachOrders(d, i, prog[j].dst, j)
    <3>1. prog[j].pipe = prog[j].dst
      BY <1>1, <1>7, LocalMarker
    <3>2. OrderedInTime(d, j)
      BY <1>2, <1>7, <2>3, WaitOrdered
    <3>3. ASSUME NEW x \in Tasks, j < x, SameLane(x, i), prog[x].pipe = prog[j].dst
          PROVE  OrderedInTime(d, x)
      <4>1. j \in OrderedBefore(x)
        BY <1>7, <3>1, <3>3, SMTT(20) DEF OrderedBefore, Earlier, SameResource, SameLane
      <4> QED
        BY <1>1, <3>2, <4>1, OrderedThrough
    <3> QED
      BY <3>3 DEF ReachOrders
  <2>4. \A p \in reachable : ReachOrders(d, i, p, j)
    BY <1>3, <2>1, <2>3
  <2>5. \A sig \in r.live \ {Signature(j)} : LiveSet(d, i, sig, j)
    BY <1>4
  <2>6. r.live \ {Signature(j)} \subseteq r.pending \ {Signature(j)}
    BY <1>2
  <2> QED
    BY <1>7, <2>2, <2>4, <2>5, <2>6 DEF ScanSound
<1>8. CASE /\ SameLane(j, i) /\ prog[j].op # "set_flag"
           /\ ~(prog[j].op = "wait_flag" /\ Signature(j) \in r.pending)
  <2>1. FlagFenceStep(r, j) = r
    BY <1>8 DEF FlagFenceStep
  <2>2. \A sig \in r.live : LiveSet(d, i, sig, j)
    BY <1>2, <1>4, <1>8
  <2> QED
    BY <1>2, <1>3, <1>8, <2>1, <2>2 DEF ScanSound
<1> QED
  BY <1>5, <1>6, <1>7, <1>8


\* What the scan from d finds reachable just before i is ordered after d.
LEMMA ScanIsSound ==
  ASSUME FenceInv, FlagsAlternate, SyncAllTasks = {},
         NEW d \in Tasks, NEW i \in Tasks, d < i, SameLane(d, i)
  PROVE  ScanSound(FlagFenceScan(d, i), d, i, i - 1)
<1>1. OrderInv /\ prog \in Programs /\ Tasks \subseteq Nat /\ Tasks = 1 .. Len(prog) /\ Len(prog) \in Nat
  BY ProgramFacts DEF FenceInv, CreditInv, OrderInv, TypeInv
<1>2. PICK f : ScansTo(f, d, i, i - 1) /\ FlagFenceScan(d, i) = f[i - 1]
  BY <1>1, ScanValue
<1> DEFINE Bad == {n \in d .. i - 1 : ~ScanSound(f[n], d, i, n)}
<1>3. d \in Nat /\ i \in Nat /\ i - 1 \in d .. i - 1 /\ \A n \in d .. i - 1 : n \in Nat /\ n \in Tasks
  BY <1>1
<1>4. SUFFICES ASSUME Bad # {} PROVE FALSE
  BY <1>2, <1>3
<1>5. Bad \subseteq Nat
  BY <1>3
<1>6. PICK n \in Bad : \A y \in Bad : n <= y
  BY <1>4, <1>5, LeastExists, Zenon
<1>7. n \in d .. i - 1 /\ ~ScanSound(f[n], d, i, n)
  BY <1>6
<1>8. CASE n = d
  <2>1. f[d] = FenceStart(d)
    BY <1>2, <1>7, <1>8 DEF ScansTo
  <2>2. ReachOrders(d, i, prog[d].pipe, d)
    <3>1. ASSUME NEW x \in Tasks, d < x, SameLane(x, i), prog[x].pipe = prog[d].pipe
          PROVE  OrderedInTime(d, x)
      <4>1. d \in OrderedBefore(x)
        BY <3>1 DEF OrderedBefore, Earlier, SameResource, SameLane
      <4> QED
        BY <1>1, <4>1, OrderedThrough, Zenon
    <3> QED
      BY <3>1 DEF ReachOrders
  <2>3. ScanSound(FenceStart(d), d, i, d)
    BY <2>2 DEF ScanSound, FenceStart
  <2> QED
    BY <1>7, <1>8, <2>1, <2>3
<1>9. CASE n # d
  <2>1. n - 1 \in d .. i - 1 /\ d < n /\ n \in Tasks
    BY <1>3, <1>7, <1>9
  <2>2. n - 1 \notin Bad
    BY <1>3, <1>6, <1>7, <2>1
  <2>3. ScanSound(f[n - 1], d, i, n - 1)
    BY <2>1, <2>2
  <2>4. f[n] = IF SameLane(n, i) THEN FlagFenceStep(f[n - 1], n) ELSE f[n - 1]
    BY <1>2, <1>7, <1>9, Zenon DEF ScansTo
  <2>5. ScanSound(f[n], d, i, n)
    BY <2>1, <2>3, <2>4, ScanStepSound
  <2> QED
    BY <1>7, <2>5
<1> QED
  BY <1>8, <1>9

\* In a state of the invariant every accepted edge is ordered.
LEMMA AcceptedOrdered == FenceInv => AcceptedEdgesOrdered
<1> SUFFICES ASSUME FenceInv, FlagsAlternate, SyncAllTasks = {}, NEW i \in Tasks,
                    NEW d \in CheckedEdges(i), Accepted(d, i),
                    \A j \in Between(d, i) : FullBarrier(j) => SameLane(j, i)
             PROVE  OrderedInTime(d, i)
  BY DEF AcceptedEdgesOrdered
<1>1. OrderInv /\ prog \in Programs /\ Tasks \subseteq Int
  BY ProgramFacts, SMTT(20) DEF FenceInv, CreditInv, OrderInv, TypeInv
<1>2. /\ prog[i].mem \cup prog[i].hw \subseteq prog[i].deps /\ prog[i].unit \subseteq prog[i].hw
      /\ prog[i].deps \subseteq Tasks
  BY <1>1, ProgramFacts, ProgramsAssumption, SMTT(20) DEF ValidProgram, Tasks
<1>3. d \in Tasks /\ d < i /\ SameLane(d, i)
  BY <1>2 DEF CheckedEdges
<1>4. CASE UnitFlagFence(d, i)
  <2>1. PICK h \in prog[i].unit : /\ SameLane(h, d) /\ prog[h].pipe = prog[d].pipe
                                  /\ d <= h /\ h < i
    BY <1>4 DEF UnitFlagFence
  <2>2. h \in Tasks /\ h \in ExecutionDependencies(i)
    BY <1>2, <2>1, SMTT(20) DEF ExecutionDependencies
  <2>3. h \in OrderedBefore(i)
    BY <2>2 DEF OrderedBefore
  <2>4. d = h \/ d < h
    BY <1>1, <1>3, <2>1, <2>2, SMTT(20)
  <2>5. d < h => d \in OrderedBefore(h)
    BY <1>3, <2>1, <2>2, SMTT(20) DEF OrderedBefore, Earlier, SameResource, SameLane
  <2>6. d < h => OrderedInTime(d, h)
    BY <1>1, <1>3, <2>2, <2>5, OrderedThrough
  <2> QED
    BY <1>1, <2>2, <2>3, <2>4, <2>6, OrderedThrough, SMTT(20)
<1>5. CASE HasFullBarrierBetween(d, i)
  <2>1. PICK j \in Between(d, i) : FullBarrier(j)
    BY <1>5 DEF HasFullBarrierBetween
  <2>2. j \in Tasks /\ d < j /\ j < i /\ SameLane(j, i)
    BY <2>1, SMTT(20) DEF Between
  <2>3. j \in OrderedBefore(i)
    BY <2>1, <2>2 DEF OrderedBefore, LaneFences, Earlier, FencesLane, SameLane
  <2>4. SyncAllRelease(j) = {}
    BY SMTT(20) DEF SyncAllRelease, Last
  <2>5. d \in OrderedBefore(j)
    BY <1>3, <2>1, <2>2, <2>4 DEF OrderedBefore, DrainedBy, Earlier, SameLane
  <2>6. OrderedInTime(d, j)
    BY <1>1, <1>3, <2>2, <2>5, OrderedThrough
  <2> QED
    BY <1>1, <2>2, <2>3, <2>6, OrderedThrough
<1>6. CASE HasLocalFlagFenceBetween(d, i)
  <2>1. ScanSound(FlagFenceScan(d, i), d, i, i - 1)
    BY <1>3, ScanIsSound
  <2>2. ReachOrders(d, i, prog[i].pipe, i - 1)
    BY <1>6, <2>1 DEF ScanSound, HasLocalFlagFenceBetween
  <2>3. i - 1 < i /\ SameLane(i, i)
    BY <1>1 DEF SameLane
  <2> QED
    BY <2>2, <2>3 DEF ReachOrders
<1> QED
  BY <1>4, <1>5, <1>6 DEF Accepted

(***************************************************************************)
(* For every program and configuration: where flags alternate, no task is  *)
(* a sync_all and the barriers between the ends are of their lane, a       *)
(* memory edge that validate_memory_synchronization accepts is kept by     *)
(* every schedule of run(), although the scheduler ignores the edge.       *)
(***************************************************************************)
THEOREM ValidatorSound == Spec => []AcceptedEdgesOrdered
<1>1. Init => FenceInv
  BY CreditInit DEF Init, FenceInv, PairsKept
<1>2. FenceInv => AcceptedEdgesOrdered
  BY AcceptedOrdered
<1> QED
  BY <1>1, <1>2, FenceStep, PTL DEF Spec

=============================================================================
