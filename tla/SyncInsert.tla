------------------------------- MODULE SyncInsert -------------------------------
(***************************************************************************)
(* The synchronization pass (src/transform/ascend_sync_insert.cc, class    *)
(* AscendSyncInsert): a walk over the statements that remembers the        *)
(* accesses which may still be outstanding, and puts before each statement *)
(* the events and barriers it needs.  A loop is walked twice, to see the   *)
(* dependencies of one iteration on the one before; the two results are    *)
(* merged into the one body.                                               *)
(*                                                                         *)
(* The inserted synchronization is kept per gap: gaps[i] is what precedes  *)
(* token i.  The rebuilding of the loops, which the code does afterwards   *)
(* on the tree, happens here when the walk leaves the loop: it reads       *)
(* nothing but the two copies of the body.                                 *)
(***************************************************************************)
EXTENDS MemoryPlanning

VARIABLES
  pc,      \* the token the pass, then the kernel, is at
  hist,    \* current_access_history_
  unit,    \* current_resource_scope_
  units,   \* saved_resource_scope and saved_access_history of the open scopes
  loops,   \* loop_exit_states_, with what the rebuilder takes from each pass
  gaps     \* the inserted synchronization

syncVars == <<pc, hist, unit, units, loops, gaps>>

\* The open scopes and loops are stacks.
Top(stack) == stack[Len(stack)]
Pop(stack) == SubSeq(stack, 1, Len(stack) - 1)

\* A synchronization is an event from one pipe to another, a barrier on one
\* pipe, or PIPE_ALL.
Event(src, dst) == <<src, dst>>
Barrier(pipe) == <<pipe>>
BarrierAll == <<>>

\* GetEventMapping: the pairs of pipes that have an event.
EventMapping ==
  {<<"MTE2", "MTE1">>, <<"MTE1", "MTE2">>, <<"MTE1", "M">>, <<"M", "MTE1">>, <<"MTE2", "V">>,
   <<"V", "MTE2">>, <<"MTE3", "V">>, <<"V", "MTE3">>, <<"M", "V">>, <<"V", "M">>, <<"V", "V">>,
   <<"MTE3", "MTE1">>, <<"MTE1", "MTE3">>, <<"MTE1", "V">>, <<"MTE2", "M">>, <<"M", "MTE2">>,
   <<"V", "MTE1">>, <<"M", "FIX">>, <<"FIX", "M">>, <<"MTE3", "MTE2">>, <<"MTE2", "MTE3">>,
   <<"S", "V">>, <<"V", "S">>, <<"S", "MTE2">>, <<"MTE2", "S">>, <<"S", "MTE3">>,
   <<"MTE3", "S">>, <<"MTE2", "FIX">>, <<"FIX", "MTE2">>, <<"FIX", "S">>, <<"M", "S">>,
   <<"FIX", "MTE3">>}

-----------------------------------------------------------------------------
(***************************************************************************)
(* Accesses.  A remembered access carries the pipes known to run only      *)
(* after it (sync_graph, of which only the pipes reachable from its own    *)
(* matter) and whether its own pipe was barred since (pipe_barriers).      *)
(***************************************************************************)
Access(b, pipe, write) == [buf |-> b, pipe |-> pipe, write |-> write, reach |-> {}, barred |-> FALSE]

\* AnalyzeStmtAccesses, and the accesses of a BufferStore.
Accesses(tok) ==
  IF tok.kind = "store"
  THEN {Access(b, "S", FALSE) : b \in tok.reads} \cup {Access(b, "S", TRUE) : b \in tok.writes}
  ELSE {Access(b, tok.pipe, b \in tok.writes) : b \in tok.reads \cup tok.writes}

\* The loads of a stored value count as slices, as does an offset that is loaded.
IsSliced(tok) == IF tok.kind = "store" THEN tok.reads # {} ELSE tok.arg = "sliced"

Overlap(b, c) ==
  /\ ScopeOf[b] = ScopeOf[c]
  /\ address_map[b] < address_map[c] + SizeOf[c]
  /\ address_map[c] < address_map[b] + SizeOf[b]

\* Mutant: only buffers at the very same address are related.
SameAddress(b) ==
  IF b \in DOMAIN address_map
  THEN {c \in DOMAIN address_map :
          ScopeOf[c] = ScopeOf[b] /\ address_map[c] = address_map[b] /\ SizeOf[c] = SizeOf[b]}
  ELSE {b}

FindRelatedBuffers(b) ==
  IF b \in DOMAIN address_map THEN {c \in DOMAIN address_map : Overlap(b, c)} ELSE {b}

HasDataDependency(prev, curr) == prev.write \/ curr.write

GetRequiredSyncType(prev, curr) ==
  IF prev.pipe = curr.pipe
  THEN IF prev.pipe # "S" /\ ~prev.barred THEN {Barrier(prev.pipe)} ELSE {}
  ELSE IF Event(prev.pipe, curr.pipe) \in EventMapping /\ curr.pipe \notin prev.reach
       THEN {Event(prev.pipe, curr.pipe)} ELSE {}

Depends(prev, curr) == prev.buf \in FindRelatedBuffers(curr.buf) /\ HasDataDependency(prev, curr)

CollectSyncRequirements(tok) ==
  (IF IsSliced(tok) THEN {BarrierAll} ELSE {})
    \cup UNION {UNION {GetRequiredSyncType(prev, curr) : prev \in {h \in hist : Depends(h, curr)}} :
                  curr \in Accesses(tok)}

\* OptimizeSyncRequirements sorts the requirements as strings: events by source
\* and destination, then PIPE_ALL, then the barriers of one pipe.
SourceOrder == <<"FIX", "MTE1", "MTE2", "MTE3", "M", "S", "V">>
TargetOrder == <<"FIX", "M", "MTE1", "MTE2", "MTE3", "S", "V">>

SyncOrder ==
  [k \in 1 .. 57 |->
     CASE k <= 49 -> Event(SourceOrder[((k - 1) \div 7) + 1], TargetOrder[((k - 1) % 7) + 1])
       [] k = 50  -> BarrierAll
       [] k > 50  -> Barrier(TargetOrder[k - 50])]

OptimizeSyncRequirements(syncs) ==
  LET sorted[k \in 0 .. 57] ==
        IF k = 0 THEN <<>>
        ELSE IF SyncOrder[k] \in syncs THEN Append(sorted[k - 1], SyncOrder[k])
        ELSE sorted[k - 1]
  IN  sorted[57]

\* Events complete an access only along the order in which they are emitted.
AfterSync(h, sync) ==
  {IF Len(sync) = 2
   THEN IF sync[1] \in a.reach \cup {a.pipe} THEN [a EXCEPT !.reach = @ \cup {sync[2]}] ELSE a
   ELSE [a EXCEPT !.barred = @ \/ sync = Barrier(a.pipe)] : a \in h}

UpdateSyncStatesAfterSync(h, syncs) ==
  LET after[k \in 0 .. Len(syncs)] == IF k = 0 THEN h ELSE AfterSync(after[k - 1], syncs[k])
  IN  after[Len(syncs)]

\* A write supersedes the history of its buffer, a read the read of its pipe.
UpdateLatestAccessHistory(h, tok) ==
  LET new == Accesses(tok)
      Superseded(a) == \E n \in new :
                          n.buf = a.buf /\ (n.write \/ (~a.write /\ a.pipe = n.pipe))
  IN  {a \in h : ~Superseded(a)}
        \cup {n \in new : n.write \/ \A m \in new : m.buf = n.buf => ~m.write}

Same(a, b) == a.buf = b.buf /\ a.pipe = b.pipe /\ a.write = b.write

\* Mutant: the accesses of both paths are kept as they are.
JoinBoth(h, g) == h \cup g

JoinAccessHistories(h, g) ==
  {a \in h : ~\E b \in g : Same(a, b)} \cup {b \in g : ~\E a \in h : Same(a, b)}
    \cup UNION {{[a EXCEPT !.reach = @ \cap b.reach, !.barred = @ /\ b.barred] :
                   b \in {x \in g : Same(a, x)}} : a \in h}

-----------------------------------------------------------------------------
\* Mutant: the second pass over a loop adds only what the first did not have.
MergeAsSets(left, right) ==
  left \o SelectSeq(right, LAMBDA sync : \A k \in DOMAIN left : left[k] # sync)

(***************************************************************************)
(* MergeSyncSequences: a longest common subsequence is kept once, and the  *)
(* rest of both sequences around it, so that the order of each survives.   *)
(* An event is its set and its wait, whose number does not matter.         *)
(***************************************************************************)
CommonLength(left, right) ==
  LET common[i \in 0 .. Len(left), j \in 0 .. Len(right)] ==
        IF i = Len(left) \/ j = Len(right) THEN 0
        ELSE IF left[i + 1] = right[j + 1] THEN 1 + common[i + 1, j + 1]
        ELSE Max({common[i + 1, j], common[i, j + 1]})
  IN  common

\* One iteration of the loop that takes i of left and j of right.
MergeUnit(left, right, w) ==
  LET common == CommonLength(left, right)
      inLeft == w.i < Len(left)
      inRight == w.j < Len(right)
  IN  IF ~inLeft /\ ~inRight THEN w
      ELSE IF inLeft /\ inRight /\ left[w.i + 1] = right[w.j + 1]
      THEN [i |-> w.i + 1, j |-> w.j + 1, merged |-> Append(w.merged, left[w.i + 1])]
      ELSE IF ~inRight \/ (inLeft /\ common[w.i + 1, w.j] >= common[w.i, w.j + 1])
      THEN [i |-> w.i + 1, j |-> w.j, merged |-> Append(w.merged, left[w.i + 1])]
      ELSE [i |-> w.i, j |-> w.j + 1, merged |-> Append(w.merged, right[w.j + 1])]

MergeSyncSequences(left, right) ==
  LET walk[k \in 0 .. Len(left) + Len(right)] ==
        IF k = 0 THEN [i |-> 0, j |-> 0, merged |-> <<>>] ELSE MergeUnit(left, right, walk[k - 1])
  IN  walk[Len(left) + Len(right)].merged

\* InsertSynchronization leaves out the barrier on the vector pipe of an A5.
Inserted(syncs) == IF config.platform = "A5" THEN syncs \ {Barrier("V")} ELSE syncs

\* StmtFlattener: in a loop, PIPE_ALL directly precedes a scalar store.
BarStore(tok, syncs) ==
  IF tok.kind = "store" /\ loops # <<>> /\ (syncs = <<>> \/ Top(syncs) # BarrierAll)
  THEN Append(syncs, BarrierAll) ELSE syncs

Here == prog[pc]

Visiting(kinds) == phase = "sync" /\ pc \in DOMAIN prog /\ Here.kind \in kinds

\* VisitStmt_ of EvaluateNode and of BufferStoreNode.
VisitWork ==
  LET required == CollectSyncRequirements(Here)
      syncs == OptimizeSyncRequirements(required)
  IN
  /\ Visiting({"op", "store"})
  /\ gaps' = [gaps EXCEPT ![pc] =
                BarStore(Here, @ \o OptimizeSyncRequirements(Inserted(required)))]
  /\ hist' = UpdateLatestAccessHistory(UpdateSyncStatesAfterSync(hist, syncs), Here)
  /\ pc' = pc + 1
  /\ UNCHANGED <<unit, units, loops>>

\* The value of a let is not remembered: PIPE_ALL precedes it.
VisitLet ==
  /\ Visiting({"let"})
  /\ gaps' = IF Here.reads # {} THEN [gaps EXCEPT ![pc] = Append(@, BarrierAll)] ELSE gaps
  /\ pc' = pc + 1
  /\ UNCHANGED <<hist, unit, units, loops>>

VisitEndLet ==
  /\ Visiting({"endlet"})
  /\ pc' = pc + 1
  /\ UNCHANGED <<hist, unit, units, loops, gaps>>

\* PIPE_ALL on both sides of an if; each branch starts from an empty history.
VisitIf ==
  /\ Visiting({"if"})
  /\ gaps' = [gaps EXCEPT ![pc] = Append(@, BarrierAll)]
  /\ hist' = {}
  /\ pc' = pc + 1
  /\ UNCHANGED <<unit, units, loops>>

VisitElse ==
  /\ Visiting({"else"})
  /\ hist' = {}
  /\ pc' = pc + 1
  /\ UNCHANGED <<unit, units, loops, gaps>>

VisitEndIf ==
  /\ Visiting({"endif"})
  /\ gaps' = [gaps EXCEPT ![pc + 1] = Append(@, BarrierAll)]
  /\ hist' = {}
  /\ pc' = pc + 1
  /\ UNCHANGED <<unit, units, loops>>

\* A nested block of the unit at hand shares its history; another unit starts anew.
VisitScope ==
  /\ Visiting({"scope"})
  /\ units' = Append(units, [unit |-> unit, hist |-> hist, same |-> Here.arg = unit])
  /\ unit' = Here.arg
  /\ hist' = IF Here.arg = unit THEN hist ELSE {}
  /\ pc' = pc + 1
  /\ UNCHANGED <<loops, gaps>>

VisitEndScope ==
  LET saved == Top(units) IN
  /\ Visiting({"endscope"})
  /\ unit' = saved.unit
  /\ hist' = IF saved.same THEN hist ELSE saved.hist
  /\ units' = Pop(units)
  /\ pc' = pc + 1
  /\ UNCHANGED <<loops, gaps>>

-----------------------------------------------------------------------------
\* A loop that provably never runs is dropped, and what precedes it precedes
\* the next statement.
VisitEmptyFor ==
  LET next == Close(prog, pc) + 1 IN
  /\ Visiting({"for"})
  /\ Here.arg = "zero"
  /\ gaps' = [gaps EXCEPT ![pc] = <<>>, ![next] = gaps[pc]]
  /\ pc' = next
  /\ UNCHANGED <<hist, unit, units, loops>>

VisitFor ==
  /\ Visiting({"for"})
  /\ Here.arg # "zero"
  /\ loops' = Append(loops, [open |-> pc, iteration |-> 1, entry |-> hist,
                             exit |-> {}, gaps |-> gaps])
  /\ pc' = pc + 1
  /\ UNCHANGED <<hist, unit, units, gaps>>

InBody(loop, i) == loop.open < i /\ i <= pc

\* iteration_end of the first copy: the walk goes over the body once more.
VisitIterationEnd ==
  LET loop == Top(loops) IN
  /\ Visiting({"endfor"})
  /\ loop.iteration = 1
  /\ loops' = [loops EXCEPT ![Len(loops)] =
                 [loop EXCEPT !.iteration = 2, !.exit = hist, !.gaps = gaps]]
  /\ gaps' = [i \in DOMAIN gaps |-> IF InBody(loop, i) THEN <<>> ELSE gaps[i]]
  /\ pc' = loop.open + 1
  /\ UNCHANGED <<hist, unit, units>>

(***************************************************************************)
(* The end of the second copy: the history at the end of the first is what *)
(* holds after the loop, joined with that before it when the loop may not  *)
(* run; the two bodies become one (LoopRebuilder).                         *)
(***************************************************************************)
VisitLoopEnd ==
  LET loop == Top(loops) IN
  /\ Visiting({"endfor"})
  /\ loop.iteration = 2
  /\ gaps' = [i \in DOMAIN gaps |->
                IF InBody(loop, i) THEN MergeSyncSequences(loop.gaps[i], gaps[i]) ELSE gaps[i]]
  /\ hist' = IF prog[loop.open].arg = "optional"
             THEN JoinAccessHistories(loop.entry, loop.exit) ELSE loop.exit
  /\ loops' = Pop(loops)
  /\ pc' = pc + 1
  /\ UNCHANGED <<unit, units>>

-----------------------------------------------------------------------------
(***************************************************************************)
(* What the pass relies on and does not check.  Pipes that access the same *)
(* memory have events for each other: without one GetRequiredSyncType      *)
(* requires nothing.  The blocks of different units, each of which starts  *)
(* from an empty history, are not repeated and share no memory, and there  *)
(* is no work between them.                                                *)
(***************************************************************************)
MayShare(b, c) == b = c \/ ScopeOf[b] = ScopeOf[c]

Work(p) == {i \in DOMAIN p : Working(p[i])}

EventsExist(p) ==
  \A i, j \in Work(p) : \A a \in Accesses(p[i]), n \in Accesses(p[j]) :
    MayShare(a.buf, n.buf) /\ HasDataDependency(a, n) /\ a.pipe # n.pipe =>
      Event(a.pipe, n.pipe) \in EventMapping

Outermost(p) ==
  {s \in At(p, {"scope"}) : \A t \in At(p, {"scope"}) : ~Inside(p, t, s)}

UnitsApart(p) ==
  /\ \A s \in Outermost(p) :
       /\ p[s].arg # "none"
       /\ \A t \in At(p, {"scope"}) : Inside(p, s, t) => p[t].arg = p[s].arg
       /\ \A o \in At(p, {"for", "if"}) : ~Inside(p, o, s)
       /\ \A i \in Work(p) : \E t \in Outermost(p) : Inside(p, t, i)
  /\ \A s, t \in Outermost(p) : s # t =>
       \A i, j \in Work(p) : Inside(p, s, i) /\ Inside(p, t, j) =>
         \A a \in Accesses(p[i]), n \in Accesses(p[j]) : ~MayShare(a.buf, n.buf)

SyncInit ==
  /\ pc = 1
  /\ hist = {}
  /\ unit = "none"
  /\ units = <<>>
  /\ loops = <<>>
  /\ gaps = [i \in 1 .. Len(prog) + 1 |-> <<>>]

SyncNext ==
  \/ VisitWork
  \/ VisitLet \/ VisitEndLet
  \/ VisitIf \/ VisitElse \/ VisitEndIf
  \/ VisitScope \/ VisitEndScope
  \/ VisitEmptyFor \/ VisitFor \/ VisitIterationEnd \/ VisitLoopEnd
=============================================================================
