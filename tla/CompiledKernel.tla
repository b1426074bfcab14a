----------------------------- MODULE CompiledKernel -----------------------------
(***************************************************************************)
(* A kernel through the passes and on the device: memory planning, then    *)
(* synchronization, which relies on the planned addresses to see that two  *)
(* buffers share memory, then the execution of the synchronized code.      *)
(*                                                                         *)
(* The device is external.  Every pipe runs its instructions concurrently  *)
(* with the other pipes and, but for the scalar unit and the vector pipe   *)
(* of an A5, with its own earlier ones; only the inserted events and       *)
(* barriers order them.                                                    *)
(***************************************************************************)
EXTENDS SyncInsert

CONSTANTS
  Kernels,    \* a sequence of sets of programs, each with a configuration
  TripBound   \* bound: iterations of a loop on the device

ASSUME TripAssumption == TripBound \in Nat

ASSUME KernelAssumption ==
  \A k \in DOMAIN Kernels :
    /\ Kernels[k].config \in [auto : BOOLEAN, platform : STRING,
                               pre : [Buffers -> Nat \cup {NoOffset}]]
    /\ \A p \in Kernels[k].progs :
         p \in Seq(Tokens) /\ WellFormed(p) /\ EventsExist(p) /\ UnitsApart(p)

VARIABLES
  flight,   \* accesses issued, each with the pipes that start only after it
  trips,    \* the loops being executed, with the iterations left
  value,    \* whether a buffer's last written value is still in its memory
  carried   \* buffers first touched in a loop, since its previous iteration

runVars == <<flight, trips, value, carried>>
vars == <<planVars, scanVars, syncVars, runVars>>

Extents(arg) ==
  CASE arg = "positive" -> 1 .. TripBound
    [] arg = "optional" -> 0 .. TripBound
    [] arg = "zero" -> {0}

-----------------------------------------------------------------------------
\* OptimizeForTarget runs the synchronization pass on the planned kernel.
Planned ==
  /\ phase = "plan"
  /\ scopes = {}
  /\ planning = "idle"
  /\ phase' = "sync"
  /\ UNCHANGED <<prog, config, scopes, address_map, scanVars, syncVars, runVars>>

Passed(fl, sync) ==
  CASE sync = BarrierAll -> {}
    [] Len(sync) = 1 -> {IF a.pipe = sync[1] THEN [a EXCEPT !.known = @ \cup {sync[1]}] ELSE a : a \in fl}
    [] Len(sync) = 2 -> {IF sync[1] \in a.known \cup {a.pipe}
                         THEN [a EXCEPT !.known = @ \cup {sync[2]}] ELSE a : a \in fl}

Arrived(fl, syncs) ==
  LET after[k \in 0 .. Len(syncs)] == IF k = 0 THEN fl ELSE Passed(after[k - 1], syncs[k])
  IN  after[Len(syncs)]

\* The instruction stream continues at token i, past its synchronization.
GoTo(i, fl) ==
  /\ pc' = i
  /\ flight' = Arrived(fl, IF i \in DOMAIN gaps THEN gaps[i] ELSE <<>>)

Launched ==
  /\ phase = "sync"
  /\ pc = Len(prog) + 1
  /\ phase' = "run"
  /\ GoTo(1, {})
  /\ UNCHANGED <<prog, config, scopes, address_map, scanVars, hist, unit, units, loops, gaps,
                 trips, value, carried>>

Running(kinds) ==
  /\ phase = "run"
  /\ pc \in DOMAIN prog
  /\ Here.kind \in kinds
  /\ UNCHANGED <<planVars, scanVars, hist, unit, units, loops, gaps>>

InOrder(pipe) == IF pipe = "S" \/ (pipe = "V" /\ config.platform = "A5") THEN {pipe} ELSE {}

Issued(tok) ==
  {[buf |-> a.buf, pipe |-> a.pipe, write |-> a.write, known |-> InOrder(a.pipe)] :
     a \in Accesses(tok)}

SharesMemory(b, c) == b = c \/ ({b, c} \subseteq DOMAIN address_map /\ Overlap(b, c))

Clash(a, n) == (a.write \/ n.write) /\ SharesMemory(a.buf, n.buf)

\* An access stands for the earlier ones of its kind: whatever is ordered
\* after it is ordered after them.
Issue ==
  LET new == Issued(Here)
      Earlier(a) == \E n \in new : n.buf = a.buf /\ n.pipe = a.pipe /\ n.write = a.write
  IN  /\ Running({"op", "store"})
      /\ GoTo(pc + 1, {a \in flight : ~Earlier(a)} \cup new)
      /\ value' = [b \in DOMAIN value |->
                     IF b \in Here.writes THEN "kept"
                     ELSE IF value[b] = "kept" /\ \E w \in Here.writes : SharesMemory(b, w)
                     THEN "lost" ELSE value[b]]
      /\ carried' = carried \ (Here.writes \ Here.reads)
      /\ UNCHANGED trips

\* The scalar unit reads the value of a let before it issues what follows.
Pass ==
  /\ Running({"let", "endlet", "scope", "endscope", "endif"})
  /\ GoTo(pc + 1, flight)
  /\ UNCHANGED <<trips, value, carried>>

Branch ==
  /\ Running({"if"})
  /\ GoTo(pc + 1, flight) \/ GoTo(ElseOf(prog, pc) + 1, flight)
  /\ UNCHANGED <<trips, value, carried>>

ThenEnds ==
  /\ Running({"else"})
  /\ GoTo(1 + CHOOSE j \in {Close(prog, i) : i \in At(prog, {"if"})} :
                \E i \in At(prog, {"if"}) : Close(prog, i) = j /\ ElseOf(prog, i) = pc, flight)
  /\ UNCHANGED <<trips, value, carried>>

Enter ==
  /\ Running({"for"})
  /\ \E n \in Extents(Here.arg) :
       IF n = 0
       THEN GoTo(Close(prog, pc) + 1, flight) /\ UNCHANGED trips
       ELSE GoTo(pc + 1, flight) /\ trips' = Append(trips, [open |-> pc, left |-> n - 1])
  /\ UNCHANGED <<value, carried>>

Iterate ==
  LET loop == Top(trips) IN
  /\ Running({"endfor"})
  /\ loop.left > 0
  /\ GoTo(loop.open + 1, flight)
  /\ trips' = [trips EXCEPT ![Len(trips)].left = @ - 1]
  /\ carried' = carried \cup {b \in UsedBuffers(prog) : Inside(prog, loop.open, Gen(prog, b))}
  /\ UNCHANGED value

Leave ==
  /\ Running({"endfor"})
  /\ Top(trips).left = 0
  /\ GoTo(pc + 1, flight)
  /\ trips' = Pop(trips)
  /\ UNCHANGED <<value, carried>>

Ended ==
  /\ \/ phase = "run" /\ pc = Len(prog) + 1
     \/ phase = "failed"
  /\ UNCHANGED vars

Init ==
  /\ \E k \in DOMAIN Kernels : config = Kernels[k].config /\ prog \in Kernels[k].progs
  /\ PlanInit
  /\ SyncInit
  /\ flight = {}
  /\ trips = <<>>
  /\ value = [b \in UsedBuffers(prog) |-> "undefined"]
  /\ carried = {}

Next ==
  \/ PlanNext /\ UNCHANGED <<syncVars, runVars>>
  \/ Planned
  \/ SyncNext /\ UNCHANGED <<planVars, scanVars, runVars>>
  \/ Launched
  \/ Issue \/ Pass \/ Branch \/ ThenEnds \/ Enter \/ Iterate \/ Leave
  \/ Ended

Spec == Init /\ [][Next]_vars

-----------------------------------------------------------------------------
(***************************************************************************)
(* The types; in particular the access history has one entry per buffer,   *)
(* pipe and kind of access, which bounds it across loops that may not run. *)
(***************************************************************************)
TypeOK ==
  /\ phase \in {"plan", "sync", "run", "failed"}
  /\ pc \in 1 .. Len(prog) + 1
  /\ address_map \in [DOMAIN address_map -> Nat]
  /\ \A a \in hist : a.pipe \in Pipes /\ a.reach \subseteq Pipes /\ a.barred \in BOOLEAN
  /\ \A a, h \in hist : Same(a, h) => a = h
  /\ \A a \in flight : a.pipe \in Pipes /\ a.known \subseteq Pipes
  /\ \A i \in DOMAIN gaps : \A k \in DOMAIN gaps[i] : Len(gaps[i][k]) <= 2

\* s is t with some elements left out.
Within(s, t) ==
  \E f \in [DOMAIN s -> DOMAIN t] :
    \A i, j \in DOMAIN s : s[i] = t[f[i]] /\ (i < j => f[i] < f[j])

AboutTo == phase = "run" /\ pc \in DOMAIN prog

(***************************************************************************)
(* The inserted synchronization: when an instruction is issued, every      *)
(* access in flight that it conflicts with, in its own buffers or in       *)
(* others planned into the same memory, is one its pipe has waited for.    *)
(***************************************************************************)
RaceFree ==
  AboutTo =>
    \A n \in Issued(Here), a \in flight : Clash(a, n) => n.pipe \in a.known

(***************************************************************************)
(* The planned addresses: a value that an instruction reads has not been   *)
(* overwritten through another buffer.  Values left by an earlier          *)
(* iteration in a buffer first touched inside the loop are not covered.    *)
(***************************************************************************)
ValuesSurvive ==
  AboutTo => \A b \in Here.reads \ carried : value[b] # "lost"

(***************************************************************************)
(* The merge of the two copies of a loop body loses nothing: the           *)
(* synchronization of either copy is, in its order, part of the result.    *)
(***************************************************************************)
MergeKeepsBoth ==
  [][VisitLoopEnd => \A i \in DOMAIN gaps :
       InBody(Top(loops), i) =>
         /\ Within(gaps[i], gaps'[i])
         /\ Within(Top(loops).gaps[i], gaps'[i])]_vars
=============================================================================
